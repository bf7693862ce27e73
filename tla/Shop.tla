-------------------------------- MODULE Shop --------------------------------
(***************************************************************************)
(* The customer's side of the catalog: what the agent's tools and the      *)
(* public routes read of the rows Catalog writes.  A read of several       *)
(* queries has a step for each, and the panel's requests come between      *)
(* them; what it has read is in ask.  How well a text or a picture matches *)
(* a product is a constant.                                                *)
(***************************************************************************)
EXTENDS Catalog

CONSTANTS NameOf,      \* NameOf[c]: the Arabic name of a colour, as its place in the collation order
          Spells,      \* Spells[t]: the families and names a term equals but for case
          Resembles,   \* Resembles[t]: the names it matches once hamza and ta-marbuta are folded
          Near,        \* Near[t]: the terms it is similar to, itself among them
          MainFamily,  \* MainFamily[p]: products.color_family
          TextHits,    \* the products whose name, description or tags match the query
          CloseKeys    \* the images whose vector is within the similarity threshold

\* The family of a colour is unique, its name is not.
ASSUME NamesAreOrdered == IsFiniteSet(Colours) /\ NameOf \in [Colours -> 1..Cardinality(Colours)]

VARIABLE ask  \* the question in flight: its kind, its product and term, what was read

shopVars == <<vars, ask>>

NoAsk == [pc |-> "new", kind |-> None, p |-> None, term |-> None, list |-> <<>>, fams |-> {}, found |-> {}, names |-> {}]

-----------------------------------------------------------------------------
(* Colour terms.                                                           *)

\* resolveColorFamily: an exact synonym, or null.
ColourFamily(t) == IF synonym[t] = None THEN None ELSE family[synonym[t]]

\* resolveColorFamilies: every family the term can mean, by name or by synonym.
ColourFamilies(t) ==
    ({family[c] : c \in {c \in ColoursNow : NameOf[c] \in Resembles[t]}}
       \cup {ColourFamily(s) : s \in {s \in Near[t] : synonym[s] # None}}) \ {Unassigned}

\* buildConditions: the product's own family, or one of its image tags.
HasColour(p, fams) ==
    \/ fams = {}
    \/ MainFamily[p] \in fams
    \/ \E t \in tags : t[1] = p /\ family[t[3]] \in fams

\* Every read for a customer filters on is_published.
Visible(p) == Published(p)

\* list with isPublished forced on: GET /products and the browse tool.
ListPublished(fams) == {p \in Products : Visible(p) /\ HasColour(p, fams)}
\* findByAdRef.
FindByAdRef(ad) == {p \in Products : Visible(p) /\ <<ad, p, TRUE>> \in links}

-----------------------------------------------------------------------------
(* One product.                                                            *)

\* findColorsByProduct: <<key, family, name>>, of keys that are listed; stale tags are skipped.
ColourRows(p, list) ==
    {<<t[2], family[t[3]], NameOf[t[3]]>> : t \in {t \in tags : t[1] = p /\ t[2] \in ToSet(list)}}

\* The query orders the rows by name, and of the families a word matches the maps of both
\* readers keep the last; those of one name come in any order.
LastByName(rows) == {x[2] : x \in {x \in rows : \A y \in rows : y[3] <= x[3]}}

\* The families a reader may take a word for: a synonym the product has, then a
\* family, then a name; None when it is no colour of the product.
TermFamilies(rows, t, syn) ==
    LET spelled == LastByName({x \in rows : x[2] \in Spells[t]})
        named == LastByName({x \in rows : x[3] \in Spells[t]}) IN
    IF syn \in {x[2] : x \in rows} THEN {syn}
    ELSE IF spelled # {} THEN spelled
    ELSE IF named # {} THEN named ELSE {None}

\* The images of a family, in display order.
ImagesOf(list, rows, fs) == Filter(list, {k \in ToSet(list) : \E x \in rows : x[1] = k /\ x[2] \in fs})

\* Mutant: the primary image when no image has the colour.
OrderKey_primary(list, rows, f) ==
    IF list = <<>> THEN None
    ELSE IF ImagesOf(list, rows, {f}) = <<>> THEN Head(list) ELSE Head(ImagesOf(list, rows, {f}))
\* resolveOrderImageKeyByColor: the first image with the colour the word was taken for, and
\* never the primary image in its place.
OrderKey(list, rows, f) ==
    IF f = None \/ ImagesOf(list, rows, {f}) = <<>> THEN None ELSE Head(ImagesOf(list, rows, {f}))

\* getProductMediaByColors: the images to send and the words the product lacks; fam[t] is
\* the family the word was taken for.
Media(list, rows, ts, fam) ==
    [sent |-> IF ts = {} THEN list ELSE ImagesOf(list, rows, {fam[t] : t \in ts}),
     unavailable |-> {t \in ts : fam[t] = None}]

\* What is read when nothing comes between the queries.
Images(p) == IF Published(p) THEN row[p].images ELSE <<>>

\* resolveForOrder: published, and with an image to pin the line to.
ResolveForOrder(p) == IF Images(p) = <<>> THEN None ELSE Head(Images(p))
\* getMedia.
GetMedia(p) == Images(p)
\* getImageColorName: the names of an image's tags.
ImageColourNames(p, k) == {NameOf[t[3]] : t \in TagsOf(p, k)}
\* getColorNamesByProducts: the names of all its tags, stale ones too.
ColourNames(ps) == {<<t[1], NameOf[t[3]]>> : t \in {t \in tags : t[1] \in ps}}

-----------------------------------------------------------------------------
(* Reads of several queries.                                               *)

Ask(kind, p, t) ==
    /\ ask.pc = "new" /\ Count("reads")
    /\ ask' = [NoAsk EXCEPT !.kind = kind, !.p = p, !.term = t,
                 !.pc = CASE kind \in {"key", "media", "availability"} -> "product" [] kind = "image" -> "families"
                          [] kind = "text" -> "ad" [] kind = "all" -> "browse"]
    /\ UNCHANGED <<shelf, pictures, tags, embeddings, colourVars, edit, sync, alone>>

Step(from, next) == ask.pc = from /\ ask' = next /\ UNCHANGED vars

\* findPublishedRaw; a draft ends the read with nothing.
ReadProduct ==
    /\ ask.kind # "availability"
    /\ Step("product", IF Visible(ask.p) THEN [ask EXCEPT !.pc = "tags", !.list = row[ask.p].images]
                       ELSE [NoAsk EXCEPT !.pc = "done"])

ReadTags == Step("tags", [ask EXCEPT !.pc = "term", !.fams = ColourRows(ask.p, ask.list)])

\* The synonym is looked up last, and the answer is made of the three reads.
AnswerKey ==
    /\ ask.kind = "key" /\ ask.pc = "term"
    /\ \E f \in TermFamilies(ask.fams, ask.term, ColourFamily(ask.term)) :
         Step("term", [ask EXCEPT !.pc = "done", !.fams = {},
                         !.found = {OrderKey(ask.list, ask.fams, f)} \ {None}])
AnswerMedia ==
    /\ ask.kind = "media" /\ ask.pc = "term"
    /\ \E f \in TermFamilies(ask.fams, ask.term, ColourFamily(ask.term)) :
         Step("term", [ask EXCEPT !.pc = "done", !.fams = {},
                         !.found = ToSet(Media(ask.list, ask.fams, {ask.term}, [t \in {ask.term} |-> f]).sent)])

\* checkAvailability: a draft is not available; of the others the colours are read.
ReadAvailable ==
    /\ ask.kind = "availability"
    /\ Step("product", IF Visible(ask.p) THEN [ask EXCEPT !.pc = "names", !.found = {ask.p}]
                       ELSE [NoAsk EXCEPT !.pc = "done"])

\* search_products: the products of the ad she came from, in ask.p, and nothing else,
\* unless a photo leads the turn or the ad has none.
ReadAd == \E imageLed \in BOOLEAN :
    LET byAd == IF imageLed THEN {} ELSE FindByAdRef(ask.p) IN
    Step("ad", IF byAd = {} THEN [ask EXCEPT !.pc = "families", !.p = None]
               ELSE [ask EXCEPT !.pc = "names", !.found = byAd])

\* toPublishedFilter; an unknown term is no filter.
ReadFamilies ==
    Step("families", [ask EXCEPT !.pc = IF ask.kind = "text" THEN "trigram" ELSE "image",
                      !.fams = IF ask.term = None THEN {} ELSE ColourFamilies(ask.term)])

\* searchSimilarByEmbedding: the gate and the colours are in the query.
Similar(fams) == {p \in ListPublished(fams) : \E v \in vectors : v[1] = p /\ v[2] \in CloseKeys}

\* findSimilarByImage; the tool finds nothing when the photo cannot be embedded.
SearchImage == \E outage \in BOOLEAN :
    Step("image", [ask EXCEPT !.pc = "names", !.fams = {},
                   !.found = IF outage THEN {} ELSE Similar(ask.fams)])

\* searchFuzzy, the trigram leg.
SearchText ==
    Step("trigram", [ask EXCEPT !.pc = "vectors", !.found = TextHits \cap ListPublished(ask.fams)])

\* The semantic leg: ids of the nearest published products; an outage finds none.
SearchVectors == \E outage \in BOOLEAN :
    Step("vectors", [ask EXCEPT !.pc = "load", !.list = IF outage THEN {} ELSE Similar(ask.fams)])

\* Mutant: the products of the ids as they were found.
Loaded_ungated(ids) == {p \in ids : Exists(p)}
\* findPublishedByIds: the gate again, for a product unpublished since.
Loaded(ids) == {p \in ids : Published(p)}

LoadFound ==
    Step("load", [ask EXCEPT !.pc = IF ask.found \cup Loaded(ask.list) = {} THEN "browse" ELSE "names",
                             !.found = ask.found \cup Loaded(ask.list), !.list = <<>>])

\* Nothing matches the words: the published catalog under the same filters; and
\* list_all_products.
Browse == Step("browse", [ask EXCEPT !.pc = "names", !.found = ListPublished(ask.fams), !.fams = {}])

\* The colours the tools tell with the products they found.
ReadNames == Step("names", [ask EXCEPT !.pc = "done", !.fams = {}, !.names = ColourNames(ask.found)])

Read ==
    \/ \E p \in Products, t \in Terms : Ask("key", p, t) \/ Ask("media", p, t)
    \/ \E t \in Terms \cup {None} : Ask("image", None, t) \/ \E ad \in Ads : Ask("text", ad, t)
    \/ \E p \in Products : Ask("availability", p, None)
    \/ Ask("all", None, None)
    \/ ReadAvailable \/ ReadProduct \/ ReadTags \/ AnswerKey \/ AnswerMedia \/ ReadAd \/ ReadFamilies \/ SearchImage
    \/ SearchText \/ SearchVectors \/ LoadFound \/ Browse \/ ReadNames

ShopInit == Init /\ ask = NoAsk
Next == (CatalogNext /\ UNCHANGED ask) \/ Read
Spec == ShopInit /\ [][Next]_shopVars

-----------------------------------------------------------------------------
\* No draft reaches a customer: a product that joins what a search has found is
\* published at that query, though it was matched by an earlier one
\* (findPublishedByIds, and the gate in every other query).
DraftNeverFound ==
    [][\A p \in (ask'.found \ ask.found) \cap Products : Published(p)]_ask

\* A name of image k is a name the word t means.
Means(t, p, k) == \E n \in ImageColourNames(p, k) :
    n \in Spells[t] \/ \E c \in ColoursNow : NameOf[c] = n /\ family[c] \in Spells[t] \cup {ColourFamily(t)}

\* Two tools asked for one colour of a product agree, though each takes the word for a
\* family by itself: an image can be ordered just when one is shown, and every image shown
\* or ordered has a colour the word means; when no two colours of the product share a name
\* the image ordered is the first shown, and without a colour it is the primary image.
ReadsAgree ==
    \A p \in Products :
        /\ ResolveForOrder(p) = (IF GetMedia(p) = <<>> THEN None ELSE Head(GetMedia(p)))
        /\ \A t \in Terms : LET list == Images(p)  rows == ColourRows(p, list)
                               fs == TermFamilies(rows, t, ColourFamily(t)) IN
             \A f, g \in fs : LET k == OrderKey(list, rows, f)  m == Media(list, rows, {t}, [x \in {t} |-> g]) IN
               /\ (k = None) = (m.unavailable = {t})
               /\ m.unavailable = {} => \A i \in {k} \cup ToSet(m.sent) : Means(t, p, i)
               /\ k # None /\ (\A x, y \in rows : x[3] = y[3] => x[2] = y[2]) => k = Head(m.sent)
=============================================================================
