------------------------------ MODULE ShopProofs ------------------------------
(***************************************************************************)
(* What the tables of the catalog keep and what a customer is told of      *)
(* them, for every catalog, every number of requests, syncs and colour     *)
(* deletions, and every order of their steps.  The lemmas about the        *)
(* panel's steps are in CatalogProofs; a customer's read changes no table. *)
(***************************************************************************)
EXTENDS Shop, CatalogProofs, TLAPS

\* What a read has in hand: which product it is about, and the images it read.
AskOK ==
    /\ DOMAIN ask = DOMAIN NoAsk
    /\ ask.pc = "product" => ask.p \in Products
    /\ ask.pc \in {"tags", "term"} => ask.list \in Seq(Keys)

ShopInv == Inv /\ Owned /\ Stored /\ Lonely /\ UploadKept /\ NoDeadImage /\ AskOK

-----------------------------------------------------------------------------
(* A read leaves the tables alone.                                         *)

\* A read changes no table.
LEMMA ReadFrame ==
  ASSUME Form, Read
  PROVE  /\ UNCHANGED <<shelf, pictures, tags, embeddings, colourVars, edit, sync, alone>>
         /\ asked' \in [edits : Nat, drops : Nat, scripts : Nat, reads : Nat, changes : Nat]
         /\ asked'.edits = asked.edits /\ asked'.drops = asked.drops
<1>1. asked \in [edits : Nat, drops : Nat, scripts : Nat, reads : Nat, changes : Nat]
  BY DEF Form, EditForm
<1>2. ASSUME NEW kind, NEW p, NEW t, Ask(kind, p, t)
      PROVE  /\ UNCHANGED <<shelf, pictures, tags, embeddings, colourVars, edit, sync, alone>>
             /\ asked' = [asked EXCEPT !["reads"] = @ + 1]
  BY <1>2 DEF Ask, Count
<1>3. ASSUME asked' = [asked EXCEPT !["reads"] = @ + 1]
      PROVE  /\ asked' \in [edits : Nat, drops : Nat, scripts : Nat, reads : Nat, changes : Nat]
             /\ asked'.edits = asked.edits /\ asked'.drops = asked.drops
  BY <1>1, <1>3
<1>4. ASSUME UNCHANGED vars
      PROVE  /\ UNCHANGED <<shelf, pictures, tags, embeddings, colourVars, edit, sync, alone>>
             /\ UNCHANGED asked
  BY <1>4 DEF vars
<1>5. (\E kind, p, t : Ask(kind, p, t)) \/ UNCHANGED vars
  BY DEF Read, Step, ReadAvailable, ReadProduct, ReadTags, AnswerKey, AnswerMedia, ReadAd, ReadFamilies,
         SearchImage, SearchText, SearchVectors, LoadFound, Browse, ReadNames
<1> QED BY <1>1, <1>2, <1>3, <1>4, <1>5

\* What does not change the tables keeps what is said of them.
LEMMA SameTables ==
  ASSUME ShopInv, UNCHANGED <<shelf, pictures, tags, embeddings, colourVars, edit, sync, alone>>,
         asked' \in [edits : Nat, drops : Nat, scripts : Nat, reads : Nat, changes : Nat],
         asked'.edits = asked.edits, asked'.drops = asked.drops
  PROVE  Inv' /\ Owned' /\ Stored' /\ Lonely' /\ UploadKept' /\ NoDeadImage'
<1>0. UNCHANGED <<cats, links, row, objects, words, tags, vectors, warm, family, synonym, drop, edit, sync, alone>>
  BY DEF shelf, pictures, embeddings, colourVars
<1>1. Form'
  <2>1. EditForm'
    BY <1>0 DEF ShopInv, Inv, Form, EditForm
  <2>2. RowForm' /\ SyncForm' /\ TableForm' /\ ColourForm'
    BY <1>0 DEF ShopInv, Inv, Form, RowForm, SyncForm, TableForm, ColourForm
  <2> QED BY <2>1, <2>2 DEF Form
<1>2. Refs'
  BY <1>0 DEF ShopInv, Inv, Refs, Exists, Placed, ColoursNow
<1>3. Holding'
  BY <1>0 DEF ShopInv, Inv, Holding, HeldOK, Held
<1>4. Owned' /\ Stored'
  BY <1>0 DEF ShopInv, Owned, Owns, Given, Nameable, Stored, HadObject, Removed, ReadKeys, Listed, Exists
<1>5. UploadKept' /\ NoDeadImage'
  BY <1>0 DEF ShopInv, UploadKept, NoDeadImage, Given, HadObject, WroteList, Written, Listed, Exists
<1>6. Lonely'
  BY <1>0 DEF ShopInv, Lonely, OneAtATime, Fresh, InSync, InFlight, Busied, Right, ImagesNow, Published, Listed, Exists
<1> QED BY <1>1, <1>2, <1>3, <1>4, <1>5, <1>6 DEF Inv

-----------------------------------------------------------------------------
(* What a read has in hand.                                                *)

\* The images of a published product are keys.
LEMMA ImagesAreKeys ==
  ASSUME Form, NEW p \in Products, Published(p)
  PROVE  row[p].images \in Seq(Keys)
<1>1. row[p] \in Rows
  BY DEF Form, RowForm, Published, Exists
<1> QED BY <1>1 DEF Rows

\* A read keeps the form of what it has in hand.
LEMMA AskStep ==
  ASSUME Form, AskOK, Read
  PROVE  AskOK'
<1> USE DEF AskOK, NoAsk
<1>1. ASSUME NEW kind, NEW p, NEW t, Ask(kind, p, t), kind \in {"key", "media", "availability"} => p \in Products,
             kind \in {"key", "media", "availability", "image", "text", "all"}
      PROVE  AskOK'
  BY <1>1 DEF Ask
<1>2. CASE ReadProduct
  <2>1. CASE Visible(ask.p)
    <3>1. ask'.pc = "tags" /\ ask'.list = row[ask.p].images /\ DOMAIN ask' = DOMAIN NoAsk /\ ask.p \in Products
      BY <1>2, <2>1 DEF ReadProduct, Step
    <3> QED BY <2>1, <3>1, ImagesAreKeys DEF Visible
  <2>2. CASE ~Visible(ask.p)
    BY <1>2, <2>2 DEF ReadProduct, Step
  <2> QED BY <2>1, <2>2
<1>3. CASE ReadTags
  BY <1>3 DEF ReadTags, Step
<1>4. CASE AnswerKey \/ AnswerMedia
  BY <1>4 DEF AnswerKey, AnswerMedia, Step
<1>5. CASE ReadAvailable
  BY <1>5 DEF ReadAvailable, Step
<1>6. CASE ReadAd
  <2>1. PICK byAd : Step("ad", IF byAd = {} THEN [ask EXCEPT !.pc = "families", !.p = None]
                               ELSE [ask EXCEPT !.pc = "names", !.found = byAd])
    BY <1>6 DEF ReadAd
  <2> QED BY <2>1 DEF Step
<1>7. CASE ReadFamilies
  <2>1. PICK fams : Step("families", [ask EXCEPT !.pc = IF ask.kind = "text" THEN "trigram" ELSE "image", !.fams = fams])
    BY <1>7 DEF ReadFamilies
  <2> QED BY <2>1 DEF Step
<1>8. CASE SearchImage
  <2>1. PICK found : Step("image", [ask EXCEPT !.pc = "names", !.fams = {}, !.found = found])
    BY <1>8 DEF SearchImage
  <2> QED BY <2>1 DEF Step
<1>9. CASE SearchText
  BY <1>9 DEF SearchText, Step
<1>10. CASE SearchVectors
  <2>1. PICK list : Step("vectors", [ask EXCEPT !.pc = "load", !.list = list])
    BY <1>10 DEF SearchVectors
  <2> QED BY <2>1 DEF Step
<1>11. CASE LoadFound
  BY <1>11 DEF LoadFound, Step
<1>12. CASE Browse \/ ReadNames
  BY <1>12 DEF Browse, ReadNames, Step
<1> QED BY <1>1, <1>2, <1>3, <1>4, <1>5, <1>6, <1>7, <1>8, <1>9, <1>10, <1>11, <1>12 DEF Read

-----------------------------------------------------------------------------
(* The invariant.                                                          *)

\* The invariant holds in the first state.
LEMMA ShopInvInit == ShopInit => ShopInv
BY FirstState DEF ShopInit, ShopInv, AskOK, NoAsk

\* Every step keeps it: the panel's by the lemmas of CatalogProofs.
LEMMA ShopInvStep == ShopInv /\ [Next]_shopVars => ShopInv'
<1> SUFFICES ASSUME ShopInv, [Next]_shopVars PROVE ShopInv'
  OBVIOUS
<1>1. CASE CatalogNext /\ UNCHANGED ask
  <2>1. Inv'
    BY <1>1, BaseStep DEF ShopInv
  <2>2. Owned' /\ Stored'
    BY <1>1, OwnedStep, StoredStep DEF ShopInv, Inv
  <2>3. UploadKept' /\ NoDeadImage'
    BY <1>1, KeptStep, NoDeadStep DEF ShopInv, Inv
  <2>4. Lonely'
    BY <1>1, LonelyStep DEF ShopInv, Inv
  <2>5. AskOK'
    BY <1>1 DEF ShopInv, AskOK
  <2> QED BY <2>1, <2>2, <2>3, <2>4, <2>5 DEF ShopInv
<1>2. CASE Read
  BY <1>2, ReadFrame, SameTables, AskStep DEF ShopInv, Inv
<1>3. CASE UNCHANGED shopVars
  <2>1. UNCHANGED <<shelf, pictures, tags, embeddings, colourVars, edit, sync, alone>> /\ UNCHANGED <<asked, ask>>
    BY <1>3 DEF shopVars, vars
  <2>2. asked' \in [edits : Nat, drops : Nat, scripts : Nat, reads : Nat, changes : Nat]
    BY <2>1 DEF ShopInv, Inv, Form, EditForm
  <2>3. AskOK'
    BY <2>1 DEF ShopInv, AskOK
  <2> QED BY <2>1, <2>2, <2>3, SameTables DEF ShopInv
<1> QED BY <1>1, <1>2, <1>3 DEF Next

\* The inductive invariant of the catalog: form, references, locks, whose keys are whose,
\* what is stored, and, while nothing overlaps, which vectors are wrong and why.
THEOREM ShopInvHolds == Spec => []ShopInv
<1>1. ShopInit => ShopInv
  BY ShopInvInit
<1>2. ShopInv /\ [Next]_shopVars => ShopInv'
  BY ShopInvStep
<1> QED BY <1>1, <1>2, PTL DEF Spec

-----------------------------------------------------------------------------
(* The panel's side.                                                       *)

\* Whatever requests, syncs and colour deletions overlap, the rows refer to rows that
\* are there, an ad names a product once and no two colours share a family (the foreign
\* keys and unique indexes the repositories write under).
THEOREM TypeOKHolds == Spec => []TypeOK
<1>1. ShopInv => TypeOK
  BY InvIsTyped DEF ShopInv
<1> QED BY <1>1, ShopInvHolds, PTL

\* Uploads do not clobber each other: an image that was uploaded leaves its product only
\* with the product, or by an edit that wrote a list without it (appendImageUrls).
THEOREM UploadKeptHolds == Spec => []UploadKept
<1>1. ShopInv => UploadKept
  BY DEF ShopInv
<1> QED BY <1>1, ShopInvHolds, PTL

\* No image key of a product is dead, but for the five ways the code has to lose its object:
\* a create or a PATCH gave a key that never had one, removeImage is between the object and
\* the row or failed there, another edit wrote the key back, a create or a PATCH gave it
\* back, or it was given to another product and removed there (removeImage, create, update).
THEOREM NoDeadImageHolds == Spec => []NoDeadImage
<1>1. ShopInv => NoDeadImage
  BY DEF ShopInv
<1> QED BY <1>1, ShopInvHolds, PTL

\* When no two requests or syncs ever overlapped and no PATCH changed a product, the vectors
\* of a catalog at rest are of published products and of their images
\* (scheduleEmbeddingSync, deleteMissingKeys, the backfill script).
THEOREM SettledWhenAloneHolds == Spec => []SettledWhenAlone
<1>1. ShopInv => SettledWhenAlone
  BY LonelySettles DEF ShopInv, Inv
<1> QED BY <1>1, ShopInvHolds, PTL

\* No step leaves a tagged image without a colour but removeImage and the end of its
\* product (deleteWithReassignment, replaceForImage).
THEOREM TaggedUntilRemovedHolds == Spec => TaggedUntilRemoved
<1>1. ShopInv /\ [Next]_shopVars =>
        [\A t \in tags :
           \/ \E u \in tags' : u[1] = t[1] /\ u[2] = t[2]
           \/ row'[t[1]] = None
           \/ \E e \in Edits : edit[e].op = "remove" /\ edit[e].p = t[1] /\ edit[e].key = t[2] /\ edit[e].pc # edit'[e].pc]_tags
  <2> SUFFICES ASSUME ShopInv, [Next]_shopVars, tags' # tags, NEW t \in tags
               PROVE  \/ \E u \in tags' : u[1] = t[1] /\ u[2] = t[2]
                      \/ row'[t[1]] = None
                      \/ \E e \in Edits : edit[e].op = "remove" /\ edit[e].p = t[1] /\ edit[e].key = t[2] /\ edit[e].pc # edit'[e].pc
    OBVIOUS
  <2>1. CatalogNext
    <3>1. Read => UNCHANGED tags
      BY ReadFrame DEF ShopInv, Inv
    <3> QED BY <3>1 DEF Next, shopVars, vars
  <2> QED BY <2>1, StaysTagged DEF ShopInv, Excepted
<1> QED BY <1>1, ShopInvHolds, PTL DEF Spec, TaggedUntilRemoved

-----------------------------------------------------------------------------
(* The customer's side.                                                    *)

\* The images of some families are among the product's, and are those of a row of theirs.
LEMMA ImagesOfKeeps ==
  ASSUME NEW list \in Seq(Keys), NEW rows, NEW fs
  PROVE  /\ ImagesOf(list, rows, fs) \in Seq(Keys)
         /\ ToSet(ImagesOf(list, rows, fs)) = {k \in ToSet(list) : \E x \in rows : x[1] = k /\ x[2] \in fs}
<1> DEFINE keep == {k \in ToSet(list) : \E x \in rows : x[1] = k /\ x[2] \in fs}
<1>1. Filter(list, keep) \in Seq(Keys) /\ ToSet(Filter(list, keep)) = ToSet(list) \cap keep
  <2> HIDE DEF keep
  <2> QED BY FilterKeeps
<1>2. ToSet(list) \cap keep = keep
  OBVIOUS
<1> QED BY <1>1, <1>2 DEF ImagesOf

\* The first image with the colour, or nothing: never an image of another product.
LEMMA OrderKeyIsListed ==
  ASSUME NEW list \in Seq(Keys), NEW rows, NEW f
  PROVE  OrderKey(list, rows, f) \in ToSet(list) \cup {None}
<1> DEFINE ks == ImagesOf(list, rows, {f})
<1>1. ks \in Seq(Keys) /\ ToSet(ks) \subseteq ToSet(list)
  BY ImagesOfKeeps
<1>2. ks # <<>> => Head(ks) \in ToSet(list)
  <2> HIDE DEF ks
  <2> QED BY <1>1, ToSetOfHeadTail
<1> QED BY <1>2 DEF OrderKey

\* The images shown are among the product's.
LEMMA SentAreListed ==
  ASSUME NEW list \in Seq(Keys), NEW rows, NEW ts, NEW fam
  PROVE  ToSet(Media(list, rows, ts, fam).sent) \subseteq ToSet(list)
<1>1. Media(list, rows, ts, fam).sent = IF ts = {} THEN list ELSE ImagesOf(list, rows, {fam[t] : t \in ts})
  BY DEF Media
<1>2. \A fs : ToSet(ImagesOf(list, rows, fs)) \subseteq ToSet(list)
  BY ImagesOfKeeps
<1> QED BY <1>1, <1>2

\* No draft reaches a customer: what joins the products of an answer is published at the
\* query that finds it, whatever the panel does between the queries of a search
\* (searchFuzzy, findPublishedByIds, findByAdRef, checkAvailability).
THEOREM DraftNeverFoundHolds == Spec => DraftNeverFound
<1>1. ShopInv /\ [Next]_shopVars =>
        [\A p \in (ask'.found \ ask.found) \cap Products : Published(p)]_ask
  <2> SUFFICES ASSUME ShopInv, Read, NEW p \in Products, p \in ask'.found, p \notin ask.found
               PROVE  Published(p)
    BY DEF Next, shopVars
  <2> USE DEF NoAsk
  <2>0. DOMAIN ask = DOMAIN NoAsk /\ (ask.pc = "term" => ask.list \in Seq(Keys))
    BY DEF ShopInv, AskOK
  <2>a. p \notin Keys
    BY IdsDiffer
  <2>1. ASSUME NEW kind, NEW q, NEW t, Ask(kind, q, t) PROVE FALSE
    BY <2>1 DEF Ask
  <2>2. CASE ReadProduct \/ ReadTags
    BY <2>0, <2>2 DEF ReadProduct, ReadTags, Step
  <2>3. CASE AnswerKey
    <3>1. PICK f \in TermFamilies(ask.fams, ask.term, ColourFamily(ask.term)) :
            ask.pc = "term" /\ p \in {OrderKey(ask.list, ask.fams, f)} \ {None}
      BY <2>0, <2>3 DEF AnswerKey, Step
    <3>2. p \in ToSet(ask.list)
      BY <2>0, <3>1, OrderKeyIsListed
    <3> QED BY <2>0, <2>a, <3>1, <3>2, ToSetOfSeq
  <2>4. CASE AnswerMedia
    <3>1. PICK f \in TermFamilies(ask.fams, ask.term, ColourFamily(ask.term)) :
            ask.pc = "term" /\ p \in ToSet(Media(ask.list, ask.fams, {ask.term}, [t \in {ask.term} |-> f]).sent)
      BY <2>0, <2>4 DEF AnswerMedia, Step
    <3>2. p \in ToSet(ask.list)
      BY <2>0, <3>1, SentAreListed
    <3> QED BY <2>0, <2>a, <3>1, <3>2, ToSetOfSeq
  <2>5. CASE ReadAvailable
    BY <2>0, <2>5 DEF ReadAvailable, Step, Visible
  <2>6. CASE ReadAd
    <3>1. PICK imageLed \in BOOLEAN :
            LET byAd == IF imageLed THEN {} ELSE FindByAdRef(ask.p) IN
            ask' = IF byAd = {} THEN [ask EXCEPT !.pc = "families", !.p = None]
                   ELSE [ask EXCEPT !.pc = "names", !.found = byAd]
      BY <2>6 DEF ReadAd, Step
    <3>2. p \in FindByAdRef(ask.p)
      BY <2>0, <3>1
    <3> QED BY <3>2 DEF FindByAdRef, Visible
  <2>7. CASE ReadFamilies
    BY <2>0, <2>7 DEF ReadFamilies, Step
  <2>8. CASE SearchImage
    <3>1. PICK outage \in BOOLEAN :
            ask' = [ask EXCEPT !.pc = "names", !.fams = {}, !.found = IF outage THEN {} ELSE Similar(ask.fams)]
      BY <2>8 DEF SearchImage, Step
    <3>2. p \in Similar(ask.fams)
      BY <2>0, <3>1
    <3> QED BY <3>2 DEF Similar, ListPublished, Visible
  <2>9. CASE SearchText
    <3>1. p \in TextHits \cap ListPublished(ask.fams)
      BY <2>0, <2>9 DEF SearchText, Step
    <3> QED BY <3>1 DEF ListPublished, Visible
  <2>10. CASE SearchVectors
    <3>1. PICK outage \in BOOLEAN : ask' = [ask EXCEPT !.pc = "load", !.list = IF outage THEN {} ELSE Similar(ask.fams)]
      BY <2>10 DEF SearchVectors, Step
    <3> QED BY <2>0, <3>1
  <2>11. CASE LoadFound
    <3>1. p \in ask.found \cup Loaded(ask.list)
      BY <2>0, <2>11 DEF LoadFound, Step
    <3> QED BY <3>1 DEF Loaded
  <2>12. CASE Browse
    <3>1. p \in ListPublished(ask.fams)
      BY <2>0, <2>12 DEF Browse, Step
    <3> QED BY <3>1 DEF ListPublished, Visible
  <2>13. CASE ReadNames
    BY <2>0, <2>13 DEF ReadNames, Step
  <2> QED BY <2>1, <2>2, <2>3, <2>4, <2>5, <2>6, <2>7, <2>8, <2>9, <2>10, <2>11, <2>12, <2>13 DEF Read
<1> QED BY <1>1, ShopInvHolds, PTL DEF Spec, DraftNeverFound

-----------------------------------------------------------------------------
(* Two readers, one colour.                                                *)

\* The families a word may be taken for: all are colours of the product the word means, or
\* there is none; and when no two of its colours share a name there is only one.
LEMMA TermFamiliesAre ==
  ASSUME NEW rows, \A x \in rows : x[3] \in 1..Cardinality(Colours) /\ x[2] # None, NEW t, NEW syn,
         NEW f \in TermFamilies(rows, t, syn), NEW g \in TermFamilies(rows, t, syn)
  PROVE  /\ f # None => \E x \in rows : x[2] = f /\ (f \in Spells[t] \cup {syn} \/ x[3] \in Spells[t])
         /\ f = None <=> g = None
         /\ (\A x, y \in rows : x[3] = y[3] => x[2] = y[2]) => f = g
<1> DEFINE bySpelling == {x \in rows : x[2] \in Spells[t]}
           byName == {x \in rows : x[3] \in Spells[t]}
           F == TermFamilies(rows, t, syn)
<1>1. ASSUME NEW S, S \subseteq rows, NEW a \in LastByName(S)
      PROVE  \E x \in S : x[2] = a /\ \A y \in S : y[3] <= x[3]
  BY <1>1 DEF LastByName
<1>2. F = IF syn \in {x[2] : x \in rows} THEN {syn} ELSE IF LastByName(bySpelling) # {} THEN LastByName(bySpelling)
          ELSE IF LastByName(byName) # {} THEN LastByName(byName) ELSE {None}
  BY DEF TermFamilies
<1>3. ASSUME NEW S, S \subseteq rows, \A x, y \in rows : x[3] = y[3] => x[2] = y[2],
             NEW a \in LastByName(S), NEW b \in LastByName(S)
      PROVE  a = b
  <2>1. PICK x \in S : x[2] = a /\ \A y \in S : y[3] <= x[3]
    BY <1>1, <1>3
  <2>2. PICK z \in S : z[2] = b /\ \A y \in S : y[3] <= z[3]
    BY <1>1, <1>3
  <2>3. x[3] <= z[3] /\ z[3] <= x[3]
    BY <2>1, <2>2
  <2>4. x[3] \in Nat /\ z[3] \in Nat
    <3>1. Cardinality(Colours) \in Nat
      BY NamesAreOrdered, FS_CardinalityType
    <3> QED BY <1>3, <3>1
  <2> QED BY <1>3, <2>1, <2>2, <2>3, <2>4
<1>4. bySpelling \subseteq rows /\ byName \subseteq rows /\ f \in F /\ g \in F
  OBVIOUS
<1>5. (\A x \in bySpelling : x[2] \in Spells[t]) /\ \A x \in byName : x[3] \in Spells[t]
  OBVIOUS
<1> HIDE DEF bySpelling, byName, F
<1>6. CASE syn \in {x[2] : x \in rows}
  <2>1. f = syn /\ g = syn
    BY <1>2, <1>4, <1>6
  <2> QED BY <1>6, <2>1
<1>7. CASE F = LastByName(bySpelling)
  <2>1. PICK x \in bySpelling : x[2] = f
    BY <1>1, <1>4, <1>7
  <2>2. PICK y \in bySpelling : y[2] = g
    BY <1>1, <1>4, <1>7
  <2> QED BY <1>3, <1>4, <1>5, <1>7, <2>1, <2>2
<1>8. CASE F = LastByName(byName)
  <2>1. PICK x \in byName : x[2] = f
    BY <1>1, <1>4, <1>8
  <2>2. PICK y \in byName : y[2] = g
    BY <1>1, <1>4, <1>8
  <2> QED BY <1>3, <1>4, <1>5, <1>8, <2>1, <2>2
<1>9. CASE F = {None}
  BY <1>4, <1>9
<1> QED BY <1>2, <1>6, <1>7, <1>8, <1>9

\* What ReadsAgree asks of two readers that take the word for f and for g.
Agree(p, t, list, rows, f, g) ==
    LET k == OrderKey(list, rows, f)  m == Media(list, rows, {t}, [x \in {t} |-> g]) IN
      /\ (k = None) = (m.unavailable = {t})
      /\ m.unavailable = {} => \A i \in {k} \cup ToSet(m.sent) : Means(t, p, i)
      /\ k # None /\ (\A x, y \in rows : x[3] = y[3] => x[2] = y[2]) => k = Head(m.sent)

\* Two tools asked for one colour agree: the step from the references to ReadsAgree.
LEMMA ReadersAgree ==
  ASSUME Inv, NEW p \in Products, NEW t \in Terms, NEW list, list = Images(p), NEW rows, rows = ColourRows(p, list),
         NEW f \in TermFamilies(rows, t, ColourFamily(t)), NEW g \in TermFamilies(rows, t, ColourFamily(t))
  PROVE  Agree(p, t, list, rows, f, g)
<1> DEFINE syn == ColourFamily(t)
           k == OrderKey(list, rows, f)
           m == Media(list, rows, {t}, [x \in {t} |-> g])
           Shown(h) == ImagesOf(list, rows, {h})
<1>1. list \in Seq(Keys)
  <2>1. <<>> \in Seq(Keys)
    OBVIOUS
  <2> QED BY <2>1, ImagesAreKeys DEF Images, Inv
<1>2. \A x \in rows : \E u \in tags : /\ u[1] = p /\ u[2] \in ToSet(list) /\ u[3] \in ColoursNow
                                      /\ x[1] = u[2] /\ x[2] = family[u[3]] /\ x[3] = NameOf[u[3]]
  BY DEF ColourRows, Inv, Refs
<1>3. \A x \in rows : x[3] \in 1..Cardinality(Colours) /\ x[2] # None
  BY <1>2, NamesAreOrdered DEF ColoursNow
<1>4. ASSUME NEW h \in TermFamilies(rows, t, syn)
      PROVE  /\ h # None => \E x \in rows : x[2] = h /\ (h \in Spells[t] \cup {syn} \/ x[3] \in Spells[t])
             /\ h = None <=> f = None
             /\ (\A x, y \in rows : x[3] = y[3] => x[2] = y[2]) => h = f
  <2> HIDE DEF syn
  <2> QED BY <1>3, <1>4, TermFamiliesAre DEF syn
<1>5. \A h : /\ Shown(h) \in Seq(Keys)
             /\ ToSet(Shown(h)) = {i \in ToSet(list) : \E x \in rows : x[1] = i /\ x[2] = h}
  <2> TAKE h
  <2>1. {i \in ToSet(list) : \E x \in rows : x[1] = i /\ x[2] \in {h}} = {i \in ToSet(list) : \E x \in rows : x[1] = i /\ x[2] = h}
    OBVIOUS
  <2> QED BY <1>1, <2>1, ImagesOfKeeps
<1>6. k = (IF f = None \/ Shown(f) = <<>> THEN None ELSE Head(Shown(f))) /\ m.sent = Shown(g)
      /\ (g = None => m.unavailable = {t}) /\ (g # None => m.unavailable = {})
  <2>1. {[x \in {t} |-> g][y] : y \in {t}} = {g} /\ [x \in {t} |-> g][t] = g
    OBVIOUS
  <2>2. m.sent = ImagesOf(list, rows, {[x \in {t} |-> g][y] : y \in {t}})
        /\ m.unavailable = {y \in {t} : [x \in {t} |-> g][y] = None}
    BY DEF Media
  <2> QED BY <2>1, <2>2 DEF OrderKey
<1> HIDE DEF syn, k, m, Shown
<1>7. ASSUME NEW h \in TermFamilies(rows, t, syn), h # None
      PROVE  Shown(h) # <<>> /\ Head(Shown(h)) \in ToSet(Shown(h)) /\ Head(Shown(h)) \in Keys
  <2>1. PICK x \in rows : x[2] = h
    BY <1>4, <1>7
  <2>2. x[1] \in ToSet(Shown(h))
    BY <1>2, <1>5, <2>1
  <2>3. Shown(h) # <<>>
    BY <2>2 DEF ToSet
  <2> QED BY <1>5, <2>3, ToSetOfHeadTail
<1>8. ASSUME NEW h \in TermFamilies(rows, t, syn), h # None, NEW i \in ToSet(Shown(h)) PROVE Means(t, p, i)
  <2>1. PICK x \in rows : x[1] = i /\ x[2] = h
    BY <1>5, <1>8
  <2>2. PICK u \in tags : u[1] = p /\ u[2] = i /\ u[3] \in ColoursNow /\ family[u[3]] = h
    BY <1>2, <2>1
  <2>3. NameOf[u[3]] \in ImageColourNames(p, i)
    BY <2>2 DEF ImageColourNames, TagsOf
  <2>4. PICK y \in rows : y[2] = h /\ (h \in Spells[t] \cup {syn} \/ y[3] \in Spells[t])
    BY <1>4, <1>8
  <2>5. CASE h \in Spells[t] \cup {syn}
    BY <2>2, <2>3, <2>5 DEF Means, syn
  <2>6. CASE y[3] \in Spells[t]
    <3>1. PICK v \in tags : v[3] \in ColoursNow /\ family[v[3]] = h /\ y[3] = NameOf[v[3]]
      BY <1>2, <2>4
    <3>2. v[3] = u[3]
      BY <2>2, <3>1 DEF Inv, Refs
    <3> QED BY <2>3, <2>6, <3>1, <3>2 DEF Means
  <2> QED BY <2>4, <2>5, <2>6
<1>9. f \in TermFamilies(rows, t, syn) /\ g \in TermFamilies(rows, t, syn)
  BY DEF syn
<1>10. {t} # {}
  OBVIOUS
<1>11. k = None <=> f = None
  BY <1>6, <1>7, <1>9, IdsDiffer
<1>12. (k = None) = (m.unavailable = {t})
  BY <1>4, <1>6, <1>9, <1>10, <1>11
<1>13. ASSUME m.unavailable = {}, NEW i \in {k} \cup ToSet(m.sent) PROVE Means(t, p, i)
  <2>1. f # None /\ g # None
    BY <1>4, <1>6, <1>9, <1>10, <1>13
  <2>2. k \in ToSet(Shown(f)) /\ m.sent = Shown(g)
    BY <1>6, <1>7, <1>9, <2>1
  <2> QED BY <1>8, <1>9, <1>13, <2>1, <2>2
<1>14. ASSUME k # None, \A x, y \in rows : x[3] = y[3] => x[2] = y[2] PROVE k = Head(m.sent)
  <2>1. g = f
    BY <1>4, <1>9, <1>14
  <2> QED BY <1>6, <1>14, <2>1
<1> QED BY <1>12, <1>13, <1>14 DEF k, m, Agree

\* Two tools asked for one colour of a product agree, though each takes the word for a family
\* by itself: an image can be ordered just when one is shown, all have a colour the word means,
\* and when no two colours of the product share a name the image ordered is the first shown
\* (resolveOrderImageKeyByColor, getProductMediaByColors, getImageColorName).
THEOREM ReadsAgreeHolds == Spec => []ReadsAgree
<1>1. ShopInv => ReadsAgree
  <2> SUFFICES ASSUME Inv PROVE ReadsAgree
    BY DEF ShopInv
  <2>1. \A p \in Products : ResolveForOrder(p) = IF GetMedia(p) = <<>> THEN None ELSE Head(GetMedia(p))
    BY DEF ResolveForOrder, GetMedia
  <2>2. ASSUME NEW p \in Products, NEW t \in Terms, NEW list, list = Images(p), NEW rows, rows = ColourRows(p, list),
               NEW f \in TermFamilies(rows, t, ColourFamily(t)), NEW g \in TermFamilies(rows, t, ColourFamily(t))
        PROVE  Agree(p, t, list, rows, f, g)
    BY <2>2, ReadersAgree
  <2>3. \A p \in Products : \A t \in Terms :
          LET list == Images(p)  rows == ColourRows(p, list)  fs == TermFamilies(rows, t, ColourFamily(t)) IN
            \A f, g \in fs : Agree(p, t, list, rows, f, g)
    BY <2>2
  <2> QED BY <2>1, <2>3, Zenon DEF ReadsAgree, Agree
<1> QED BY <1>1, ShopInvHolds, PTL
=============================================================================
