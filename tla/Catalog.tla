------------------------------- MODULE Catalog -------------------------------
(***************************************************************************)
(* The panel's side of the catalog: product rows and their image keys, the *)
(* objects in storage, image colour tags and descriptions, the image       *)
(* vectors, and the canonical colours with their dialect terms.            *)
(*                                                                         *)
(* A repository call is one transaction, hence one step, but for           *)
(* deleteWithReassignment, whose statements are steps of their own: at     *)
(* READ COMMITTED other transactions commit between them.  A request keeps *)
(* the image list it read in edit[e].list.  The embedding sync a request   *)
(* starts is not awaited and runs beside everything else.                  *)
(***************************************************************************)
EXTENDS Naturals, Sequences, FiniteSets, SequencesExt

CONSTANTS Products,
          MaxEdits,    \* bound: requests of the panel on products and images
          Script,      \* the embeddings:backfill script
          NewKeys,     \* NewKeys[e]: the uuid keys of the files e uploads, in order
          Lists,       \* the image lists a create or a PATCH may give
          MaxDrops,    \* bound: requests to delete a colour
          Mix,         \* bound: how many requests, deletions, script runs, questions and
                       \* changes of colours and terms are looked at in one history
          Colours,     \* ids of the colours that may exist
          Sentinel,    \* the seeded "__unassigned__" colour
          Families,    \* canonical families an admin may give
          Unassigned,  \* the family of the sentinel
          Terms,       \* dialect words
          Categories,  \* ids of the categories that may exist
          Texts,       \* image descriptions
          ColourSets,  \* the sets of colours an admin may tag an image with
          None,
          FirstRow,    \* the product rows, tags, families and synonyms to start from
          FirstTags,
          FirstVectors,
          FirstFamily,
          FirstSynonym,
          FirstCats,   \* and the categories
          Ads          \* ad refs

ASSUME CatalogAssumption == Sentinel \in Colours /\ None \notin Colours \cup Products \cup Terms

VARIABLES
    row,       \* row[p]: its images in order, published or not, its category; or None
    cats,      \* the categories that exist
    links,     \* ad_product_links: <<ad, product, active>>
    objects,   \* the keys that have an object in storage
    tags,      \* product_image_colors: <<product, key, colour>>
    words,     \* product_image_descriptions: <<product, key, text>>
    vectors,   \* product_image_embeddings: <<product, key, text embedded with it>>
    warm,      \* <<key, text>> the server's cache of embeddings may hold
    family,    \* family[c]: the family of colour c, or None when there is no such row
    synonym,   \* synonym[t]: the colour term t stands for, or None
    edit,      \* edit[e]: how far the request has come, and what it read
    sync,      \* sync[j]: the embedding sync of request j, or the script's loop
    drop,      \* drop[d]: how far the deletion of a colour has come
    asked,     \* how many requests, deletions, script runs, questions and changes there were
    alone      \* history: no two requests or syncs were ever in flight at once

pictures == <<row, objects, words>>
embeddings == <<vectors, warm>>
shelf == <<cats, links>>
colourVars == <<family, synonym, drop>>
vars == <<pictures, shelf, tags, embeddings, colourVars, edit, sync, alone, asked>>

Edits == 1..MaxEdits
Drops == 1..MaxDrops
Jobs == Edits \cup {Script}

Exists(p) == row[p] # None
Keys == UNION {ToSet(NewKeys[e]) : e \in Edits} \cup UNION {ToSet(l) : l \in Lists}
          \cup UNION {ToSet(FirstRow[p].images) : p \in {q \in Products : FirstRow[q] # None}}
\* A row of products.
Rows == [images : Seq(Keys), published : BOOLEAN, category : Categories \cup {None}]

\* Ids of different kinds differ, and the uuids of an upload are new.
ASSUME IdsDiffer ==
    /\ MaxEdits \in Nat /\ MaxDrops \in Nat /\ Script \notin Edits
    /\ None \notin Keys \cup Rows \cup Families \cup {Unassigned} /\ Keys \cap Products = {}
    /\ None \notin {"upload", "toggle", "link", "remove", "primary", "colours", "words", "update", "create"}
    /\ None \notin Lists /\ Lists \subseteq Seq(Keys) /\ \A e \in Edits : NewKeys[e] \in Seq(Keys)
    /\ \A e, f \in Edits : e # f => ToSet(NewKeys[e]) \cap ToSet(NewKeys[f]) = {}

\* A tagging request names at least one colour.
ASSUME TagsNameColours == \A cs \in ColourSets : cs # {} /\ cs \subseteq Colours

\* The first rows satisfy the foreign keys and the unique indexes, the sentinel is seeded,
\* and the vectors are of published products and their images.
ASSUME FirstStateIsLegal ==
    /\ FirstRow \in [Products -> Rows \cup {None}] /\ FirstCats \subseteq Categories
    /\ \A p \in Products : FirstRow[p] # None =>
         /\ FirstRow[p].category \in FirstCats \cup {None}
         /\ \A q \in Products \ {p} : FirstRow[q] # None =>
              ToSet(FirstRow[p].images) \cap ToSet(FirstRow[q].images) = {}
         /\ \A e \in Edits : ToSet(FirstRow[p].images) \cap ToSet(NewKeys[e]) = {}
    /\ FirstTags \subseteq Products \X Keys \X Colours
    /\ \A t \in FirstTags : FirstRow[t[1]] # None /\ FirstFamily[t[3]] # None
    /\ FirstVectors \subseteq Products \X Keys \X (Texts \cup {None})
    /\ \A v \in FirstVectors : /\ FirstRow[v[1]] # None /\ FirstRow[v[1]].published
                              /\ v[2] \in ToSet(FirstRow[v[1]].images)
    /\ FirstFamily \in [Colours -> Families \cup {Unassigned, None}] /\ FirstFamily[Sentinel] = Unassigned
    /\ \A b, c \in Colours : FirstFamily[b] # None /\ FirstFamily[b] = FirstFamily[c] => b = c
    /\ FirstSynonym \in [Terms -> Colours \cup {None}]
    /\ \A t \in Terms : FirstSynonym[t] # None => FirstFamily[FirstSynonym[t]] # None

Listed(p) == IF Exists(p) THEN ToSet(row[p].images) ELSE {}
Published(p) == Exists(p) /\ row[p].published
ColoursNow == {c \in Colours : family[c] # None}

\* Array.filter: the elements that are in a set, in order.
Filter(list, keep) ==
    LET upTo[i \in 0..Len(list)] ==
          IF i = 0 THEN <<>> ELSE IF list[i] \in keep THEN Append(upTo[i-1], list[i]) ELSE upTo[i-1]
    IN upTo[Len(list)]
Without(list, k) == Filter(list, ToSet(list) \ {k})
ToFront(list, k) == <<k>> \o Without(list, k)

NoEdit == [pc |-> "new", op |-> None, p |-> None, key |-> None, arg |-> None, list |-> <<>>]
NoSync == [pc |-> "none", p |-> None, list |-> <<>>, left |-> <<>>, texts |-> {}]
NoDrop == [pc |-> "new", colour |-> None, gone |-> {}, moved |-> {}]

Init ==
    /\ row = FirstRow /\ tags = FirstTags /\ family = FirstFamily /\ synonym = FirstSynonym
    /\ cats = FirstCats /\ links = {}
    /\ objects = UNION {Listed(p) : p \in Products}
    /\ words = {} /\ vectors = FirstVectors /\ warm = {}
    /\ edit = [e \in Edits |-> NoEdit]
    /\ sync = [j \in Jobs |-> NoSync]
    /\ drop = [d \in Drops |-> NoDrop]
    /\ asked = [edits |-> 0, drops |-> 0, scripts |-> 0, reads |-> 0, changes |-> 0]
    /\ alone = TRUE

-----------------------------------------------------------------------------
(* Requests.                                                               *)

EditDone == {"new", "ok", "notfound", "conflict", "failed"}
Quiet ==
    /\ \A e \in Edits : edit[e].pc \in EditDone
    /\ \A j \in Jobs : sync[j].pc \in {"none", "done"}

\* One more of a kind; requests get their numbers in the order they come.
Count(kind) == asked' = [asked EXCEPT ![kind] = @ + 1] /\ asked' \in Mix

Begin(e, op, p, k, arg, pc) ==
    /\ e = asked.edits + 1 /\ Count("edits")
    /\ edit' = [edit EXCEPT ![e] = [pc |-> pc, op |-> op, p |-> p, key |-> k, arg |-> arg,
                                    list |-> IF p # None /\ Exists(p) THEN row[p].images ELSE <<>>]]
    /\ alone' = (alone /\ Quiet)

Go(e, from, to) ==
    /\ edit[e].pc = from
    /\ edit' = [edit EXCEPT ![e].pc = to]
    /\ UNCHANGED <<alone, asked>>

\* scheduleEmbeddingSync: nobody waits for it.
Schedule(e, p, list, published) ==
    sync' = [sync EXCEPT ![e] = [NoSync EXCEPT !.pc = IF published THEN "words" ELSE "clear",
                                               !.p = p, !.list = list, !.left = list]]
ScheduleRow(e, p) == Schedule(e, p, row'[p].images, row'[p].published)

\* addImages: the product must exist before a file is stored.
CheckUpload(e, p, replace) ==
    /\ Begin(e, "upload", p, None, replace, IF Exists(p) THEN "save" ELSE "notfound")
    /\ UNCHANGED <<shelf, pictures, tags, embeddings, colourVars, sync>>

\* Mutant: the failed ones are recorded with the others.
SaveImages_settled(e) == \E saved \in SUBSET ToSet(NewKeys[e]) :
    /\ Go(e, "save", "record")
    /\ objects' = objects \cup saved
    /\ UNCHANGED <<shelf, row, words, tags, embeddings, colourVars, sync>>
\* The files are stored in parallel; when one is reported as failed the request fails, and
\* what was stored stays in storage.
SaveImages(e) == \E saved \in SUBSET ToSet(NewKeys[e]), ok \in BOOLEAN :
    /\ ok => saved = ToSet(NewKeys[e])
    /\ Go(e, "save", IF ok THEN "record" ELSE "failed")
    /\ objects' = objects \cup saved
    /\ UNCHANGED <<shelf, row, words, tags, embeddings, colourVars, sync>>

\* Mutant: read, append in memory, write back.
Appended_stale(e, list) == edit[e].list \o NewKeys[e]
\* appendImageUrls: one UPDATE, so the list is the one in the row.
Appended(e, list) == list \o NewKeys[e]

\* The keys reach the row: appendImageUrls, or updateById to replace the list.
RecordImages(e) ==
    LET p == edit[e].p IN
    /\ Go(e, "record", IF Exists(p) THEN "ok" ELSE "undo")
    /\ IF Exists(p)
         THEN /\ row' = [row EXCEPT ![p].images = IF edit[e].arg THEN NewKeys[e] ELSE Appended(e, @)]
              /\ ScheduleRow(e, p)
         ELSE UNCHANGED <<row, sync>>
    /\ UNCHANGED <<shelf, objects, words, tags, embeddings, colourVars>>

\* The product vanished meanwhile: the saved files are deleted, best-effort.
UndoUpload(e) == \E kept \in SUBSET ToSet(NewKeys[e]) :
    /\ Go(e, "undo", "notfound")
    /\ objects' = (objects \ ToSet(NewKeys[e])) \cup kept
    /\ UNCHANGED <<shelf, row, words, tags, embeddings, colourVars, sync>>

\* The image requests begin alike: findById, and the key must be in image_urls.
ReadImage(e, op, p, k, arg, pc) ==
    /\ Begin(e, op, p, k, arg, IF k \in Listed(p) THEN pc ELSE "notfound")
    /\ UNCHANGED <<shelf, pictures, tags, embeddings, colourVars, sync>>

\* removeImage: the object, the tags, the description, and the row last.
AskRemove(e, p, k) == ReadImage(e, "remove", p, k, None, "object")

\* A storage call that is reported as failed may have deleted the object.
DeleteObject(e) == \E ok, gone \in BOOLEAN :
    /\ ok => gone
    /\ Go(e, "object", IF ok THEN "tags" ELSE "failed")
    /\ objects' = IF gone THEN objects \ {edit[e].key} ELSE objects
    /\ UNCHANGED <<shelf, row, words, tags, embeddings, colourVars, sync>>

\* Rows an uncommitted deletion of a colour has deleted or reassigned.
Locked(p, k) == \E d \in Drops : \E t \in drop[d].gone \cup drop[d].moved : t[1] = p /\ t[2] = k
TagsOf(p, k) == {t \in tags : t[1] = p /\ t[2] = k}

DeleteTags(e) ==
    LET p == edit[e].p  k == edit[e].key IN
    /\ Go(e, "tags", "words") /\ ~Locked(p, k)
    /\ tags' = tags \ TagsOf(p, k)
    /\ UNCHANGED <<shelf, pictures, embeddings, colourVars, sync>>

DeleteWords(e) ==
    /\ Go(e, "words", "write")
    /\ words' = {w \in words : ~(w[1] = edit[e].p /\ w[2] = edit[e].key)}
    /\ UNCHANGED <<shelf, row, objects, tags, embeddings, colourVars, sync>>

\* updateById with the list computed from the one read at the start.
WriteRemaining(e) ==
    LET p == edit[e].p IN
    /\ Go(e, "write", IF Exists(p) THEN "ok" ELSE "notfound")
    /\ IF Exists(p)
         THEN /\ row' = [row EXCEPT ![p].images = Without(edit[e].list, edit[e].key)]
              /\ ScheduleRow(e, p)
         ELSE UNCHANGED <<row, sync>>
    /\ UNCHANGED <<shelf, objects, words, tags, embeddings, colourVars>>

\* setPrimaryImage: the order changes and the set of images does not: no sync.
AskPrimary(e, p, k) == ReadImage(e, "primary", p, k, None, "reorder")
WriteReordered(e) ==
    LET p == edit[e].p IN
    /\ Go(e, "reorder", IF Exists(p) THEN "ok" ELSE "notfound")
    /\ row' = IF Exists(p) THEN [row EXCEPT ![p].images = ToFront(edit[e].list, edit[e].key)] ELSE row
    /\ UNCHANGED <<shelf, objects, words, tags, embeddings, colourVars, sync>>

\* setImageColors, with at least one colour id.
AskColours(e, p, k, cs) == ReadImage(e, "colours", p, k, cs, "known")

\* getManyByIds: every id must exist.
CheckColours(e) ==
    /\ Go(e, "known", IF edit[e].arg \subseteq ColoursNow THEN "retag" ELSE "notfound")
    /\ UNCHANGED <<shelf, pictures, tags, embeddings, colourVars, sync>>

Retagged(p, k, cs) == (tags \ TagsOf(p, k)) \cup {<<p, k, c>> : c \in cs}

\* replaceForImage: one transaction; it waits for the tags a colour deletion holds
\* and fails when a colour or the product has gone (foreign keys).
ReplaceTags(e) ==
    LET p == edit[e].p  k == edit[e].key
        ok == Exists(p) /\ edit[e].arg \subseteq ColoursNow IN
    /\ Go(e, "retag", IF ok THEN "ok" ELSE "failed") /\ ~Locked(p, k)
    /\ tags' = IF ok THEN Retagged(p, k, edit[e].arg) ELSE tags
    /\ UNCHANGED <<shelf, pictures, embeddings, colourVars, sync>>

\* setImageDescription: the sync works on the product as it was read.
AskWords(e, p, k, text) == ReadImage(e, "words", p, k, <<text, Published(p)>>, "describe")
WriteWords(e) ==
    LET p == edit[e].p  k == edit[e].key IN
    /\ Go(e, "describe", IF Exists(p) THEN "ok" ELSE "failed")
    /\ IF Exists(p)
         THEN /\ words' = {w \in words : ~(w[1] = p /\ w[2] = k)} \cup {<<p, k, edit[e].arg[1]>>}
              /\ Schedule(e, p, edit[e].list, edit[e].arg[2])
         ELSE UNCHANGED <<words, sync>>
    /\ UNCHANGED <<shelf, row, objects, tags, embeddings, colourVars>>

\* requirePublishUpdate: the flag, then the sync.
SetFlag(e, p, published) ==
    /\ row' = IF Exists(p) THEN [row EXCEPT ![p].published = published] ELSE row
    /\ IF Exists(p) THEN ScheduleRow(e, p) ELSE UNCHANGED sync
    /\ UNCHANGED <<shelf, objects, words, tags, embeddings, colourVars>>

\* setPublished, publish and unpublish.
SetPublished(e, p, published) ==
    /\ Begin(e, "publish", p, None, published, IF Exists(p) THEN "ok" ELSE "notfound")
    /\ SetFlag(e, p, published)

\* togglePublish: read, then set the opposite.
AskToggle(e, p) ==
    /\ Begin(e, "toggle", p, None, ~Published(p), IF Exists(p) THEN "toggle" ELSE "notfound")
    /\ UNCHANGED <<shelf, pictures, tags, embeddings, colourVars, sync>>
Toggle(e) ==
    /\ Go(e, "toggle", IF Exists(edit[e].p) THEN "ok" ELSE "notfound")
    /\ SetFlag(e, edit[e].p, edit[e].arg)

\* The foreign key of category_id, on every insert and update.
Placed(cat) == cat \in cats \cup {None}

\* imageUrls of a create or a PATCH: any list, but for the uuids of an upload that is
\* not answered, which nobody knows.  Whether they have an object is not checked.
Nameable(list) ==
    \A e \in Edits : ToSet(list) \cap ToSet(NewKeys[e]) # {} => edit[e].op = "upload" /\ edit[e].pc = "ok"

\* update: the patch may hold isPublished, imageUrls and categoryId, and nothing is synced.
Update(e, p, flag, list, cat) ==
    LET ok == Exists(p) /\ Placed(cat) IN
    /\ list # None => Nameable(list)
    /\ Begin(e, "update", p, None, list, IF ok THEN "ok" ELSE IF Exists(p) THEN "failed" ELSE "notfound")
    /\ row' = IF ~ok THEN row
              ELSE [row EXCEPT ![p].published = IF flag = None THEN @ ELSE flag = "published",
                               ![p].images = IF list = None THEN @ ELSE list,
                               ![p].category = IF cat = None THEN @ ELSE cat]
    /\ UNCHANGED <<shelf, objects, words, tags, embeddings, colourVars, sync>>

\* create: a draft unless isPublished is given, with the images it names.
Create(e, p, published, list, cat) ==
    /\ ~Exists(p) /\ \A f \in Edits : edit[f].p # p
    /\ Nameable(list)
    /\ Begin(e, "create", p, None, list, IF Placed(cat) THEN "ok" ELSE "failed")
    /\ IF Placed(cat)
         THEN /\ row' = [row EXCEPT ![p] = [images |-> list, published |-> published, category |-> cat]]
              /\ ScheduleRow(e, p)
         ELSE UNCHANGED <<row, sync>>
    /\ UNCHANGED <<shelf, objects, words, tags, embeddings, colourVars>>

\* delete: tags, descriptions, vectors and ad links cascade; the objects stay in storage.
\* It waits for every row of the product an uncommitted deletion of a colour holds.
Delete(e, p) ==
    /\ Begin(e, "delete", p, None, None, IF Exists(p) THEN "ok" ELSE "notfound")
    /\ \A t \in tags : t[1] = p => ~Locked(p, t[2])
    /\ row' = [row EXCEPT ![p] = None]
    /\ tags' = {t \in tags : t[1] # p}
    /\ words' = {w \in words : w[1] # p}
    /\ vectors' = {v \in vectors : v[1] # p}
    /\ links' = {l \in links : l[2] # p}
    /\ UNCHANGED <<cats, objects, warm, colourVars, sync>>

-----------------------------------------------------------------------------
(* Categories and ad links.                                                *)

Uses(c) == {p \in Products : Exists(p) /\ row[p].category = c}

\* create, under a slug; a taken one is a 409.
AddCategory(e, c) ==
    /\ \A f \in Edits : edit[f].key # c
    /\ Begin(e, "category", None, c, None, IF c \in cats THEN "conflict" ELSE "ok")
    /\ cats' = cats \cup {c}
    /\ UNCHANGED <<links, pictures, tags, embeddings, colourVars, sync>>

\* delete: findById, then the count of the products that use it, then the row.
AskDropCategory(e, c) ==
    /\ Begin(e, "dropcategory", None, c, None, IF c \in cats THEN "count" ELSE "notfound")
    /\ UNCHANGED <<shelf, pictures, tags, embeddings, colourVars, sync>>
CountUses(e) ==
    /\ Go(e, "count", IF Uses(edit[e].key) = {} THEN "drop" ELSE "conflict")
    /\ UNCHANGED <<shelf, pictures, tags, embeddings, colourVars, sync>>

\* A product that took the category after the count stops the DELETE (foreign key).
InUse(c) == Uses(c) # {}
DropCategory(e) ==
    LET c == edit[e].key IN
    /\ Go(e, "drop", IF InUse(c) THEN "failed" ELSE "ok")
    /\ cats' = IF InUse(c) THEN cats ELSE cats \ {c}
    /\ UNCHANGED <<links, pictures, tags, embeddings, colourVars, sync>>

\* AdProductLinksService.create: the product is looked up, then the row inserted; a
\* product deleted in between and a second link of the two are plain errors.
AskLink(e, ad, p) ==
    /\ Begin(e, "link", p, ad, None, IF Exists(p) THEN "link" ELSE "notfound")
    /\ UNCHANGED <<shelf, pictures, tags, embeddings, colourVars, sync>>
Linked(ad, p) == {l \in links : l[1] = ad /\ l[2] = p}
WriteLink(e) ==
    LET p == edit[e].p  ad == edit[e].key
        ok == Exists(p) /\ Linked(ad, p) = {} IN
    /\ Go(e, "link", IF ok THEN "ok" ELSE "failed")
    /\ links' = IF ok THEN links \cup {<<ad, p, TRUE>>} ELSE links
    /\ UNCHANGED <<cats, pictures, tags, embeddings, colourVars, sync>>
\* update (is_active) and delete; the row decides.
SwitchLink(e, l) ==
    /\ Begin(e, "switch", l[2], l[1], None, IF l \in links THEN "ok" ELSE "notfound")
    /\ links' = IF l \in links THEN (links \ {l}) \cup {<<l[1], l[2], ~l[3]>>} ELSE links
    /\ UNCHANGED <<cats, pictures, tags, embeddings, colourVars, sync>>
DropLink(e, l) ==
    /\ Begin(e, "unlink", l[2], l[1], None, IF l \in links THEN "ok" ELSE "notfound")
    /\ links' = links \ {l}
    /\ UNCHANGED <<cats, pictures, tags, embeddings, colourVars, sync>>

\* A query of a request fails and changes nothing; what the request did before stays.
FailQuery(e) == \E at \in {"record", "tags", "words", "write", "reorder", "known", "retag", "describe",
                          "toggle", "count", "drop", "link"} :
    /\ Go(e, at, "failed")
    /\ UNCHANGED <<shelf, pictures, tags, embeddings, colourVars, sync>>

-----------------------------------------------------------------------------
(* syncProductEmbeddings, and the backfill script with the same loop.      *)

WordsOf(p) == {w \in words : w[1] = p}
TextOf(texts, k) == IF \E w \in texts : w[2] = k THEN (CHOOSE w \in texts : w[2] = k)[3] ELSE None

Pass(j, from, to) == sync[j].pc = from /\ sync' = [sync EXCEPT ![j].pc = to]

\* A draft's vectors are cleared.
ClearVectors(j) ==
    /\ Pass(j, "clear", "done")
    /\ vectors' = {v \in vectors : v[1] # sync[j].p}
    /\ UNCHANGED <<shelf, pictures, tags, warm, colourVars, edit, alone, asked>>

\* getMapByProduct: the descriptions, read once for all the images.
ReadWords(j) ==
    /\ sync[j].pc = "words"
    /\ sync' = [sync EXCEPT ![j].pc = "image", ![j].texts = WordsOf(sync[j].p)]
    /\ UNCHANGED <<shelf, pictures, tags, embeddings, colourVars, edit, alone, asked>>

\* embedRequest: an input embedded lately is answered from the cache; the script is another
\* process and embeds each input once.
Cached(j, input) == j # Script /\ input \in warm

\* embedRequestUncached: the provider fetches the image from its public URL, for each of its
\* tries.
Reachable(k) == k \in objects

\* embedImage, or embedImageWithText: with its description the image is another input.
Input(texts, k) == <<k, TextOf(texts, k)>>

\* One image of the loop; what fails is logged and skipped.
Embed(j) == \E ok \in BOOLEAN :
    /\ sync[j].pc = "image" /\ sync[j].left # <<>>
    /\ LET k == Head(sync[j].left)
           input == Input(sync[j].texts, k)
       IN /\ ok => Reachable(k) \/ Cached(j, input)
          /\ warm' = IF ok /\ j # Script THEN warm \cup {input} ELSE warm
    /\ sync' = IF ok THEN [sync EXCEPT ![j].pc = "upsert"] ELSE [sync EXCEPT ![j].left = Tail(@)]
    /\ UNCHANGED <<shelf, pictures, tags, vectors, colourVars, edit, alone, asked>>

\* upsert on (product_id, image_key); a foreign key error is skipped like the rest.
Upsert(j) ==
    LET p == sync[j].p  k == Head(sync[j].left) IN
    /\ sync[j].pc = "upsert"
    /\ sync' = [sync EXCEPT ![j].pc = "image", ![j].left = Tail(@)]
    /\ vectors' = IF ~Exists(p) THEN vectors
                  ELSE {v \in vectors : ~(v[1] = p /\ v[2] = k)} \cup {<<p, k, TextOf(sync[j].texts, k)>>}
    /\ UNCHANGED <<shelf, pictures, tags, warm, colourVars, edit, alone, asked>>

\* Mutant: nothing is pruned.
Pruned_nothing(p, list) == vectors
\* deleteMissingKeys: the vectors of images that are not in the list go.
Pruned(p, list) == {v \in vectors : v[1] = p => v[2] \in ToSet(list)}

\* The loop is over; the script does not prune.
Finish(j) ==
    /\ Pass(j, "image", "done") /\ sync[j].left = <<>>
    /\ vectors' = IF j = Script THEN vectors ELSE Pruned(sync[j].p, sync[j].list)
    /\ UNCHANGED <<shelf, pictures, tags, warm, colourVars, edit, alone, asked>>

\* backfillEmbeddings: the published products as they are when it starts.
Backfill(p) ==
    /\ sync[Script].pc = "none" /\ Count("scripts") /\ Published(p)
    /\ sync' = [sync EXCEPT ![Script] = [NoSync EXCEPT !.pc = "already", !.p = p, !.list = row[p].images]]
    /\ alone' = (alone /\ Quiet)
    /\ UNCHANGED <<shelf, pictures, tags, embeddings, colourVars, edit>>

\* findEmbeddedKeys: images that have a vector are skipped.
SkipEmbedded ==
    LET list == sync[Script].list
        embedded == {v[2] : v \in {v \in vectors : v[1] = sync[Script].p}} IN
    /\ sync[Script].pc = "already"
    /\ sync' = [sync EXCEPT ![Script].pc = "words", ![Script].left = Filter(list, ToSet(list) \ embedded)]
    /\ UNCHANGED <<shelf, pictures, tags, embeddings, colourVars, edit, alone, asked>>

-----------------------------------------------------------------------------
(* Colours.                                                                *)

Answered(d, pc) == [drop EXCEPT ![d] = [NoDrop EXCEPT !.pc = pc, !.colour = drop[d].colour]]

\* ColorsService.delete: a colour that exists and is no system colour.
AskDrop(d, c) ==
    /\ d = asked.drops + 1 /\ Count("drops") /\ c \in ColoursNow
    /\ drop' = [drop EXCEPT ![d] = [NoDrop EXCEPT !.colour = c,
                  !.pc = IF c = Sentinel THEN "refused" ELSE "dedupe"]]
    /\ UNCHANGED <<shelf, pictures, tags, embeddings, family, synonym, edit, sync, alone>>

\* Whether another deletion holds one of these rows, or the row one would become.
Busy(d, ts) == \E f \in Drops \ {d} : \E t \in ts, u \in drop[f].gone \cup drop[f].moved :
    t[1] = u[1] /\ t[2] = u[2] /\ (t = u \/ u \in drop[f].moved)

OfColour(c) == {t \in tags : t[3] = c}
AsSentinel(t) == <<t[1], t[2], Sentinel>>

\* Mutant: every tag of the colour is taken for a duplicate.
Duplicates_all(c) == OfColour(c)
\* Step 2: the tags of images that carry the sentinel already.
Duplicates(c) == {t \in OfColour(c) : AsSentinel(t) \in tags}

Dedupe(d) ==
    LET c == drop[d].colour IN
    /\ drop[d].pc = "dedupe" /\ ~Busy(d, Duplicates(c))
    /\ drop' = [drop EXCEPT ![d].pc = "move", ![d].gone = Duplicates(c)]
    /\ UNCHANGED <<shelf, pictures, tags, embeddings, family, synonym, edit, sync, alone, asked>>

\* Step 3: the others are reassigned.  One whose image has got the sentinel
\* meanwhile breaks the primary key and the transaction: a plain error.
Move(d) ==
    LET moved == OfColour(drop[d].colour) \ drop[d].gone IN
    /\ drop[d].pc = "move" /\ ~Busy(d, moved)
    /\ drop' = IF \E t \in moved : AsSentinel(t) \in tags THEN Answered(d, "error")
               ELSE [drop EXCEPT ![d].pc = "drop", ![d].moved = moved]
    /\ UNCHANGED <<shelf, pictures, tags, embeddings, family, synonym, edit, sync, alone, asked>>

\* Mutant: the row goes whatever still refers to it.
StillTagged_ignored(d) == FALSE
\* ON DELETE RESTRICT: an image was tagged with the colour since step 3.
StillTagged(d) == OfColour(drop[d].colour) \ (drop[d].gone \cup drop[d].moved) # {}

\* Step 4 and the commit: synonyms cascade; a tag that came meanwhile is a 409.
DropColour(d) ==
    LET c == drop[d].colour IN
    /\ drop[d].pc = "drop"
    /\ IF StillTagged(d)
         THEN drop' = Answered(d, "conflict") /\ UNCHANGED <<tags, family, synonym>>
         ELSE /\ drop' = Answered(d, IF c \in ColoursNow THEN "ok" ELSE "notfound")
              /\ tags' = (tags \ (drop[d].gone \cup drop[d].moved)) \cup {AsSentinel(t) : t \in drop[d].moved}
              /\ family' = [family EXCEPT ![c] = None]
              /\ synonym' = [t \in Terms |-> IF synonym[t] = c THEN None ELSE synonym[t]]
    /\ UNCHANGED <<shelf, pictures, embeddings, edit, sync, alone, asked>>

\* The unique index on (tenant, family).
FamilyFree(c, f) == \A b \in ColoursNow \ {c} : family[b] # f

\* create and update: a family that is taken is a 409 and changes nothing.
WriteFamily(c, f) ==
    /\ Count("changes")
    /\ FamilyFree(c, f)
    /\ family' = [family EXCEPT ![c] = f]
    /\ UNCHANGED <<shelf, pictures, tags, embeddings, synonym, drop, edit, sync, alone>>

\* create.  A new row has a new id.
AddColour(c, f) ==
    /\ c \notin ColoursNow /\ \A d \in Drops : drop[d].colour # c
    /\ WriteFamily(c, f)

\* update, of a colour that is no system colour.  Its changed family needs
\* confirmFamilyChange.
SetFamily(c, f) ==
    /\ c \in ColoursNow \ {Sentinel} /\ f # family[c]
    /\ WriteFamily(c, f)

\* ColorSynonymsService.create, update and delete: the colour must exist.
SetSynonym(t, c) ==
    /\ Count("changes")
    /\ c \in ColoursNow \cup {None} /\ c # synonym[t]
    /\ synonym' = [synonym EXCEPT ![t] = c]
    /\ UNCHANGED <<shelf, pictures, tags, embeddings, family, drop, edit, sync, alone>>

-----------------------------------------------------------------------------
Image(e) == \E p \in Products : \E k \in Listed(p) :
    \/ AskRemove(e, p, k) \/ AskPrimary(e, p, k)
    \/ \E cs \in ColourSets : AskColours(e, p, k, cs)
    \/ \E text \in Texts : AskWords(e, p, k, text)

Product(e) == \E p \in Products :
    \/ \E b \in BOOLEAN : CheckUpload(e, p, b) \/ SetPublished(e, p, b)
    \/ \E b \in BOOLEAN, list \in Lists \cup {<<>>}, c \in Categories \cup {None} : Create(e, p, b, list, c)
    \/ AskToggle(e, p) \/ Delete(e, p)
    \/ \E flag \in {None, "published", "draft"} : Update(e, p, flag, None, None)
    \/ \E list \in Lists : Update(e, p, None, list, None)
    \/ \E c \in Categories : Update(e, p, None, None, c)

Category(e) == \E c \in Categories : AddCategory(e, c) \/ AskDropCategory(e, c)

AdLink(e) ==
    \/ \E p \in Products, ad \in Ads : AskLink(e, ad, p)
    \/ \E l \in links : SwitchLink(e, l) \/ DropLink(e, l)

Proceed(e) ==
    \/ SaveImages(e) \/ RecordImages(e) \/ UndoUpload(e) \/ DeleteObject(e) \/ DeleteTags(e)
    \/ DeleteWords(e) \/ WriteRemaining(e) \/ WriteReordered(e) \/ CheckColours(e)
    \/ ReplaceTags(e) \/ WriteWords(e) \/ Toggle(e) \/ CountUses(e) \/ DropCategory(e) \/ WriteLink(e)
    \/ FailQuery(e)

Sync(j) == ClearVectors(j) \/ ReadWords(j) \/ Embed(j) \/ Upsert(j) \/ Finish(j)

Colour(d) == (\E c \in Colours : AskDrop(d, c)) \/ Dedupe(d) \/ Move(d) \/ DropColour(d)
Palette == \E c \in Colours, f \in Families : AddColour(c, f) \/ SetFamily(c, f)
Dialect == \E t \in Terms, c \in Colours \cup {None} : SetSynonym(t, c)

CatalogNext ==
    \/ \E e \in Edits : Image(e) \/ Product(e) \/ Category(e) \/ AdLink(e) \/ Proceed(e)
    \/ \E j \in Jobs : Sync(j)
    \/ (\E p \in Products : Backfill(p)) \/ SkipEmbedded
    \/ \E d \in Drops : Colour(d)
    \/ Palette \/ Dialect

-----------------------------------------------------------------------------
\* Rows refer to rows that are there: tags to colours and products, vectors and
\* descriptions to products, products to categories, ad links to products and one
\* for each, terms to colours; no two colours share a family.
TypeOK ==
    /\ \A p \in Products : Exists(p) => row[p].published \in BOOLEAN /\ Listed(p) \subseteq Keys /\ Placed(row[p].category)
    /\ \A l \in links : Exists(l[2]) /\ Cardinality(Linked(l[1], l[2])) = 1
    /\ \A t \in tags : Exists(t[1]) /\ t[2] \in Keys /\ t[3] \in ColoursNow
    /\ \A w \in words \cup vectors : Exists(w[1]) /\ w[3] \in Texts \cup {None}
    /\ \A t \in Terms : synonym[t] \in ColoursNow \cup {None}
    /\ family[Sentinel] = Unassigned /\ \A b, c \in ColoursNow : family[b] = family[c] => b = c

\* The list of images an edit put in the row.
WroteList(e) == /\ edit[e].pc = "ok"
                /\ \/ edit[e].op \in {"remove", "primary"}
                   \/ edit[e].op = "upload" /\ edit[e].arg
                   \/ edit[e].op = "update" /\ edit[e].arg # None
Written(e) == CASE edit[e].op = "remove" -> ToSet(edit[e].list) \ {edit[e].key}
                [] edit[e].op = "primary" -> ToSet(edit[e].list)
                [] edit[e].op = "upload" -> ToSet(NewKeys[e])
                [] edit[e].op = "update" -> ToSet(edit[e].arg)

\* Uploads do not clobber each other (appendImageUrls): an uploaded image leaves
\* the row only with the product, or by an edit that wrote a list without it.
UploadKept ==
    \A e \in Edits : edit[e].op = "upload" /\ edit[e].pc = "ok" =>
        \A k \in ToSet(NewKeys[e]) :
            \/ ~Exists(edit[e].p) \/ k \in Listed(edit[e].p)
            \/ \E f \in Edits \ {e} : WroteList(f) /\ edit[f].p = edit[e].p /\ k \notin Written(f)

\* Product p was given k by a create or a PATCH, which may name any key.
Given(p, k) == \E f \in Edits : /\ edit[f].op \in {"create", "update"} /\ edit[f].pc = "ok" /\ edit[f].p = p
                                /\ edit[f].arg # None /\ k \in ToSet(edit[f].arg)

\* k had an object once: a first row lists it, or an upload of it was answered.
HadObject(k) ==
    \/ \E p \in Products : FirstRow[p] # None /\ k \in ToSet(FirstRow[p].images)
    \/ \E e \in Edits : edit[e].op = "upload" /\ edit[e].pc = "ok" /\ k \in ToSet(NewKeys[e])

\* A key in image_urls has an object in storage, but for the five ways the code has to lose
\* one: a create or a PATCH gave a key that never had one; or removeImage deleted it and has
\* not come to the row, or failed before it; or its row did, and another edit wrote the key
\* back from a list it had read before, or a create or a PATCH gave it; or the key was given
\* to another product and removed there.
NoDeadImage ==
    \A p \in Products : \A k \in Listed(p) :
        \/ k \in objects
        \/ Given(p, k) /\ ~HadObject(k)
        \/ \E e \in Edits : edit[e].op = "remove" /\ edit[e].key = k /\
             \/ edit[e].pc \in {"tags", "words", "write", "failed"} \/ Given(p, k)
             \/ edit[e].p # p /\ Given(edit[e].p, k)
             \/ \E f \in Edits \ {e} : edit[f].op \in {"remove", "primary"} /\ edit[f].p = p /\ WroteList(f) /\ k \in Written(f)

\* A tagged image is never left without a colour, whatever colours are deleted
\* and whatever it is tagged with meanwhile: only removeImage or the end of the
\* product takes its last tag (deleteWithReassignment, replaceForImage).
TaggedUntilRemoved ==
    [][\A t \in tags :
         \/ \E u \in tags' : u[1] = t[1] /\ u[2] = t[2]
         \/ row'[t[1]] = None
         \/ \E e \in Edits : edit[e].op = "remove" /\ edit[e].p = t[1] /\ edit[e].key = t[2] /\ edit[e].pc # edit'[e].pc]_tags

\* Visual search is right once everything is over, if nothing overlapped and no
\* PATCH changed the flag or the images: no vector of a draft or of an image that
\* is gone (scheduleEmbeddingSync after each of the other writes).
SettledWhenAlone ==
    alone /\ Quiet /\ (\A e \in Edits : edit[e].op # "update") =>
        \A v \in vectors : Published(v[1]) /\ v[2] \in Listed(v[1])
=============================================================================
