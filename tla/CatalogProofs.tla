---------------------------- MODULE CatalogProofs ----------------------------
(***************************************************************************)
(* What every step of the panel, of its embedding syncs and of its colour  *)
(* deletions keeps.  Form, Refs and Holding are inductive together; the    *)
(* others rest on them.  ShopProofs draws the theorems.                    *)
(***************************************************************************)
EXTENDS Catalog, ListFacts, FiniteSetTheorems, TLAPS

-----------------------------------------------------------------------------
(* Lists of images. *)

Filters(g, list, keep) ==
    g = [i \in 0..Len(list) |-> IF i = 0 THEN <<>>
                              ELSE IF list[i] \in keep THEN Append(g[i-1], list[i]) ELSE g[i-1]]

\* The function behind Filter exists.
LEMMA FiltersExist ==
  ASSUME NEW S, NEW list, NEW N \in Nat, Len(list) = N, \A i \in 1..N : list[i] \in S, NEW keep
  PROVE  \E g : Filters(g, list, keep)
<1> DEFINE Y == Seq(S)
           none == <<>>
           step == [i \in 1..N |-> [t \in Y |-> IF list[i] \in keep THEN Append(t, list[i]) ELSE t]]
<1>1. none \in Y
  OBVIOUS
<1>2. ASSUME NEW i \in 1..N, NEW t \in Y
      PROVE (IF list[i] \in keep THEN Append(t, list[i]) ELSE t) \in Y
  OBVIOUS
<1>3. Steps(step, N, Y)
  BY <1>2 DEF Steps
<1>4. \A i \in 1..N : \A t \in Y : step[i][t] = IF list[i] \in keep THEN Append(t, list[i]) ELSE t
  OBVIOUS
<1> HIDE DEF step, none, Y
<1>5. PICK f : Recurses(f, none, step, N, Y)
  BY <1>1, <1>3, Recursion
<1> USE DEF Recurses
<1>6. \A i \in 1..N : f[i] = IF list[i] \in keep THEN Append(f[i-1], list[i]) ELSE f[i-1]
  <2> TAKE i \in 1..N
  <2>1. f[i-1] \in Y
    BY <1>1, <1>5
  <2> QED BY <2>1, <1>4, <1>5
<1>7. ASSUME NEW i \in 0..N
      PROVE  f[i] = IF i = 0 THEN none ELSE IF list[i] \in keep THEN Append(f[i-1], list[i]) ELSE f[i-1]
  <2>1. i # 0 => i \in 1..N
    BY <1>1
  <2> QED BY <2>1, <1>5, <1>6
<1>8. f = [i \in 0..N |-> f[i]]
  BY <1>5
<1>9. Filters(f, list, keep)
  BY <1>1, <1>7, <1>8 DEF Filters, none
<1> QED BY <1>9

\* Filter keeps just the elements that are in the set.
LEMMA FilterKeeps ==
  ASSUME NEW S, NEW list \in Seq(S), NEW keep
  PROVE  Filter(list, keep) \in Seq(S) /\ ToSet(Filter(list, keep)) = ToSet(list) \cap keep
<1> DEFINE N == Len(list)
           g == CHOOSE h : Filters(h, list, keep)
           Upto(i) == {list[j] : j \in 1..i}
           T == {i \in Nat : i <= N => g[i] \in Seq(S) /\ ToSet(g[i]) = Upto(i) \cap keep}
<1>1. Filters(g, list, keep)
  <2>1. N \in Nat /\ Len(list) = N /\ \A i \in 1..N : list[i] \in S
    OBVIOUS
  <2>2. \E h : Filters(h, list, keep)
    <3> HIDE DEF N
    <3> QED BY <2>1, FiltersExist
  <2> QED BY <2>2
<1>2. Filter(list, keep) = g[N]
  BY DEF Filter, Filters
<1>3. N \in Nat /\ Len(list) = N /\ \A i \in 1..N : list[i] \in S
  OBVIOUS
<1>4. ToSet(list) = Upto(N)
  BY DEF ToSet
<1> HIDE DEF g, N
<1>5. /\ g[0] = <<>>
      /\ \A i \in 0..N : i # 0 => g[i] = IF list[i] \in keep THEN Append(g[i-1], list[i]) ELSE g[i-1]
  <2>1. \A i \in 0..N : g[i] = IF i = 0 THEN <<>>
                              ELSE IF list[i] \in keep THEN Append(g[i-1], list[i]) ELSE g[i-1]
    BY <1>1, <1>3 DEF Filters
  <2>2. 0 \in 0..N
    BY <1>3
  <2> QED BY <2>1, <2>2
<1>6. 0 \in T
  <2>1. <<>> \in Seq(S) /\ ToSet(<<>>) = {} /\ Upto(0) = {}
    BY DEF ToSet
  <2> QED BY <2>1, <1>5
<1>7. ASSUME NEW i \in Nat, i \in T PROVE i + 1 \in T
  <2> SUFFICES ASSUME i + 1 <= N
               PROVE  g[i+1] \in Seq(S) /\ ToSet(g[i+1]) = Upto(i+1) \cap keep
    OBVIOUS
  <2>1. g[i] \in Seq(S) /\ ToSet(g[i]) = Upto(i) \cap keep
    BY <1>3, <1>7
  <2>2. i + 1 \in 0..N /\ i + 1 # 0 /\ (i + 1) - 1 = i /\ i + 1 \in 1..N
    BY <1>3
  <2>3. g[i+1] = IF list[i+1] \in keep THEN Append(g[i], list[i+1]) ELSE g[i]
    BY <2>2, <1>5
  <2>4. Upto(i+1) = Upto(i) \cup {list[i+1]}
    <3>1. 1..(i+1) = 1..i \cup {i+1}
      OBVIOUS
    <3> QED BY <3>1
  <2>5. CASE list[i+1] \in keep
    <3>1. Append(g[i], list[i+1]) \in Seq(S) /\ ToSet(Append(g[i], list[i+1])) = ToSet(g[i]) \cup {list[i+1]}
      BY <1>3, <2>1, <2>2, ToSetOfAppend
    <3> HIDE DEF Upto
    <3> QED BY <3>1, <2>1, <2>3, <2>4, <2>5
  <2>6. CASE list[i+1] \notin keep
    <3> HIDE DEF Upto
    <3> QED BY <2>1, <2>3, <2>4, <2>6
  <2> QED BY <2>5, <2>6
<1> HIDE DEF T
<1>8. N \in T
  BY <1>3, <1>6, <1>7, Induction
<1> QED BY <1>2, <1>3, <1>4, <1>8 DEF T

\* removeImage's new list: the old one without the key.
LEMMA WithoutKeeps ==
  ASSUME NEW S, NEW list \in Seq(S), NEW k
  PROVE  Without(list, k) \in Seq(S) /\ ToSet(Without(list, k)) = ToSet(list) \ {k}
BY FilterKeeps DEF Without

\* setPrimaryImage's new list has the images of the old one.
LEMMA ToFrontKeeps ==
  ASSUME NEW S, NEW list \in Seq(S), NEW k \in ToSet(list)
  PROVE  ToFront(list, k) \in Seq(S) /\ ToSet(ToFront(list, k)) = ToSet(list)
<1>1. k \in S
  BY ToSetOfSeq
<1> DEFINE one == <<k>>
<1>2. one \in Seq(S) /\ ToSet(one) = {k}
  BY <1>1 DEF ToSet
<1>3. Without(list, k) \in Seq(S) /\ ToSet(Without(list, k)) = ToSet(list) \ {k}
  BY WithoutKeeps
<1>4. ToFront(list, k) = one \o Without(list, k)
  BY DEF ToFront
<1> HIDE DEF one
<1>5. one \o Without(list, k) \in Seq(S)
  BY <1>2, <1>3
<1>6. ToSet(one \o Without(list, k)) = ToSet(one) \cup ToSet(Without(list, k))
  BY <1>2, <1>3, ToSetOfConcat
<1> QED BY <1>2, <1>3, <1>4, <1>5, <1>6

-----------------------------------------------------------------------------
(* The invariants. *)

ImageOps == {"remove", "primary", "colours", "words"}
\* The lists a create may name, and those a PATCH may hold.
Created == Lists \cup {<<>>}
Patched == Lists \cup {None}

\* A request: what it read and was given, and which step belongs to which kind.
EditOK(r) ==
    /\ DOMAIN r = DOMAIN NoEdit /\ r.list \in Seq(Keys)
    /\ r.p \in Products \cup {None} /\ (r.p = None => r.list = <<>>)
    /\ r.op \in {"upload", "toggle", "link"} \cup ImageOps => r.p \in Products
    /\ r.op \in {"upload", "toggle"} => r.arg \in BOOLEAN
    /\ r.op \in ImageOps => r.key \in ToSet(r.list)
    /\ r.op = "colours" => r.arg \in ColourSets
    /\ r.op = "words" => r.arg \in Texts \X BOOLEAN
    /\ r.op = "link" => r.key \in Ads
    /\ r.op = "create" => r.arg \in Created
    /\ r.op = "update" => r.arg \in Patched
    /\ r.pc \in {"save", "record", "undo"} => r.op = "upload"
    /\ r.pc \in {"object", "tags", "words", "write"} => r.op = "remove"
    /\ r.pc = "reorder" => r.op = "primary"
    /\ r.pc \in {"known", "retag"} => r.op = "colours"
    /\ r.pc = "describe" => r.op = "words"
    /\ r.pc = "toggle" => r.op = "toggle"
    /\ r.pc \in {"count", "drop"} => r.op = "dropcategory"
    /\ r.pc = "link" => r.op = "link"

SyncOK(r) ==
    /\ DOMAIN r = DOMAIN NoSync /\ r.list \in Seq(Keys) /\ r.left \in Seq(Keys)
    /\ ToSet(r.left) \subseteq ToSet(r.list)
    /\ r.texts \subseteq Products \X Keys \X Texts
    /\ r.pc # "none" => r.p \in Products
    /\ r.pc = "upsert" => r.left # <<>>

RowForm ==
    /\ DOMAIN row = Products /\ \A p \in Products : row[p] \in Rows \cup {None}
    /\ cats \subseteq Categories
EditForm ==
    /\ DOMAIN edit = Edits /\ \A e \in Edits : EditOK(edit[e])
    /\ asked \in [edits : Nat, drops : Nat, scripts : Nat, reads : Nat, changes : Nat]
    /\ \A e \in Edits : e > asked.edits => edit[e] = NoEdit
    /\ \A d \in Drops : d > asked.drops => drop[d] = NoDrop
SyncForm == DOMAIN sync = Jobs /\ \A j \in Jobs : SyncOK(sync[j])
TableForm ==
    /\ tags \subseteq Products \X Keys \X Colours
    /\ words \subseteq Products \X Keys \X Texts
    /\ vectors \subseteq Products \X Keys \X (Texts \cup {None})
    /\ links \subseteq Ads \X Products \X BOOLEAN
ColourForm ==
    /\ family \in [Colours -> Families \cup {Unassigned, None}]
    /\ synonym \in [Terms -> Colours \cup {None}]
Form == RowForm /\ EditForm /\ SyncForm /\ TableForm /\ ColourForm

Refs ==
    /\ \A p \in Products : Exists(p) => Placed(row[p].category)
    /\ \A l \in links : Exists(l[2]) /\ \A m \in links : l[1] = m[1] /\ l[2] = m[2] => l = m
    /\ \A t \in tags : Exists(t[1]) /\ t[3] \in ColoursNow
    /\ \A w \in words \cup vectors : Exists(w[1])
    /\ \A t \in Terms : synonym[t] \in ColoursNow \cup {None}
    /\ family[Sentinel] = Unassigned
    /\ \A b, c \in ColoursNow : family[b] = family[c] => b = c

Held(d) == drop[d].gone \cup drop[d].moved
HeldOK(d) ==
    /\ DOMAIN drop[d] = DOMAIN NoDrop
    /\ drop[d].pc \in {"dedupe", "move", "drop"} => drop[d].colour \in Colours \ {Sentinel}
    /\ drop[d].pc \notin {"move", "drop"} => Held(d) = {}
    /\ \A t \in Held(d) : t \in tags /\ t[3] = drop[d].colour
    /\ \A t \in drop[d].gone : AsSentinel(t) \in tags
    /\ \A f \in Drops \ {d} : Held(d) \cap Held(f) = {}
Holding == DOMAIN drop = Drops /\ \A d \in Drops : HeldOK(d)

Owns(p, k) ==
    \/ FirstRow[p] # None /\ k \in ToSet(FirstRow[p].images)
    \/ \E e \in Edits : edit[e].op = "upload" /\ edit[e].pc = "ok" /\ edit[e].p = p /\ k \in ToSet(NewKeys[e])
    \/ Given(p, k)
ReadKeys(e) == ToSet(edit[e].list)
Owned ==
    /\ \A p \in Products : \A k \in Listed(p) : Owns(p, k)
    /\ \A e \in Edits : \A k \in ReadKeys(e) : Owns(edit[e].p, k)
    /\ \A e \in Edits : edit[e].op \in {"create", "update"} /\ edit[e].arg # None => Nameable(edit[e].arg)
Removed(k) == \E e \in Edits : edit[e].op = "remove" /\ edit[e].key = k
Stored ==
    /\ \A e \in Edits : edit[e].pc = "record" => ToSet(NewKeys[e]) \subseteq objects
    /\ \A k : HadObject(k) => k \in objects \/ Removed(k)

InFlight(e) == edit[e].pc \notin EditDone
Busied(j) == sync[j].pc \notin {"none", "done"}
ImagesNow(p) == IF Exists(p) THEN row[p].images ELSE <<>>
Right(v) == Published(v[1]) /\ v[2] \in Listed(v[1])
OneAtATime ==
    /\ \A e, f \in Edits : InFlight(e) /\ InFlight(f) => e = f
    /\ \A i, j \in Jobs : Busied(i) /\ Busied(j) => i = j
    /\ \A e \in Edits, j \in Jobs : ~(InFlight(e) /\ Busied(j))
Fresh ==
    /\ \A e \in Edits, p \in Products : InFlight(e) /\ edit[e].op \in ImageOps /\ edit[e].p = p =>
         edit[e].list = ImagesNow(p) /\ (edit[e].op = "words" => edit[e].arg[2] = Published(p))
    /\ \A j \in Jobs, p \in Products : Busied(j) /\ sync[j].p = p =>
         /\ Exists(p) /\ sync[j].list = row[p].images
         /\ Published(p) <=> sync[j].pc # "clear"
         /\ j = Script => sync[j].pc # "clear"
InSync ==
    (\A e \in Edits : edit[e].op # "update") =>
        \A v \in vectors : Right(v) \/ \E j \in Edits : Busied(j) /\ sync[j].p = v[1]
Lonely == alone => OneAtATime /\ Fresh /\ InSync

Inv == Form /\ Refs /\ Holding

-----------------------------------------------------------------------------
(* Which steps write what. *)

Recording(e) == RecordImages(e) \/ WriteRemaining(e) \/ Toggle(e)
Creating(e) == \E p \in Products, b \in BOOLEAN, list \in Created, c \in Categories \cup {None} : Create(e, p, b, list, c)
Publishing(e) == \E p \in Products, b \in BOOLEAN : SetPublished(e, p, b)
Updating(e) == \E p \in Products, flag \in {None, "published", "draft"}, list \in Patched, c \in Categories \cup {None} :
                   Update(e, p, flag, list, c)
Deleting(e) == \E p \in Products : Delete(e, p)
Switching(e) == \E l \in links : SwitchLink(e, l) \/ DropLink(e, l)

RowWriter(e) ==
    \/ Recording(e) \/ WriteReordered(e) \/ Creating(e) \/ Publishing(e) \/ Updating(e) \/ Deleting(e)
SyncWriter(e) == Recording(e) \/ WriteWords(e) \/ Creating(e) \/ Publishing(e)
TagWriter(e) == DeleteTags(e) \/ ReplaceTags(e) \/ Deleting(e)

\* What a request's step leaves alone.
RequestFrame(e) ==
    /\ UNCHANGED warm
    /\ UNCHANGED row \/ RowWriter(e)
    /\ UNCHANGED sync \/ SyncWriter(e)
    /\ UNCHANGED tags \/ TagWriter(e)
    /\ UNCHANGED objects \/ SaveImages(e) \/ UndoUpload(e) \/ DeleteObject(e)
    /\ UNCHANGED words \/ DeleteWords(e) \/ WriteWords(e) \/ Deleting(e)
    /\ UNCHANGED vectors \/ Deleting(e)
    /\ UNCHANGED links \/ WriteLink(e) \/ Switching(e) \/ Deleting(e)
    /\ UNCHANGED cats \/ (\E c \in Categories : AddCategory(e, c)) \/ DropCategory(e)
    /\ UNCHANGED colourVars

Request(e) == Image(e) \/ Product(e) \/ Category(e) \/ AdLink(e) \/ Proceed(e)

\* A request writes a table only in the steps that are for it.
LEMMA RequestFrames ==
  ASSUME NEW e, Request(e)
  PROVE  RequestFrame(e)
<1> USE DEF RequestFrame, pictures, embeddings, shelf, colourVars
<1>1. CASE Image(e)
  BY <1>1 DEF Image, AskRemove, AskPrimary, AskColours, AskWords, ReadImage
<1>2. CASE Product(e)
  <2>1. ASSUME NEW p \in Products, NEW b \in BOOLEAN, CheckUpload(e, p, b) PROVE RequestFrame(e)
    BY <2>1 DEF CheckUpload
  <2>2. ASSUME NEW p \in Products, NEW b \in BOOLEAN, SetPublished(e, p, b) PROVE RequestFrame(e)
    BY <2>2 DEF SetPublished, SetFlag, RowWriter, SyncWriter, Publishing
  <2>3. ASSUME NEW p \in Products, NEW b \in BOOLEAN, NEW list \in Created, NEW c \in Categories \cup {None},
               Create(e, p, b, list, c)
        PROVE  RequestFrame(e)
    BY <2>3 DEF Create, RowWriter, SyncWriter, Creating
  <2>4. ASSUME NEW p \in Products, AskToggle(e, p) PROVE RequestFrame(e)
    BY <2>4 DEF AskToggle
  <2>5. ASSUME NEW p \in Products, Delete(e, p) PROVE RequestFrame(e)
    BY <2>5 DEF Delete, RowWriter, TagWriter, Deleting
  <2>6. ASSUME NEW p \in Products, NEW flag \in {None, "published", "draft"}, NEW list \in Patched,
               NEW c \in Categories \cup {None}, Update(e, p, flag, list, c)
        PROVE  RequestFrame(e)
    BY <2>6 DEF Update, RowWriter, Updating
  <2> QED BY <1>2, <2>1, <2>2, <2>3, <2>4, <2>5, <2>6 DEF Product, Created, Patched
<1>3. CASE Category(e)
  BY <1>3 DEF Category, AddCategory, AskDropCategory
<1>4. CASE AdLink(e)
  BY <1>4 DEF AdLink, AskLink, SwitchLink, DropLink, Switching
<1>5. CASE Proceed(e)
  <2>1. CASE SaveImages(e) \/ UndoUpload(e) \/ DeleteObject(e)
    BY <2>1 DEF SaveImages, UndoUpload, DeleteObject
  <2>2. CASE RecordImages(e) \/ WriteRemaining(e) \/ Toggle(e) \/ WriteReordered(e)
    BY <2>2 DEF RecordImages, WriteRemaining, Toggle, SetFlag, WriteReordered, RowWriter, SyncWriter, Recording
  <2>3. CASE DeleteTags(e) \/ ReplaceTags(e)
    BY <2>3 DEF DeleteTags, ReplaceTags, TagWriter
  <2>4. CASE DeleteWords(e) \/ WriteWords(e)
    BY <2>4 DEF DeleteWords, WriteWords, SyncWriter
  <2>5. CASE CheckColours(e) \/ CountUses(e) \/ DropCategory(e) \/ WriteLink(e) \/ FailQuery(e)
    BY <2>5 DEF CheckColours, CountUses, DropCategory, WriteLink, FailQuery
  <2> QED BY <1>5, <2>1, <2>2, <2>3, <2>4, <2>5 DEF Proceed
<1> QED BY <1>1, <1>2, <1>3, <1>4, <1>5 DEF Request

\* A step of the catalog is a request's, a sync's, the script's, a colour deletion's, or a
\* change of a colour or a term.
Embedding ==
    \/ \E j \in Jobs : Sync(j)
    \/ (\E p \in Products : Backfill(p)) \/ SkipEmbedded

\* A sync writes vectors and the cache alone.
LEMMA EmbeddingFrame ==
  ASSUME Embedding
  PROVE  /\ UNCHANGED <<shelf, pictures, tags, colourVars, edit>>
         /\ UNCHANGED asked \/ \E p \in Products : Backfill(p)
BY DEF Embedding, Sync, ClearVectors, ReadWords, Embed, Upsert, Finish, Backfill, SkipEmbedded

\* A colour deletion writes nothing before its commit.
LEMMA ColourFrame ==
  ASSUME NEW d, Colour(d)
  PROVE  /\ UNCHANGED <<shelf, pictures, embeddings, edit, sync, alone>>
         /\ UNCHANGED <<tags, family, synonym>> \/ DropColour(d)
BY DEF Colour, AskDrop, Dedupe, Move, DropColour

\* Panel changes of colours write colours; of terms, terms.
LEMMA PaletteFrame ==
  ASSUME Palette \/ Dialect
  PROVE  /\ UNCHANGED <<shelf, pictures, tags, embeddings, edit, sync, alone, drop>> /\ Count("changes")
         /\ UNCHANGED family \/ Palette
         /\ UNCHANGED synonym \/ Dialect
BY DEF Palette, Dialect, AddColour, SetFamily, WriteFamily, SetSynonym

\* Every step is of one of these kinds.
LEMMA StepKinds ==
  ASSUME CatalogNext
  PROVE  \/ \E e \in Edits : Request(e)
         \/ Embedding \/ (\E d \in Drops : Colour(d)) \/ Palette \/ Dialect
BY DEF CatalogNext, Request, Embedding

-----------------------------------------------------------------------------
(* Requests: a number is used once, and what a request read and was given      *)
(* stays as it is.                                                             *)

Started(e) ==
    /\ edit[e] = NoEdit /\ e = asked.edits + 1 /\ Count("edits")
    /\ \E r : /\ EditOK(r) /\ edit' = [edit EXCEPT ![e] = r] /\ alone' = (alone /\ Quiet)
              /\ r.pc # "record" /\ (r.pc = "ok" => r.op # "upload")
              /\ r.list = (IF r.p = None THEN <<>> ELSE ImagesNow(r.p))
              /\ r.op = "words" => r.arg[2] = Published(r.p)
Continued(e) ==
    /\ edit[e].pc \notin EditDone /\ UNCHANGED <<alone, asked>>
    /\ \E to : /\ to # "new" /\ (to = "record" => SaveImages(e))
               /\ edit' = [edit EXCEPT ![e].pc = to] /\ EditOK([edit[e] EXCEPT !.pc = to])

\* A request that begins is Started.
LEMMA BeginStarts ==
  ASSUME Form, NEW e \in Edits, NEW op, NEW p \in Products \cup {None}, NEW k, NEW arg, NEW pc, Begin(e, op, p, k, arg, pc),
         pc # "record" /\ (pc = "ok" => op # "upload"), op = "words" => arg[2] = Published(p),
         \A list \in Seq(Keys) : list = (IF p = None THEN <<>> ELSE ImagesNow(p)) =>
            EditOK([pc |-> pc, op |-> op, p |-> p, key |-> k, arg |-> arg, list |-> list])
  PROVE  Started(e)
<1> DEFINE list == IF p # None /\ Exists(p) THEN row[p].images ELSE <<>>
           r == [pc |-> pc, op |-> op, p |-> p, key |-> k, arg |-> arg, list |-> list]
<1>1. list \in Seq(Keys) /\ list = IF p = None THEN <<>> ELSE ImagesNow(p)
  <2>1. CASE p # None /\ Exists(p)
    <3>1. row[p] \in Rows
      BY <2>1 DEF Form, RowForm, Exists
    <3> QED BY <3>1, <2>1 DEF Rows, ImagesNow
  <2>2. CASE ~(p # None /\ Exists(p))
    <3>1. list = <<>> /\ <<>> \in Seq(Keys)
      BY <2>2
    <3> QED BY <3>1, <2>2 DEF ImagesNow
  <2> QED BY <2>1, <2>2
<1>2. edit' = [edit EXCEPT ![e] = r] /\ e = asked.edits + 1 /\ Count("edits") /\ alone' = (alone /\ Quiet)
  BY DEF Begin
<1> HIDE DEF list
<1>3. EditOK(r)
  BY <1>1
<1>4. edit[e] = NoEdit
  <2>1. asked.edits \in Nat
    BY DEF Form, EditForm
  <2> QED BY <1>2, <2>1 DEF Form, EditForm
<1>5. r.p = p /\ r.pc = pc /\ r.op = op /\ r.arg = arg /\ r.list = IF p = None THEN <<>> ELSE ImagesNow(p)
  BY CatalogAssumption DEF list, ImagesNow
<1> HIDE DEF r
<1> QED BY <1>2, <1>3, <1>4, <1>5 DEF Started

ImageStart(op, arg, pc) ==
    \/ op = "remove" /\ pc = "object"
    \/ op = "primary" /\ pc = "reorder"
    \/ op = "colours" /\ pc = "known" /\ arg \in ColourSets
    \/ op = "words" /\ pc = "describe" /\ arg \in Texts \X BOOLEAN
\* So is one on an image.
LEMMA ImageStarts ==
  ASSUME Form, NEW e \in Edits, NEW p \in Products, NEW k \in Listed(p), NEW op \in ImageOps, NEW arg, NEW pc,
         ReadImage(e, op, p, k, arg, pc),
         ImageStart(op, arg, pc), op = "words" => arg[2] = Published(p)
  PROVE  Started(e)
<1>1. Begin(e, op, p, k, arg, pc)
  BY DEF ReadImage
<1>2. ASSUME NEW list \in Seq(Keys), list = IF p = None THEN <<>> ELSE ImagesNow(p)
      PROVE  EditOK([pc |-> pc, op |-> op, p |-> p, key |-> k, arg |-> arg, list |-> list])
  <2>1. k \in ToSet(list)
    BY <1>2, CatalogAssumption DEF ImagesNow, Listed, Exists, Form, RowForm
  <2> QED BY <2>1, <1>2, CatalogAssumption, IdsDiffer DEF EditOK, ImageOps, NoEdit, ImageStart
<1>3. pc # "record" /\ pc # "ok"
  BY DEF ImageStart
<1> QED BY <1>1, <1>2, <1>3, BeginStarts

\* So is every other.
LEMMA RequestStarts ==
  ASSUME Form, NEW e \in Edits, Image(e) \/ Product(e) \/ Category(e) \/ AdLink(e)
  PROVE  Started(e)
<1> USE CatalogAssumption, IdsDiffer DEF EditOK, ImageOps, NoEdit
<1>1. ASSUME NEW p \in Products, NEW k \in Listed(p),
             \/ AskRemove(e, p, k) \/ AskPrimary(e, p, k)
             \/ \E cs \in ColourSets : AskColours(e, p, k, cs)
             \/ \E text \in Texts : AskWords(e, p, k, text)
      PROVE  Started(e)
  <2> USE DEF ImageStart
  <2>1. CASE AskRemove(e, p, k)
    BY <2>1, ImageStarts DEF AskRemove
  <2>2. CASE AskPrimary(e, p, k)
    BY <2>2, ImageStarts DEF AskPrimary
  <2>3. ASSUME NEW cs \in ColourSets, AskColours(e, p, k, cs) PROVE Started(e)
    BY <2>3, ImageStarts DEF AskColours
  <2>4. ASSUME NEW text \in Texts, AskWords(e, p, k, text) PROVE Started(e)
    <3>1. <<text, Published(p)>> \in Texts \X BOOLEAN
      <4>1. Published(p) \in BOOLEAN
        BY DEF Published, Exists, Form, RowForm, Rows
      <4> QED BY <4>1
    <3>2. <<text, Published(p)>>[2] = Published(p)
      OBVIOUS
    <3> DEFINE arg == <<text, Published(p)>>
    <3>3. ReadImage(e, "words", p, k, arg, "describe")
      BY <2>4 DEF AskWords
    <3> HIDE DEF arg
    <3> QED BY <3>1, <3>2, <3>3, ImageStarts DEF arg
  <2> QED BY <1>1, <2>1, <2>2, <2>3, <2>4
<1>2. ASSUME NEW p \in Products, NEW b \in BOOLEAN,
             CheckUpload(e, p, b) \/ SetPublished(e, p, b)
             \/ \E list \in Created, c \in Categories \cup {None} : Create(e, p, b, list, c)
      PROVE  Started(e)
  <2>1. CASE CheckUpload(e, p, b)
    BY <2>1, BeginStarts DEF CheckUpload
  <2>2. CASE SetPublished(e, p, b)
    BY <2>2, BeginStarts DEF SetPublished
  <2>3. ASSUME NEW list \in Created, NEW c \in Categories \cup {None}, Create(e, p, b, list, c) PROVE Started(e)
    BY <2>3, BeginStarts DEF Create
  <2> QED BY <1>2, <2>1, <2>2, <2>3
<1>3. ASSUME NEW p \in Products, AskToggle(e, p) PROVE Started(e)
  <2>1. PICK b \in BOOLEAN : b = ~Published(p)
    BY Zenon
  <2>2. Begin(e, "toggle", p, None, b, IF Exists(p) THEN "toggle" ELSE "notfound")
    BY <1>3, <2>1 DEF AskToggle
  <2> QED BY <2>2, BeginStarts
<1>4. ASSUME NEW p \in Products, Delete(e, p) PROVE Started(e)
  BY <1>4, BeginStarts DEF Delete
<1>5. ASSUME NEW p \in Products, NEW flag, NEW list \in Patched, NEW c, Update(e, p, flag, list, c) PROVE Started(e)
  BY <1>5, BeginStarts DEF Update
<1>6. ASSUME Category(e) PROVE Started(e)
  <2>1. PICK c \in Categories : AddCategory(e, c) \/ AskDropCategory(e, c)
    BY <1>6 DEF Category
  <2> QED BY <2>1, BeginStarts DEF AddCategory, AskDropCategory
<1>7. ASSUME AdLink(e) PROVE Started(e)
  <2>1. ASSUME NEW p \in Products, NEW ad \in Ads, AskLink(e, ad, p) PROVE Started(e)
    BY <2>1, BeginStarts DEF AskLink
  <2>2. ASSUME NEW l \in links, SwitchLink(e, l) \/ DropLink(e, l) PROVE Started(e)
    <3>1. l[2] \in Products
      BY DEF Form, TableForm
    <3> QED BY <2>2, <3>1, BeginStarts DEF SwitchLink, DropLink
  <2> QED BY <1>7, <2>1, <2>2 DEF AdLink
<1>8. CASE Image(e)
  BY <1>8, <1>1 DEF Image
<1>9. CASE Product(e)
  BY <1>9, <1>2, <1>3, <1>4, <1>5 DEF Product, Created, Patched
<1> QED BY <1>6, <1>7, <1>8, <1>9

\* Which state comes after which, before a request is answered.
Flow == {<<"save", "record">>, <<"record", "undo">>, <<"object", "tags">>, <<"tags", "words">>, <<"words", "write">>,
         <<"known", "retag">>, <<"count", "drop">>}

\* A request that goes on is Continued.
LEMMA GoContinues ==
  ASSUME Form, NEW e \in Edits, NEW from, NEW to, Go(e, from, to),
         <<from, to>> \in Flow \/ to \in EditDone \ {"new"}, from \notin EditDone,
         to = "record" => SaveImages(e)
  PROVE  Continued(e)
<1>1. EditOK(edit[e]) /\ edit[e].pc = from
  BY DEF Form, EditForm, Go
<1>2. EditOK([edit[e] EXCEPT !.pc = to])
  <2> DEFINE r == edit[e]
             q == [r EXCEPT !.pc = to]
  <2>1. /\ DOMAIN q = DOMAIN r /\ q.op = r.op /\ q.p = r.p /\ q.key = r.key /\ q.arg = r.arg /\ q.list = r.list /\ q.pc = to
    BY <1>1 DEF EditOK, NoEdit
  <2> HIDE DEF r, q
  <2>2. EditOK(r) /\ r.pc = from
    BY <1>1 DEF r
  <2>3. EditOK(q)
    BY <2>1, <2>2 DEF EditOK, Flow, EditDone
  <2> QED BY <2>3 DEF q, r
<1>3. to # "new"
  BY DEF Flow
<1> QED BY <1>1, <1>2, <1>3 DEF Continued, Go

\* That is every step after the first.
LEMMA RequestContinues ==
  ASSUME Form, NEW e \in Edits, Proceed(e)
  PROVE  Continued(e)
<1> USE GoContinues DEF Flow, EditDone
<1>1. CASE SaveImages(e) \/ RecordImages(e) \/ UndoUpload(e)
  BY <1>1 DEF SaveImages, RecordImages, UndoUpload
<1>2. CASE DeleteObject(e) \/ DeleteTags(e) \/ DeleteWords(e) \/ WriteRemaining(e)
  BY <1>2 DEF DeleteObject, DeleteTags, DeleteWords, WriteRemaining
<1>3. CASE WriteReordered(e) \/ CheckColours(e) \/ ReplaceTags(e) \/ WriteWords(e)
  BY <1>3 DEF WriteReordered, CheckColours, ReplaceTags, WriteWords
<1>4. CASE Toggle(e) \/ CountUses(e) \/ DropCategory(e) \/ WriteLink(e)
  BY <1>4 DEF Toggle, CountUses, DropCategory, WriteLink
<1>5. CASE FailQuery(e)
  BY <1>5 DEF FailQuery
<1> QED BY <1>1, <1>2, <1>3, <1>4, <1>5 DEF Proceed

\* A request's step starts it or continues it.
LEMMA EditStep ==
  ASSUME Form, NEW e \in Edits, Request(e)
  PROVE  Started(e) \/ Continued(e)
BY RequestStarts, RequestContinues DEF Request

\* What was asked stays; an answer stays.
Frozen ==
    \A f \in Edits :
        /\ edit[f] # NoEdit => /\ edit'[f].op = edit[f].op /\ edit'[f].p = edit[f].p /\ edit'[f].key = edit[f].key
                               /\ edit'[f].arg = edit[f].arg /\ edit'[f].list = edit[f].list
        /\ edit[f].pc \in EditDone \ {"new"} => edit'[f] = edit[f]

\* Either way what was asked stays, and the other requests do not move.
LEMMA EditsFrozen ==
  ASSUME Form, NEW e \in Edits, Started(e) \/ Continued(e)
  PROVE  /\ Frozen
         /\ DOMAIN edit' = Edits /\ \A f \in Edits : EditOK(edit'[f])
         /\ \A f \in Edits \ {e} : edit'[f] = edit[f]
<1>1. DOMAIN edit = Edits /\ \A f \in Edits : EditOK(edit[f])
  BY DEF Form, EditForm
<1>2. CASE Started(e)
  <2>1. PICK r : EditOK(r) /\ edit' = [edit EXCEPT ![e] = r]
    BY <1>2 DEF Started
  <2>2. edit'[e] = r /\ DOMAIN edit' = Edits /\ \A f \in Edits \ {e} : edit'[f] = edit[f]
    BY <1>1, <2>1
  <2>3. edit[e] = NoEdit /\ NoEdit.pc = "new"
    BY <1>2 DEF Started, NoEdit
  <2> QED BY <1>1, <2>1, <2>2, <2>3 DEF Frozen
<1>3. CASE Continued(e)
  <2>1. PICK to : to # "new" /\ edit' = [edit EXCEPT ![e].pc = to] /\ EditOK([edit[e] EXCEPT !.pc = to])
    BY <1>3 DEF Continued
  <2>2. edit'[e] = [edit[e] EXCEPT !.pc = to] /\ DOMAIN edit' = Edits /\ \A f \in Edits \ {e} : edit'[f] = edit[f]
    BY <1>1, <2>1
  <2>3. /\ edit'[e].op = edit[e].op /\ edit'[e].p = edit[e].p /\ edit'[e].key = edit[e].key
        /\ edit'[e].arg = edit[e].arg /\ edit'[e].list = edit[e].list /\ edit'[e].pc = to
    BY <1>1, <2>2 DEF EditOK, NoEdit
  <2>4. edit[e].pc \notin EditDone
    BY <1>3 DEF Continued
  <2> QED BY <1>1, <2>1, <2>2, <2>3, <2>4 DEF Frozen
<1> QED BY <1>2, <1>3

\* Counting only adds to its counter.
LEMMA CountStep ==
  ASSUME EditForm, NEW kind \in {"edits", "drops", "scripts", "reads", "changes"}, Count(kind)
  PROVE  /\ asked' \in [edits : Nat, drops : Nat, scripts : Nat, reads : Nat, changes : Nat]
         /\ asked.edits <= asked'.edits /\ asked.drops <= asked'.drops
         /\ kind = "edits" => asked'.edits = asked.edits + 1
         /\ kind = "drops" => asked'.drops = asked.drops + 1
BY DEF EditForm, Count

\* Requests keep their form.
LEMMA EditFormStep ==
  ASSUME Form, Holding, CatalogNext
  PROVE  EditForm'
<1>a. /\ asked \in [edits : Nat, drops : Nat, scripts : Nat, reads : Nat, changes : Nat]
      /\ DOMAIN edit = Edits /\ \A f \in Edits : EditOK(edit[f])
      /\ (\A f \in Edits : f > asked.edits => edit[f] = NoEdit)
      /\ (\A d \in Drops : d > asked.drops => drop[d] = NoDrop)
      /\ EditForm
  BY DEF Form, EditForm
<1>b. Edits \subseteq Nat /\ Drops \subseteq Nat
  BY DEF Edits, Drops
<1>1. ASSUME NEW e \in Edits, Request(e) PROVE EditForm'
  <2>1. Started(e) \/ Continued(e)
    BY <1>1, EditStep
  <2>2. /\ DOMAIN edit' = Edits /\ \A f \in Edits : EditOK(edit'[f])
        /\ \A f \in Edits \ {e} : edit'[f] = edit[f]
    BY <2>1, EditsFrozen
  <2>3. UNCHANGED drop
    BY <1>1, RequestFrames DEF RequestFrame, colourVars
  <2>4. CASE Started(e)
    <3>1. Count("edits") /\ e = asked.edits + 1
      BY <2>4 DEF Started
    <3>2. asked' \in [edits : Nat, drops : Nat, scripts : Nat, reads : Nat, changes : Nat]
          /\ asked'.edits = asked.edits + 1 /\ asked.drops <= asked'.drops
      BY <1>a, <3>1, CountStep
    <3>3. asked.edits \in Nat /\ asked.drops \in Nat /\ asked'.edits \in Nat /\ asked'.drops \in Nat
      BY <1>a, <3>2
    <3>4. \A f \in Edits : f > asked'.edits => f \in Edits \ {e} /\ f > asked.edits
      BY <1>b, <3>1, <3>2, <3>3
    <3>5. \A d \in Drops : d > asked'.drops => d > asked.drops
      BY <1>b, <3>2, <3>3
    <3>6. \A f \in Edits : f > asked'.edits => edit'[f] = NoEdit
      BY <1>a, <2>2, <3>4
    <3>7. \A d \in Drops : d > asked'.drops => drop'[d] = NoDrop
      BY <1>a, <2>3, <3>5
    <3> QED BY <2>2, <3>2, <3>6, <3>7 DEF EditForm
  <2>5. CASE Continued(e)
    <3>1. UNCHANGED asked /\ edit[e].pc # "new"
      BY <2>5 DEF Continued, EditDone
    <3>2. ~(e > asked.edits)
      BY <1>a, <3>1 DEF NoEdit
    <3> QED BY <1>a, <1>b, <2>2, <2>3, <3>1, <3>2 DEF EditForm
  <2> QED BY <2>1, <2>4, <2>5
<1>2. ASSUME Embedding PROVE EditForm'
  <2>1. UNCHANGED <<edit, drop>>
    BY <1>2, EmbeddingFrame DEF colourVars
  <2>2. UNCHANGED asked \/ Count("scripts")
    BY <1>2, EmbeddingFrame DEF Backfill
  <2>3. CASE UNCHANGED asked
    BY <1>a, <2>1, <2>3 DEF EditForm
  <2>4. CASE Count("scripts")
    <3>1. /\ asked' \in [edits : Nat, drops : Nat, scripts : Nat, reads : Nat, changes : Nat]
          /\ asked.edits <= asked'.edits /\ asked.drops <= asked'.drops
      BY <1>a, <2>4, CountStep
    <3> QED BY <1>a, <1>b, <2>1, <3>1 DEF EditForm
  <2> QED BY <2>2, <2>3, <2>4
<1>3. ASSUME NEW d \in Drops, Colour(d) PROVE EditForm'
  <2>1. UNCHANGED edit
    BY <1>3, ColourFrame
  <2>2. ASSUME NEW c \in Colours, AskDrop(d, c) PROVE EditForm'
    <3>1. Count("drops") /\ d = asked.drops + 1 /\ \A f \in Drops \ {d} : drop'[f] = drop[f]
      BY <2>2 DEF AskDrop, Holding
    <3>2. /\ asked' \in [edits : Nat, drops : Nat, scripts : Nat, reads : Nat, changes : Nat]
          /\ asked.edits <= asked'.edits /\ asked'.drops = asked.drops + 1
      BY <1>a, <3>1, CountStep
    <3> QED BY <1>a, <1>b, <2>1, <3>1, <3>2 DEF EditForm
  <2>3. ASSUME Dedupe(d) \/ Move(d) \/ DropColour(d) PROVE EditForm'
    <3>1. drop[d].pc # "new" /\ UNCHANGED asked /\ \A f \in Drops \ {d} : drop'[f] = drop[f]
      BY <2>3 DEF Dedupe, Move, DropColour, Answered, Holding
    <3>2. ~(d > asked.drops)
      BY <1>a, <3>1 DEF NoDrop
    <3> QED BY <1>a, <2>1, <3>1, <3>2 DEF EditForm
  <2> QED BY <1>3, <2>2, <2>3 DEF Colour
<1>4. ASSUME Palette \/ Dialect PROVE EditForm'
  <2>1. UNCHANGED <<edit, drop>> /\ Count("changes")
    BY <1>4, PaletteFrame
  <2>2. /\ asked' \in [edits : Nat, drops : Nat, scripts : Nat, reads : Nat, changes : Nat]
        /\ asked.edits <= asked'.edits /\ asked.drops <= asked'.drops
    BY <1>a, <2>1, CountStep
  <2> QED BY <1>a, <1>b, <2>1, <2>2 DEF EditForm
<1> QED BY <1>1, <1>2, <1>3, <1>4, StepKinds

-----------------------------------------------------------------------------
(* Rows.                                                                       *)

RowTo(p, r) == DOMAIN row' = Products /\ row'[p] = r /\ \A q \in Products \ {p} : row'[q] = row[q]
Relist(p, list) == [row[p] EXCEPT !.images = list]
Reflag(p, b) == [row[p] EXCEPT !.published = b]

\* A row with other images is a row.
LEMMA RelistKeeps ==
  ASSUME Form, NEW p \in Products, Exists(p), NEW list \in Seq(Keys)
  PROVE  /\ Relist(p, list) \in Rows /\ Relist(p, list).images = list
         /\ Relist(p, list).published = row[p].published /\ Relist(p, list).category = row[p].category
BY DEF Relist, Form, RowForm, Rows, Exists

\* A row with another flag is a row.
LEMMA ReflagKeeps ==
  ASSUME Form, NEW p \in Products, Exists(p), NEW b \in BOOLEAN
  PROVE  /\ Reflag(p, b) \in Rows /\ Reflag(p, b).published = b
         /\ Reflag(p, b).images = row[p].images /\ Reflag(p, b).category = row[p].category
BY DEF Reflag, Form, RowForm, Rows, Exists

\* A row is not the absence of one.
LEMMA NoRowIsNone == None \notin Rows
BY IdsDiffer

\* The images of a row are keys.
LEMMA RowImages ==
  ASSUME Form, NEW p \in Products
  PROVE  /\ Listed(p) \subseteq Keys /\ ImagesNow(p) \in Seq(Keys) /\ Listed(p) = ToSet(ImagesNow(p))
         /\ Exists(p) => row[p] \in Rows /\ row[p].images \in Seq(Keys) /\ row[p].images = ImagesNow(p)
<1>1. Exists(p) => row[p] \in Rows
  BY DEF Form, RowForm, Exists
<1>2. CASE Exists(p)
  <2>1. row[p].images \in Seq(Keys)
    BY <1>1, <1>2 DEF Rows
  <2> QED BY <1>1, <1>2, <2>1, ToSetOfSeq DEF Listed, ImagesNow
<1>3. CASE ~Exists(p)
  <2>1. ToSet(<<>>) = {} /\ <<>> \in Seq(Keys)
    BY DEF ToSet
  <2> QED BY <1>3, <2>1 DEF Listed, ImagesNow
<1> QED BY <1>2, <1>3

\* What a request's step writes in the row of its product.
LEMMA RecordEffect ==
  ASSUME Form, NEW e \in Edits, RecordImages(e), NEW p, p = edit[e].p
  PROVE  /\ p \in Products /\ edit[e].op = "upload" /\ edit[e].pc = "record" /\ edit[e].arg \in BOOLEAN
         /\ edit' = [edit EXCEPT ![e].pc = IF Exists(p) THEN "ok" ELSE "undo"]
         /\ IF Exists(p)
              THEN \E list \in Seq(Keys) :
                     /\ RowTo(p, Relist(p, list)) /\ Schedule(e, p, list, row[p].published)
                     /\ ToSet(list) = IF edit[e].arg THEN ToSet(NewKeys[e]) ELSE Listed(p) \cup ToSet(NewKeys[e])
              ELSE UNCHANGED <<row, sync>>
<1>1. EditOK(edit[e]) /\ edit[e].pc = "record"
  BY DEF Form, EditForm, RecordImages, Go
<1>2. p \in Products /\ edit[e].op = "upload" /\ edit[e].arg \in BOOLEAN
  BY <1>1 DEF EditOK
<1>3. edit' = [edit EXCEPT ![e].pc = IF Exists(p) THEN "ok" ELSE "undo"]
  BY DEF RecordImages, Go
<1>4. CASE Exists(p)
  <2> DEFINE list == IF edit[e].arg THEN NewKeys[e] ELSE row[p].images \o NewKeys[e]
  <2>1. NewKeys[e] \in Seq(Keys) /\ row[p].images \in Seq(Keys) /\ Listed(p) = ToSet(row[p].images)
    BY <1>2, <1>4, IdsDiffer, RowImages
  <2>2. list \in Seq(Keys)
    BY <2>1
  <2>3. ToSet(list) = IF edit[e].arg THEN ToSet(NewKeys[e]) ELSE Listed(p) \cup ToSet(NewKeys[e])
    <3>1. ToSet(row[p].images \o NewKeys[e]) = ToSet(row[p].images) \cup ToSet(NewKeys[e])
      BY <2>1, ToSetOfConcat
    <3> QED BY <2>1, <3>1
  <2>4. RowTo(p, Relist(p, list)) /\ ScheduleRow(e, p)
    BY <1>2, <1>4 DEF RecordImages, Appended, RowTo, Relist, Form, RowForm
  <2>5. row'[p] = Relist(p, list)
    BY <1>2, <2>4 DEF RowTo
  <2> HIDE DEF list
  <2>6. row'[p].images = list /\ row'[p].published = row[p].published
    BY <1>2, <1>4, <2>2, <2>5, RelistKeeps
  <2> QED BY <1>1, <1>2, <1>3, <1>4, <2>2, <2>3, <2>4, <2>6 DEF ScheduleRow
<1>5. CASE ~Exists(p)
  BY <1>1, <1>2, <1>3, <1>5 DEF RecordImages
<1> QED BY <1>4, <1>5

\* removeImage's last step: the list it read, without the key, or nothing.
LEMMA RemainingEffect ==
  ASSUME Form, NEW e \in Edits, WriteRemaining(e), NEW p, p = edit[e].p
  PROVE  /\ p \in Products /\ edit[e].op = "remove" /\ edit[e].pc = "write" /\ edit[e].key \in ToSet(edit[e].list)
         /\ edit' = [edit EXCEPT ![e].pc = IF Exists(p) THEN "ok" ELSE "notfound"]
         /\ IF Exists(p)
              THEN \E list \in Seq(Keys) :
                     /\ RowTo(p, Relist(p, list)) /\ Schedule(e, p, list, row[p].published)
                     /\ ToSet(list) = ToSet(edit[e].list) \ {edit[e].key}
              ELSE UNCHANGED <<row, sync>>
<1>1. EditOK(edit[e]) /\ edit[e].pc = "write"
  BY DEF Form, EditForm, WriteRemaining, Go
<1>2. p \in Products /\ edit[e].op = "remove" /\ edit[e].list \in Seq(Keys) /\ edit[e].key \in ToSet(edit[e].list)
  BY <1>1 DEF EditOK, ImageOps
<1>3. edit' = [edit EXCEPT ![e].pc = IF Exists(p) THEN "ok" ELSE "notfound"]
  BY DEF WriteRemaining, Go
<1>4. CASE Exists(p)
  <2> DEFINE list == Without(edit[e].list, edit[e].key)
  <2>1. list \in Seq(Keys) /\ ToSet(list) = ToSet(edit[e].list) \ {edit[e].key}
    BY <1>2, WithoutKeeps
  <2>2. RowTo(p, Relist(p, list)) /\ ScheduleRow(e, p)
    BY <1>2, <1>4 DEF WriteRemaining, RowTo, Relist, Form, RowForm
  <2>3. row'[p] = Relist(p, list)
    BY <1>2, <2>2 DEF RowTo
  <2> HIDE DEF list
  <2>4. row'[p].images = list /\ row'[p].published = row[p].published
    BY <1>2, <1>4, <2>1, <2>3, RelistKeeps
  <2> QED BY <1>1, <1>2, <1>3, <1>4, <2>1, <2>2, <2>4 DEF ScheduleRow
<1>5. CASE ~Exists(p)
  BY <1>1, <1>2, <1>3, <1>5 DEF WriteRemaining
<1> QED BY <1>4, <1>5

\* setPrimaryImage's write: the list it read, in another order, or nothing.
LEMMA ReorderEffect ==
  ASSUME Form, NEW e \in Edits, WriteReordered(e), NEW p, p = edit[e].p
  PROVE  /\ p \in Products /\ edit[e].op = "primary" /\ edit[e].pc = "reorder"
         /\ edit' = [edit EXCEPT ![e].pc = IF Exists(p) THEN "ok" ELSE "notfound"]
         /\ IF Exists(p)
              THEN \E list \in Seq(Keys) : RowTo(p, Relist(p, list)) /\ ToSet(list) = ToSet(edit[e].list)
              ELSE UNCHANGED row
<1>1. EditOK(edit[e]) /\ edit[e].pc = "reorder"
  BY DEF Form, EditForm, WriteReordered, Go
<1>2. p \in Products /\ edit[e].op = "primary" /\ edit[e].list \in Seq(Keys) /\ edit[e].key \in ToSet(edit[e].list)
  BY <1>1 DEF EditOK, ImageOps
<1>3. edit' = [edit EXCEPT ![e].pc = IF Exists(p) THEN "ok" ELSE "notfound"]
  BY DEF WriteReordered, Go
<1> DEFINE list == ToFront(edit[e].list, edit[e].key)
<1>4. list \in Seq(Keys) /\ ToSet(list) = ToSet(edit[e].list)
  BY <1>2, ToFrontKeeps
<1>5. IF Exists(p) THEN RowTo(p, Relist(p, list)) ELSE UNCHANGED row
  BY <1>2 DEF WriteReordered, RowTo, Relist, Form, RowForm
<1> HIDE DEF list
<1> QED BY <1>1, <1>2, <1>3, <1>4, <1>5

\* setPublished and the end of togglePublish.
LEMMA FlagEffect ==
  ASSUME Form, NEW e \in Edits, NEW p \in Products, NEW b \in BOOLEAN, SetFlag(e, p, b)
  PROVE  IF Exists(p) THEN RowTo(p, Reflag(p, b)) /\ Schedule(e, p, row[p].images, b) ELSE UNCHANGED <<row, sync>>
<1>1. CASE Exists(p)
  <2>1. RowTo(p, Reflag(p, b)) /\ ScheduleRow(e, p)
    BY <1>1 DEF SetFlag, RowTo, Reflag, Form, RowForm
  <2>2. row'[p] = Reflag(p, b)
    BY <2>1 DEF RowTo
  <2> QED BY <1>1, <2>1, <2>2, ReflagKeeps DEF ScheduleRow
<1>2. CASE ~Exists(p)
  BY <1>2 DEF SetFlag
<1> QED BY <1>1, <1>2

\* togglePublish's write: the flag it computed from its read.
LEMMA ToggleEffect ==
  ASSUME Form, NEW e \in Edits, Toggle(e)
  PROVE  /\ edit[e].pc = "toggle" /\ edit[e].op = "toggle" /\ edit[e].p \in Products /\ edit[e].arg \in BOOLEAN
         /\ SetFlag(e, edit[e].p, edit[e].arg)
         /\ edit' = [edit EXCEPT ![e].pc = IF Exists(edit[e].p) THEN "ok" ELSE "notfound"]
<1>1. EditOK(edit[e]) /\ edit[e].pc = "toggle"
  BY DEF Form, EditForm, Toggle, Go
<1> QED BY <1>1 DEF EditOK, Toggle, Go

\* A list of a create or a PATCH is one of keys.
LEMMA ListsAreKeys == Created \subseteq Seq(Keys) /\ None \notin Lists /\ Patched \ {None} \subseteq Seq(Keys)
<1>1. <<>> \in Seq(Keys)
  OBVIOUS
<1> QED BY <1>1, IdsDiffer DEF Created, Patched

\* create: a new row with the images it names, or nothing.
LEMMA CreateEffect ==
  ASSUME Form, NEW e \in Edits, NEW p \in Products, NEW b \in BOOLEAN, NEW list \in Created,
         NEW c \in Categories \cup {None}, Create(e, p, b, list, c)
  PROVE  /\ ~Exists(p)
         /\ \/ UNCHANGED <<row, sync>>
            \/ \E r \in Rows : /\ RowTo(p, r) /\ r.images = list /\ r.published = b /\ r.category = c /\ Placed(c)
                               /\ edit'[e].op = "create" /\ edit'[e].p = p /\ edit'[e].pc = "ok" /\ edit'[e].arg = list
                               /\ list \in Seq(Keys) /\ Schedule(e, p, list, b)
<1> DEFINE r == [images |-> list, published |-> b, category |-> c]
<1>0. list \in Seq(Keys)
  BY ListsAreKeys
<1>1. r \in Rows
  BY <1>0 DEF Rows
<1>2. CASE Placed(c)
  <2>1. RowTo(p, r) /\ ScheduleRow(e, p)
    BY <1>2 DEF Create, RowTo, Form, RowForm
  <2>2. row'[p] = r
    BY <2>1 DEF RowTo
  <2>3. edit'[e].op = "create" /\ edit'[e].p = p /\ edit'[e].pc = "ok" /\ edit'[e].arg = list
    BY <1>2 DEF Create, Begin, Form, EditForm
  <2> QED BY <1>0, <1>1, <1>2, <2>1, <2>2, <2>3 DEF ScheduleRow, Create
<1>3. CASE ~Placed(c)
  BY <1>3 DEF Create
<1> QED BY <1>2, <1>3

\* update: the row with the fields of the patch, or nothing.
LEMMA UpdateEffect ==
  ASSUME Form, NEW e \in Edits, NEW p \in Products, NEW flag \in {None, "published", "draft"}, NEW list \in Patched,
         NEW c \in Categories \cup {None}, Update(e, p, flag, list, c)
  PROVE  \/ UNCHANGED row
         \/ \E r \in Rows : /\ Exists(p) /\ RowTo(p, r) /\ r.category \in {row[p].category, c} /\ Placed(c)
                            /\ edit'[e].op = "update" /\ edit'[e].p = p /\ edit'[e].pc = "ok" /\ edit'[e].arg = list
                            /\ r.images = IF list = None THEN row[p].images ELSE list
<1> DEFINE r == [images |-> IF list = None THEN row[p].images ELSE list,
                 published |-> IF flag = None THEN row[p].published ELSE flag = "published",
                 category |-> IF c = None THEN row[p].category ELSE c]
<1>1. CASE Exists(p) /\ Placed(c)
  <2>1. row[p] \in Rows /\ (list # None => list \in Seq(Keys))
    BY <1>1, RowImages, ListsAreKeys
  <2>2. r \in Rows
    <3>1. (flag = "published") \in BOOLEAN
      OBVIOUS
    <3> QED BY <2>1, <3>1 DEF Rows
  <2>3. DOMAIN row[p] = {"images", "published", "category"}
    BY <2>1 DEF Rows
  <2>4. row'[p] = r /\ DOMAIN row' = DOMAIN row /\ \A q \in Products \ {p} : row'[q] = row[q]
    BY <1>1, <2>1, <2>3 DEF Update, Form, RowForm, Rows
  <2>5. RowTo(p, r)
    BY <2>4 DEF RowTo, Form, RowForm
  <2>6. edit'[e].op = "update" /\ edit'[e].p = p /\ edit'[e].pc = "ok" /\ edit'[e].arg = list
    BY <1>1 DEF Update, Begin, Form, EditForm
  <2> QED BY <1>1, <2>2, <2>5, <2>6
<1>2. CASE ~(Exists(p) /\ Placed(c))
  BY <1>2 DEF Update
<1> QED BY <1>1, <1>2

\* The row a request's step writes, if any: its category is there, and it vanishes
\* only by Delete.
RowWritten(e, p, r) ==
    /\ RowTo(p, r) /\ UNCHANGED cats
    /\ \/ r = None /\ Delete(e, p)
       \/ r # None /\ (Placed(r.category) \/ (Exists(p) /\ r.category = row[p].category))
    /\ ~Exists(p) /\ r # None => \A f \in Edits : edit[f].p # p
RowWrite(e) == UNCHANGED row \/ \E p \in Products, r \in Rows \cup {None} : RowWritten(e, p, r)

\* How a request changes a row, if it does.
LEMMA RowStep ==
  ASSUME Form, NEW e \in Edits, Request(e)
  PROVE  RowWrite(e)
<1> USE NoRowIsNone DEF RowWrite, RowWritten
<1>0. RowWriter(e) => UNCHANGED cats
  <2>1. Recording(e) \/ WriteReordered(e) => UNCHANGED cats
    BY DEF Recording, RecordImages, WriteRemaining, Toggle, SetFlag, WriteReordered, shelf
  <2>2. Creating(e) \/ Publishing(e) => UNCHANGED cats
    BY DEF Creating, Create, Publishing, SetPublished, SetFlag, shelf
  <2>3. ASSUME NEW p, NEW flag, NEW list, NEW c, Update(e, p, flag, list, c) PROVE UNCHANGED cats
    BY <2>3 DEF Update, shelf
  <2>4. Deleting(e) => UNCHANGED cats
    BY DEF Deleting, Delete
  <2> QED BY <2>1, <2>2, <2>3, <2>4 DEF RowWriter, Updating
<1>1. ASSUME Recording(e) \/ WriteReordered(e) PROVE RowWrite(e)
  <2>0. UNCHANGED cats
    BY <1>0, <1>1 DEF RowWriter
  <2>1. CASE RecordImages(e)
    BY <2>0, <2>1, RecordEffect, RelistKeeps
  <2>2. CASE WriteRemaining(e)
    BY <2>0, <2>2, RemainingEffect, RelistKeeps
  <2>3. CASE Toggle(e)
    BY <2>0, <2>3, ToggleEffect, FlagEffect, ReflagKeeps
  <2>4. CASE WriteReordered(e)
    BY <2>0, <2>4, ReorderEffect, RelistKeeps
  <2> QED BY <1>1, <2>1, <2>2, <2>3, <2>4 DEF Recording
<1>2. ASSUME Creating(e) PROVE RowWrite(e)
  <2>1. UNCHANGED cats
    BY <1>0, <1>2 DEF RowWriter
  <2>2. PICK p \in Products, b \in BOOLEAN, list \in Created, c \in Categories \cup {None} : Create(e, p, b, list, c)
    BY <1>2 DEF Creating
  <2>3. \A f \in Edits : edit[f].p # p
    BY <2>2 DEF Create
  <2> QED BY <2>1, <2>2, <2>3, CreateEffect
<1>3. ASSUME Publishing(e) PROVE RowWrite(e)
  BY <1>0, <1>3, FlagEffect, ReflagKeeps DEF Publishing, SetPublished, RowWriter
<1>4. ASSUME Updating(e) PROVE RowWrite(e)
  <2>1. UNCHANGED cats
    BY <1>0, <1>4 DEF RowWriter
  <2>2. PICK p \in Products, flag \in {None, "published", "draft"}, list \in Patched, c \in Categories \cup {None} :
           Update(e, p, flag, list, c)
    BY <1>4 DEF Updating
  <2>3. CASE UNCHANGED row
    BY <2>3
  <2>4. ASSUME NEW r \in Rows, Exists(p), RowTo(p, r), r.category \in {row[p].category, c}, Placed(c) PROVE RowWrite(e)
    BY <2>1, <2>4
  <2> QED BY <2>2, <2>3, <2>4, UpdateEffect
<1>5. ASSUME NEW p \in Products, Delete(e, p) PROVE RowWrite(e)
  <2>1. RowTo(p, None) /\ UNCHANGED cats
    BY <1>5 DEF Delete, RowTo, Form, RowForm
  <2> QED BY <1>5, <2>1
<1> QED BY <1>1, <1>2, <1>3, <1>4, <1>5, RequestFrames DEF RequestFrame, RowWriter, Deleting

\* Rows keep their form.
LEMMA RowFormStep ==
  ASSUME Form, CatalogNext
  PROVE  RowForm'
<1>1. RowForm
  BY DEF Form
<1>2. ASSUME NEW e \in Edits, Request(e) PROVE RowForm'
  <2>1. UNCHANGED cats \/ (\E c \in Categories : AddCategory(e, c)) \/ DropCategory(e)
    BY <1>2, RequestFrames DEF RequestFrame
  <2>2. cats' \subseteq Categories
    BY <1>1, <2>1 DEF AddCategory, DropCategory, RowForm
  <2>3. UNCHANGED row \/ \E p \in Products, r \in Rows \cup {None} : RowTo(p, r)
    BY <1>2, RowStep DEF RowWrite, RowWritten
  <2> QED BY <1>1, <2>2, <2>3 DEF RowForm, RowTo
<1>3. ASSUME Embedding \/ (\E d \in Drops : Colour(d)) \/ Palette \/ Dialect PROVE UNCHANGED <<row, cats>>
  BY <1>3, EmbeddingFrame, ColourFrame, PaletteFrame DEF pictures, shelf
<1> QED BY <1>1, <1>2, <1>3, StepKinds DEF RowForm

-----------------------------------------------------------------------------
(* Syncs.                                                                      *)

\* A scheduled sync has the product and the list it was given.
LEMMA ScheduleKeeps ==
  ASSUME SyncForm, NEW e \in Edits, NEW p \in Products, NEW list \in Seq(Keys), NEW b, Schedule(e, p, list, b)
  PROVE  /\ SyncForm'
         /\ sync'[e].pc = (IF b THEN "words" ELSE "clear") /\ sync'[e].p = p /\ sync'[e].list = list
         /\ \A j \in Jobs \ {e} : sync'[j] = sync[j]
<1> DEFINE r == [NoSync EXCEPT !.pc = IF b THEN "words" ELSE "clear", !.p = p, !.list = list, !.left = list]
<1>1. e \in Jobs /\ DOMAIN sync = Jobs /\ sync' = [sync EXCEPT ![e] = r]
  BY DEF SyncForm, Jobs, Schedule
<1>2. SyncOK(r)
  BY DEF SyncOK, NoSync
<1>3. r.pc = (IF b THEN "words" ELSE "clear") /\ r.p = p /\ r.list = list
  BY DEF NoSync
<1> HIDE DEF r
<1>4. sync'[e] = r /\ DOMAIN sync' = Jobs /\ \A j \in Jobs \ {e} : sync'[j] = sync[j]
  BY <1>1
<1> QED BY <1>2, <1>3, <1>4 DEF SyncForm

\* A sync that moves on keeps the form of syncs.
LEMMA PassKeeps ==
  ASSUME SyncForm, NEW j \in Jobs, NEW r, SyncOK(r), sync' = [sync EXCEPT ![j] = r]
  PROVE  SyncForm'
BY DEF SyncForm

\* Syncs keep their form.
LEMMA SyncFormStep ==
  ASSUME Form, CatalogNext
  PROVE  SyncForm'
<1>0. SyncForm
  BY DEF Form
<1>1. ASSUME NEW e \in Edits, SyncWriter(e) PROVE SyncForm'
  <2>1. CASE RecordImages(e)
    BY <2>1, <1>0, RecordEffect, ScheduleKeeps DEF SyncForm
  <2>2. CASE WriteRemaining(e)
    BY <2>2, <1>0, RemainingEffect, ScheduleKeeps DEF SyncForm
  <2>3. ASSUME NEW p \in Products, NEW b \in BOOLEAN, SetFlag(e, p, b) PROVE SyncForm'
    BY <2>3, <1>0, FlagEffect, RowImages, ScheduleKeeps DEF SyncForm
  <2>4. CASE Toggle(e)
    BY <2>3, <2>4, ToggleEffect
  <2>5. CASE Publishing(e)
    BY <2>3, <2>5 DEF Publishing, SetPublished
  <2>6. CASE Creating(e)
    BY <2>6, <1>0, CreateEffect, ScheduleKeeps DEF Creating, SyncForm
  <2>7. CASE WriteWords(e)
    <3>1. EditOK(edit[e]) /\ edit[e].pc = "describe"
      BY <2>7 DEF Form, EditForm, WriteWords, Go
    <3>2. edit[e].p \in Products /\ edit[e].list \in Seq(Keys)
      BY <3>1 DEF EditOK, ImageOps
    <3> QED BY <3>2, <2>7, <1>0, ScheduleKeeps DEF WriteWords, SyncForm
  <2> QED BY <1>1, <2>1, <2>2, <2>4, <2>5, <2>6, <2>7 DEF SyncWriter, Recording
<1>2. ASSUME NEW j \in Jobs, Sync(j) PROVE SyncForm'
  <2>0. SyncOK(sync[j]) /\ DOMAIN sync = Jobs
    BY <1>0 DEF SyncForm
  <2>1. CASE ClearVectors(j) \/ Finish(j)
    <3>1. SyncOK([sync[j] EXCEPT !.pc = "done"])
      BY <2>0, <2>1 DEF SyncOK, NoSync, ClearVectors, Finish, Pass
    <3> QED BY <3>1, <1>0, <2>1, PassKeeps DEF ClearVectors, Finish, Pass
  <2>2. CASE ReadWords(j)
    <3>1. sync[j].pc = "words" /\ WordsOf(sync[j].p) \subseteq Products \X Keys \X Texts
      BY <2>2 DEF ReadWords, WordsOf, Form, TableForm
    <3>2. SyncOK([sync[j] EXCEPT !.pc = "image", !.texts = WordsOf(sync[j].p)])
      BY <2>0, <3>1 DEF SyncOK, NoSync
    <3> QED BY <3>2, <1>0, <2>2, PassKeeps DEF ReadWords
  <2>3. CASE Embed(j)
    <3>1. PICK ok \in BOOLEAN : /\ sync[j].pc = "image" /\ sync[j].left # <<>>
                                /\ sync' = IF ok THEN [sync EXCEPT ![j].pc = "upsert"] ELSE [sync EXCEPT ![j].left = Tail(@)]
      BY <2>3 DEF Embed
    <3>2. SyncOK([sync[j] EXCEPT !.pc = "upsert"])
      BY <2>0, <3>1 DEF SyncOK, NoSync
    <3>3. SyncOK([sync[j] EXCEPT !.left = Tail(@)])
      <4>1. Tail(sync[j].left) \in Seq(Keys) /\ ToSet(Tail(sync[j].left)) \subseteq ToSet(sync[j].left)
        BY <2>0, <3>1, ToSetOfHeadTail DEF SyncOK
      <4> QED BY <4>1, <2>0, <3>1 DEF SyncOK, NoSync
    <3> QED BY <3>1, <3>2, <3>3, <1>0, PassKeeps
  <2>4. CASE Upsert(j)
    <3>1. sync[j].pc = "upsert" /\ sync' = [sync EXCEPT ![j].pc = "image", ![j].left = Tail(@)]
      BY <2>4 DEF Upsert
    <3>2. Tail(sync[j].left) \in Seq(Keys) /\ ToSet(Tail(sync[j].left)) \subseteq ToSet(sync[j].left)
      BY <2>0, <3>1, ToSetOfHeadTail DEF SyncOK
    <3>3. SyncOK([sync[j] EXCEPT !.pc = "image", !.left = Tail(@)])
      BY <2>0, <3>1, <3>2 DEF SyncOK, NoSync
    <3> QED BY <3>1, <3>3, <1>0, PassKeeps
  <2> QED BY <1>2, <2>1, <2>2, <2>3, <2>4 DEF Sync
<1>3. ASSUME NEW p \in Products, Backfill(p) PROVE SyncForm'
  <2>1. Script \in Jobs /\ row[p].images \in Seq(Keys)
    BY <1>3, RowImages DEF Backfill, Published, Jobs
  <2>2. SyncOK([NoSync EXCEPT !.pc = "already", !.p = p, !.list = row[p].images])
    <3>1. ToSet(<<>>) = {}
      BY DEF ToSet
    <3> QED BY <2>1, <3>1 DEF SyncOK, NoSync
  <2> QED BY <2>1, <2>2, <1>0, <1>3, PassKeeps DEF Backfill
<1>4. ASSUME SkipEmbedded PROVE SyncForm'
  <2>1. Script \in Jobs /\ SyncOK(sync[Script]) /\ sync[Script].pc = "already"
    BY <1>0, <1>4 DEF Jobs, SyncForm, SkipEmbedded
  <2> DEFINE keep == ToSet(sync[Script].list) \ {v[2] : v \in {v \in vectors : v[1] = sync[Script].p}}
             left == Filter(sync[Script].list, keep)
  <2>2. sync' = [sync EXCEPT ![Script] = [sync[Script] EXCEPT !.pc = "words", !.left = left]]
    BY <1>4 DEF SkipEmbedded
  <2> HIDE DEF keep
  <2>3. left \in Seq(Keys) /\ ToSet(left) \subseteq ToSet(sync[Script].list)
    BY <2>1, FilterKeeps DEF SyncOK
  <2> HIDE DEF left
  <2>4. SyncOK([sync[Script] EXCEPT !.pc = "words", !.left = left])
    BY <2>1, <2>3 DEF SyncOK, NoSync
  <2> QED BY <2>1, <2>2, <2>4, <1>0, PassKeeps
<1>5. ASSUME NEW e \in Edits, Request(e) PROVE SyncForm'
  BY <1>0, <1>1, <1>5, RequestFrames DEF RequestFrame, SyncForm
<1>6. ASSUME (\E d \in Drops : Colour(d)) \/ Palette \/ Dialect PROVE SyncForm'
  BY <1>0, <1>6, ColourFrame, PaletteFrame DEF SyncForm
<1> QED BY <1>2, <1>3, <1>4, <1>5, <1>6, StepKinds DEF Embedding

-----------------------------------------------------------------------------
(* Tags, descriptions, vectors, links, colours and terms.                      *)

\* What a tagging or untagging request does to the tags of its image.
LEMMA TaggedEffect ==
  ASSUME Form, NEW e \in Edits, DeleteTags(e) \/ ReplaceTags(e)
  PROVE  /\ edit[e].p \in Products /\ edit[e].key \in Keys /\ ~Locked(edit[e].p, edit[e].key)
         /\ \/ DeleteTags(e) /\ edit[e].op = "remove" /\ tags' = tags \ TagsOf(edit[e].p, edit[e].key)
            \/ UNCHANGED tags
            \/ /\ Exists(edit[e].p) /\ edit[e].arg # {} /\ edit[e].arg \subseteq ColoursNow
               /\ tags' = Retagged(edit[e].p, edit[e].key, edit[e].arg)
<1>1. EditOK(edit[e])
  BY DEF Form, EditForm
<1>2. CASE DeleteTags(e)
  <2>1. edit[e].pc = "tags"
    BY <1>2 DEF DeleteTags, Go
  <2>2. edit[e].op = "remove" /\ edit[e].p \in Products /\ edit[e].key \in Keys
    BY <1>1, <2>1, ToSetOfSeq DEF EditOK, ImageOps
  <2> QED BY <1>2, <2>2 DEF DeleteTags
<1>3. CASE ReplaceTags(e)
  <2>1. edit[e].pc = "retag"
    BY <1>3 DEF ReplaceTags, Go
  <2>2. edit[e].op = "colours" /\ edit[e].p \in Products /\ edit[e].key \in Keys /\ edit[e].arg \in ColourSets
    BY <1>1, <2>1, ToSetOfSeq DEF EditOK, ImageOps
  <2> QED BY <1>3, <2>2, TagsNameColours DEF ReplaceTags
<1> QED BY <1>2, <1>3

\* Tags keep their form.
LEMMA TagFormStep ==
  ASSUME Form, Holding, CatalogNext
  PROVE  tags' \subseteq Products \X Keys \X Colours
<1>1. tags \subseteq Products \X Keys \X Colours
  BY DEF Form, TableForm
<1>2. ASSUME NEW e \in Edits, Request(e) PROVE tags' \subseteq Products \X Keys \X Colours
  <2>1. CASE DeleteTags(e) \/ ReplaceTags(e)
    <3>1. tags' \subseteq tags \/ /\ edit[e].arg \subseteq Colours
                                   /\ tags' = Retagged(edit[e].p, edit[e].key, edit[e].arg)
      BY <2>1, TaggedEffect DEF ColoursNow
    <3>2. edit[e].p \in Products /\ edit[e].key \in Keys
      BY <2>1, TaggedEffect
    <3> QED BY <1>1, <3>1, <3>2 DEF Retagged
  <2>2. CASE Deleting(e)
    BY <1>1, <2>2 DEF Deleting, Delete
  <2> QED BY <1>1, <1>2, <2>1, <2>2, RequestFrames DEF RequestFrame, TagWriter
<1>3. ASSUME NEW d \in Drops, DropColour(d) PROVE tags' \subseteq Products \X Keys \X Colours
  <2>1. drop[d].moved \subseteq tags
    BY DEF Holding, HeldOK, Held
  <2>2. tags' \subseteq tags \cup {AsSentinel(t) : t \in drop[d].moved}
    BY <1>3 DEF DropColour
  <2>3. \A t \in tags : AsSentinel(t) \in Products \X Keys \X Colours
    BY <1>1, CatalogAssumption DEF AsSentinel
  <2> QED BY <1>1, <2>1, <2>2, <2>3
<1>4. ASSUME NEW d \in Drops, Colour(d) PROVE tags' \subseteq Products \X Keys \X Colours
  BY <1>1, <1>3, <1>4, ColourFrame
<1>5. ASSUME Embedding \/ Palette \/ Dialect PROVE UNCHANGED tags
  BY <1>5, EmbeddingFrame, PaletteFrame
<1> QED BY <1>1, <1>2, <1>4, <1>5, StepKinds

\* Descriptions keep their form.
LEMMA WordFormStep ==
  ASSUME Form, CatalogNext
  PROVE  words' \subseteq Products \X Keys \X Texts
<1>1. words \subseteq Products \X Keys \X Texts
  BY DEF Form, TableForm
<1>2. ASSUME NEW e \in Edits, WriteWords(e) PROVE words' \subseteq Products \X Keys \X Texts
  <2>1. EditOK(edit[e]) /\ edit[e].pc = "describe"
    BY <1>2 DEF Form, EditForm, WriteWords, Go
  <2>2. edit[e].p \in Products /\ edit[e].key \in Keys /\ edit[e].arg[1] \in Texts
    BY <2>1, ToSetOfSeq DEF EditOK, ImageOps
  <2>3. words' \subseteq words \cup {<<edit[e].p, edit[e].key, edit[e].arg[1]>>}
    BY <1>2 DEF WriteWords
  <2> QED BY <1>1, <2>2, <2>3
<1>3. ASSUME NEW e \in Edits, Request(e) PROVE words' \subseteq Products \X Keys \X Texts
  BY <1>1, <1>2, <1>3, RequestFrames DEF RequestFrame, DeleteWords, Deleting, Delete
<1>4. ASSUME Embedding \/ (\E d \in Drops : Colour(d)) \/ Palette \/ Dialect PROVE UNCHANGED words
  BY <1>4, EmbeddingFrame, ColourFrame, PaletteFrame DEF pictures
<1> QED BY <1>1, <1>3, <1>4, StepKinds

\* The upsert adds a vector of its product and of an image in its list.
LEMMA UpsertEffect ==
  ASSUME Form, NEW j \in Jobs, Upsert(j)
  PROVE  /\ sync[j].pc = "upsert" /\ sync[j].p \in Products
         /\ Head(sync[j].left) \in ToSet(sync[j].list) /\ ToSet(sync[j].list) \subseteq Keys
         /\ IF Exists(sync[j].p) THEN \E x \in Texts \cup {None} : vectors' \subseteq vectors \cup {<<sync[j].p, Head(sync[j].left), x>>}
                                 ELSE UNCHANGED vectors
<1>1. SyncOK(sync[j]) /\ sync[j].pc = "upsert"
  BY DEF Form, SyncForm, Upsert
<1>2. sync[j].p \in Products /\ Head(sync[j].left) \in ToSet(sync[j].list) /\ ToSet(sync[j].list) \subseteq Keys
  BY <1>1, ToSetOfHeadTail, ToSetOfSeq DEF SyncOK
<1> DEFINE x == TextOf(sync[j].texts, Head(sync[j].left))
<1>3. x \in Texts \cup {None}
  BY <1>1 DEF SyncOK, TextOf
<1>4. IF Exists(sync[j].p) THEN vectors' \subseteq vectors \cup {<<sync[j].p, Head(sync[j].left), x>>} ELSE UNCHANGED vectors
  BY DEF Upsert
<1> QED BY <1>1, <1>2, <1>3, <1>4

\* Vectors keep their form.
LEMMA VectorFormStep ==
  ASSUME Form, CatalogNext
  PROVE  vectors' \subseteq Products \X Keys \X (Texts \cup {None})
<1>1. vectors \subseteq Products \X Keys \X (Texts \cup {None})
  BY DEF Form, TableForm
<1>2. ASSUME NEW j \in Jobs, Upsert(j) PROVE vectors' \subseteq Products \X Keys \X (Texts \cup {None})
  BY <1>1, <1>2, UpsertEffect
<1>3. ASSUME Embedding PROVE vectors' \subseteq Products \X Keys \X (Texts \cup {None})
  BY <1>1, <1>2, <1>3
     DEF Embedding, Sync, ClearVectors, ReadWords, Embed, Finish, Pruned, Backfill, SkipEmbedded, embeddings
<1>4. ASSUME NEW e \in Edits, Request(e) PROVE vectors' \subseteq Products \X Keys \X (Texts \cup {None})
  BY <1>1, <1>4, RequestFrames DEF RequestFrame, Deleting, Delete
<1>5. ASSUME (\E d \in Drops : Colour(d)) \/ Palette \/ Dialect PROVE UNCHANGED vectors
  BY <1>5, ColourFrame, PaletteFrame DEF embeddings
<1> QED BY <1>1, <1>3, <1>4, <1>5, StepKinds

\* A new ad link is of a product that exists, and the first of the two.
LEMMA LinkEffect ==
  ASSUME Form, NEW e \in Edits, WriteLink(e)
  PROVE  \/ UNCHANGED links
         \/ \E ad \in Ads, p \in Products : Exists(p) /\ Linked(ad, p) = {} /\ links' = links \cup {<<ad, p, TRUE>>}
<1>1. EditOK(edit[e]) /\ edit[e].pc = "link"
  BY DEF Form, EditForm, WriteLink, Go
<1>2. edit[e].p \in Products /\ edit[e].key \in Ads
  BY <1>1 DEF EditOK
<1> QED BY <1>2 DEF WriteLink

\* Ad links keep their form.
LEMMA LinkFormStep ==
  ASSUME Form, CatalogNext
  PROVE  links' \subseteq Ads \X Products \X BOOLEAN
<1>1. links \subseteq Ads \X Products \X BOOLEAN
  BY DEF Form, TableForm
<1>2. ASSUME NEW e \in Edits, WriteLink(e) PROVE links' \subseteq Ads \X Products \X BOOLEAN
  <2>1. CASE UNCHANGED links
    BY <1>1, <2>1
  <2>2. ASSUME NEW ad \in Ads, NEW p \in Products, links' = links \cup {<<ad, p, TRUE>>}
        PROVE  links' \subseteq Ads \X Products \X BOOLEAN
    <3>1. <<ad, p, TRUE>> \in Ads \X Products \X BOOLEAN
      OBVIOUS
    <3> QED BY <1>1, <2>2, <3>1
  <2> QED BY <1>2, <2>1, <2>2, LinkEffect
<1>3. ASSUME NEW e \in Edits, NEW l \in links, SwitchLink(e, l) \/ DropLink(e, l)
      PROVE  links' \subseteq Ads \X Products \X BOOLEAN
  <2>1. <<l[1], l[2], ~l[3]>> \in Ads \X Products \X BOOLEAN
    BY <1>1
  <2>2. links' \subseteq links \cup {<<l[1], l[2], ~l[3]>>}
    BY <1>3 DEF SwitchLink, DropLink
  <2> QED BY <1>1, <2>1, <2>2
<1>4. ASSUME NEW e \in Edits, Request(e) PROVE links' \subseteq Ads \X Products \X BOOLEAN
  BY <1>1, <1>2, <1>3, <1>4, RequestFrames DEF RequestFrame, Switching, Deleting, Delete
<1>5. ASSUME Embedding \/ (\E d \in Drops : Colour(d)) \/ Palette \/ Dialect PROVE UNCHANGED links
  BY <1>5, EmbeddingFrame, ColourFrame, PaletteFrame DEF shelf
<1> QED BY <1>1, <1>4, <1>5, StepKinds

\* Colours and terms keep their form.
LEMMA ColourFormStep ==
  ASSUME Form, CatalogNext
  PROVE  ColourForm'
<1>1. ColourForm
  BY DEF Form
<1>2. ASSUME NEW e \in Edits, Request(e) PROVE UNCHANGED <<family, synonym>>
  BY <1>2, RequestFrames DEF RequestFrame, colourVars
<1>3. ASSUME Embedding PROVE UNCHANGED <<family, synonym>>
  BY <1>3, EmbeddingFrame DEF colourVars
<1>4. ASSUME NEW d \in Drops, Colour(d) PROVE ColourForm'
  BY <1>1, <1>4, ColourFrame DEF DropColour, ColourForm
<1>5. ASSUME Palette \/ Dialect PROVE ColourForm'
  <2>1. family' \in [Colours -> Families \cup {Unassigned, None}]
    BY <1>1, <1>5, PaletteFrame DEF Palette, AddColour, SetFamily, WriteFamily, ColourForm
  <2>2. synonym' \in [Terms -> Colours \cup {None}]
    BY <1>1, <1>5, PaletteFrame DEF Dialect, SetSynonym, ColourForm
  <2> QED BY <2>1, <2>2 DEF ColourForm
<1> QED BY <1>1, <1>2, <1>3, <1>4, <1>5, StepKinds DEF ColourForm

\* Everything keeps its form.
LEMMA FormStep ==
  ASSUME Form, Holding, CatalogNext
  PROVE  Form'
BY RowFormStep, EditFormStep, SyncFormStep, TagFormStep, WordFormStep, VectorFormStep, LinkFormStep, ColourFormStep
   DEF Form, TableForm

-----------------------------------------------------------------------------
(* References between the rows, and what the deletions of colours hold.        *)

\* References hold in the first state.
LEMMA RefsInit == Init => Refs
<1> SUFFICES ASSUME Init PROVE Refs
  OBVIOUS
<1> QED BY FirstStateIsLegal, IdsDiffer, CatalogAssumption DEF Init, Refs, Placed, Exists, ColoursNow

\* Only delete takes a product's row.
LEMMA Survival ==
  ASSUME Form, NEW e \in Edits, Request(e), ~Deleting(e), NEW p \in Products, Exists(p)
  PROVE  Exists(p)'
<1>1. RowWrite(e)
  BY RowStep
<1> QED BY <1>1, NoRowIsNone DEF RowWrite, RowWritten, RowTo, Exists, Deleting

\* A request's step keeps the references.
LEMMA RequestKeepsRefs ==
  ASSUME Form, Refs, NEW e \in Edits, Request(e)
  PROVE  Refs'
<1>a. RequestFrame(e)
  BY RequestFrames
<1>b. /\ tags \subseteq Products \X Keys \X Colours /\ words \subseteq Products \X Keys \X Texts
      /\ vectors \subseteq Products \X Keys \X (Texts \cup {None}) /\ links \subseteq Ads \X Products \X BOOLEAN
  BY DEF Form, TableForm
<1>c. UNCHANGED <<family, synonym>>
  BY <1>a DEF RequestFrame, colourVars
<1>d. /\ \A p \in Products : Exists(p) => Placed(row[p].category)
      /\ \A l \in links : Exists(l[2]) /\ \A m \in links : l[1] = m[1] /\ l[2] = m[2] => l = m
      /\ \A t \in tags : Exists(t[1]) /\ t[3] \in ColoursNow
      /\ \A w \in words \cup vectors : Exists(w[1])
      /\ \A t \in Terms : synonym[t] \in ColoursNow \cup {None}
      /\ family[Sentinel] = Unassigned
      /\ \A b, c \in ColoursNow : family[b] = family[c] => b = c
  BY DEF Refs
<1>1. ASSUME NEW q \in Products, Exists(q)' PROVE Placed(row[q].category)'
  <2>1. CASE UNCHANGED row
    <3>1. UNCHANGED cats \/ (\E c \in Categories : AddCategory(e, c)) \/ DropCategory(e)
      BY <1>a DEF RequestFrame
    <3>2. Exists(q) /\ Placed(row[q].category)
      BY <1>1, <1>d, <2>1 DEF Exists
    <3> QED BY <3>1, <3>2, <2>1 DEF AddCategory, DropCategory, InUse, Uses, Placed
  <2>2. ASSUME NEW p \in Products, NEW r \in Rows \cup {None}, RowWritten(e, p, r) PROVE Placed(row[q].category)'
    BY <1>1, <1>d, <2>2 DEF RowWritten, RowTo, Exists, Placed
  <2> QED BY <2>1, <2>2, RowStep DEF RowWrite
<1>2. ASSUME NEW l \in links' PROVE Exists(l[2])' /\ \A m \in links' : l[1] = m[1] /\ l[2] = m[2] => l = m
  <2>1. CASE Deleting(e)
    BY <1>2, <1>b, <1>d, <2>1 DEF Deleting, Delete, Exists, Form, RowForm
  <2>2. ASSUME NEW ad \in Ads, NEW p \in Products, Exists(p), Linked(ad, p) = {}, links' = links \cup {<<ad, p, TRUE>>},
               ~Deleting(e)
        PROVE  Exists(l[2])' /\ \A m \in links' : l[1] = m[1] /\ l[2] = m[2] => l = m
    <3> DEFINE new == <<ad, p, TRUE>>
    <3>0. new[1] = ad /\ new[2] = p /\ links' = links \cup {new}
      BY <2>2
    <3> HIDE DEF new
    <3>1. \A m \in links : ~(m[1] = ad /\ m[2] = p)
      BY <2>2 DEF Linked
    <3>2. \A m \in links' : Exists(m[2]) /\ m[2] \in Products
      BY <1>b, <1>d, <2>2, <3>0
    <3>3. Exists(l[2])'
      BY <1>2, <2>2, <3>2, Survival
    <3>4. \A m \in links' : l[1] = m[1] /\ l[2] = m[2] => l = m
      BY <1>2, <1>d, <3>0, <3>1
    <3> QED BY <3>3, <3>4
  <2>3. ASSUME NEW x \in links, SwitchLink(e, x) \/ DropLink(e, x), ~Deleting(e)
        PROVE  Exists(l[2])' /\ \A m \in links' : l[1] = m[1] /\ l[2] = m[2] => l = m
    <3>1. links' = (links \ {x}) \cup {<<x[1], x[2], ~x[3]>>} \/ links' = links \ {x}
      BY <2>3 DEF SwitchLink, DropLink
    <3>2. \A m \in links' : Exists(m[2]) /\ m[2] \in Products
      BY <1>b, <1>d, <3>1
    <3>3. Exists(l[2])'
      BY <1>2, <2>3, <3>2, Survival
    <3>4. \A m \in links' : l[1] = m[1] /\ l[2] = m[2] => l = m
      BY <1>2, <1>d, <3>1
    <3> QED BY <3>3, <3>4
  <2>4. CASE UNCHANGED links /\ ~Deleting(e)
    BY <1>2, <1>b, <1>d, <2>4, Survival
  <2> QED BY <1>a, <2>1, <2>2, <2>3, <2>4, LinkEffect DEF RequestFrame, Switching
<1>3. ASSUME NEW t \in tags' PROVE Exists(t[1])' /\ (t[3] \in ColoursNow)'
  <2>0. ColoursNow' = ColoursNow
    BY <1>c DEF ColoursNow
  <2>1. CASE Deleting(e)
    BY <1>3, <1>b, <1>d, <2>0, <2>1 DEF Deleting, Delete, Exists, Form, RowForm
  <2>2. CASE ~Deleting(e)
    <3>1. t \in tags \/ (t[1] \in Products /\ Exists(t[1]) /\ t[3] \in ColoursNow)
      BY <1>a, <1>3, <2>2, TaggedEffect DEF RequestFrame, TagWriter, Retagged
    <3> QED BY <1>b, <1>d, <2>0, <2>2, <3>1, Survival
  <2> QED BY <2>1, <2>2
<1>4. ASSUME NEW w \in words' \cup vectors' PROVE Exists(w[1])'
  <2>1. CASE Deleting(e)
    BY <1>4, <1>b, <1>d, <2>1 DEF Deleting, Delete, Exists, Form, RowForm
  <2>2. CASE ~Deleting(e)
    <3>1. ASSUME WriteWords(e) PROVE edit[e].p \in Products
      <4>1. EditOK(edit[e]) /\ edit[e].pc = "describe"
        BY <3>1 DEF Form, EditForm, WriteWords, Go
      <4> QED BY <4>1 DEF EditOK, ImageOps
    <3>2. vectors' = vectors /\ (words' \subseteq words \/ WriteWords(e))
      BY <1>a, <2>2 DEF RequestFrame, DeleteWords
    <3>3. w \in words \cup vectors \/ (w[1] \in Products /\ Exists(w[1]))
      BY <1>4, <3>1, <3>2 DEF WriteWords
    <3> QED BY <1>b, <1>d, <2>2, <3>3, Survival
  <2> QED BY <2>1, <2>2
<1> QED BY <1>1, <1>2, <1>3, <1>4, <1>c, <1>d DEF Refs, ColoursNow

\* What a colour deletion holds: tags of its colour, nobody else's.
LEMMA HeldFacts ==
  ASSUME Holding, NEW d \in Drops
  PROVE  /\ drop[d].pc \in {"dedupe", "move", "drop"} => drop[d].colour \in Colours /\ drop[d].colour # Sentinel
         /\ \A t \in Held(d) : t \in tags /\ t[3] = drop[d].colour
         /\ \A t \in drop[d].gone : AsSentinel(t) \in tags
         /\ \A f \in Drops \ {d} : Held(d) \cap Held(f) = {}
BY DEF Holding, HeldOK

\* The end of a deletion leaves no tag of its colour, and every image it touched with one.
LEMMA DropEffect ==
  ASSUME Form, Holding, NEW d \in Drops, DropColour(d), ~UNCHANGED <<tags, family, synonym>>,
         NEW c, c = drop[d].colour
  PROVE  /\ c \in Colours /\ c # Sentinel /\ OfColour(c) = Held(d)
         /\ tags' = (tags \ Held(d)) \cup {AsSentinel(t) : t \in drop[d].moved} /\ Held(d) \subseteq tags
         /\ family' = [family EXCEPT ![c] = None]
         /\ synonym' = [t \in Terms |-> IF synonym[t] = c THEN None ELSE synonym[t]]
<1>1. drop[d].pc = "drop" /\ ~StillTagged(d)
  BY DEF DropColour
<1>2. c \in Colours /\ c # Sentinel /\ Held(d) \subseteq OfColour(c) /\ Held(d) \subseteq tags
  BY <1>1, HeldFacts DEF OfColour
<1>3. OfColour(c) \subseteq Held(d)
  BY <1>1 DEF StillTagged, Held
<1> QED BY <1>1, <1>2, <1>3 DEF DropColour, Held

\* The commit of a colour deletion leaves no reference to the colour.
LEMMA DropKeepsRefs ==
  ASSUME Form, Refs, Holding, NEW d \in Drops, DropColour(d), UNCHANGED <<row, cats, links, words, vectors>>
  PROVE  Refs'
<1>1. CASE UNCHANGED <<tags, family, synonym>>
  BY <1>1 DEF Refs, ColoursNow, Exists, Placed
<1>2. CASE ~UNCHANGED <<tags, family, synonym>>
  <2> DEFINE c == drop[d].colour
  <2>1. /\ c \in Colours /\ c # Sentinel /\ OfColour(c) = Held(d)
        /\ tags' = (tags \ Held(d)) \cup {AsSentinel(t) : t \in drop[d].moved} /\ Held(d) \subseteq tags
        /\ family' = [family EXCEPT ![c] = None]
        /\ synonym' = [t \in Terms |-> IF synonym[t] = c THEN None ELSE synonym[t]]
    BY <1>2, DropEffect
  <2> HIDE DEF c
  <2>2. \A b \in Colours : family'[b] = IF b = c THEN None ELSE family[b]
    BY <2>1 DEF Form, ColourForm
  <2>3. ColoursNow' = ColoursNow \ {c} /\ Sentinel \in ColoursNow'
    BY <2>1, <2>2, CatalogAssumption, IdsDiffer DEF ColoursNow, Refs
  <2>4. ASSUME NEW t \in tags' PROVE Exists(t[1])' /\ (t[3] \in ColoursNow)'
    <3>1. CASE t \in tags \ Held(d)
      <4>1. t[3] # c
        BY <2>1, <3>1 DEF OfColour
      <4> QED BY <2>3, <3>1, <4>1 DEF Refs, Exists
    <3>2. ASSUME NEW u \in drop[d].moved, t = AsSentinel(u) PROVE Exists(t[1])' /\ (t[3] \in ColoursNow)'
      <4>1. u \in tags
        BY <2>1 DEF Held
      <4> QED BY <2>3, <3>2, <4>1 DEF Refs, Exists, AsSentinel
    <3> QED BY <2>1, <2>4, <3>1, <3>2
  <2>5. \A t \in Terms : synonym'[t] \in ColoursNow' \cup {None}
    BY <2>1, <2>3 DEF Refs
  <2>6. family'[Sentinel] = Unassigned /\ \A b, g \in ColoursNow' : family'[b] = family'[g] => b = g
    BY <2>1, <2>2, <2>3, CatalogAssumption DEF Refs, ColoursNow
  <2>7. /\ \A p \in Products : Exists(p)' => Placed(row[p].category)'
        /\ \A l \in links' : Exists(l[2])' /\ \A m \in links' : l[1] = m[1] /\ l[2] = m[2] => l = m
        /\ \A w \in words' \cup vectors' : Exists(w[1])'
    BY DEF Refs, Exists, Placed
  <2> QED BY <2>4, <2>5, <2>6, <2>7 DEF Refs
<1> QED BY <1>1, <1>2

\* No step breaks a reference.
LEMMA RefsStep ==
  ASSUME Form, Refs, Holding, CatalogNext
  PROVE  Refs'
<1>1. ASSUME Embedding PROVE Refs'
  <2>1. UNCHANGED <<row, cats, links, tags, words, family, synonym>>
    BY <1>1, EmbeddingFrame DEF pictures, shelf, colourVars
  <2>2. ASSUME NEW v \in vectors' PROVE Exists(v[1])
    <3>1. v \in vectors \/ \E j \in Jobs : Upsert(j)
      BY <1>1 DEF Embedding, Sync, ClearVectors, ReadWords, Embed, Finish, Pruned, Backfill, SkipEmbedded, embeddings
    <3>2. ASSUME NEW j \in Jobs, Upsert(j) PROVE Exists(v[1])
      BY <2>2, <3>2, UpsertEffect DEF Refs
    <3> QED BY <3>1, <3>2 DEF Refs
  <2> QED BY <2>1, <2>2 DEF Refs, Exists, Placed, ColoursNow
<1>2. ASSUME NEW d \in Drops, Colour(d) PROVE Refs'
  <2>1. UNCHANGED <<row, cats, links, words, vectors>>
    BY <1>2, ColourFrame DEF pictures, shelf, embeddings
  <2>2. CASE UNCHANGED <<tags, family, synonym>>
    BY <2>1, <2>2 DEF Refs, Exists, Placed, ColoursNow
  <2> QED BY <1>2, <2>1, <2>2, ColourFrame, DropKeepsRefs
<1>3. ASSUME Palette \/ Dialect PROVE Refs'
  <2>1. UNCHANGED <<row, cats, links, tags, words, vectors>>
    BY <1>3, PaletteFrame DEF pictures, shelf, embeddings
  <2>2. ASSUME NEW c \in Colours, NEW f \in Families, AddColour(c, f) \/ SetFamily(c, f) PROVE Refs'
    <3>1. family' = [family EXCEPT ![c] = f] /\ FamilyFree(c, f) /\ c # Sentinel /\ UNCHANGED synonym
      BY <2>2, CatalogAssumption, IdsDiffer DEF AddColour, SetFamily, WriteFamily, Refs, ColoursNow
    <3>2. \A b \in Colours : family'[b] = IF b = c THEN f ELSE family[b]
      BY <3>1 DEF Form, ColourForm
    <3>3. ColoursNow' = ColoursNow \cup {c}
      BY <3>2, IdsDiffer DEF ColoursNow
    <3>4. family'[Sentinel] = Unassigned /\ \A b, g \in ColoursNow' : family'[b] = family'[g] => b = g
      BY <3>1, <3>2, <3>3, CatalogAssumption DEF Refs, FamilyFree, ColoursNow
    <3> QED BY <2>1, <3>1, <3>3, <3>4 DEF Refs, Exists, Placed
  <2>3. CASE Dialect
    <3>1. UNCHANGED family /\ \A t \in Terms : synonym'[t] \in ColoursNow \cup {None}
      BY <2>3 DEF Dialect, SetSynonym, Refs, Form, ColourForm
    <3> QED BY <2>1, <3>1 DEF Refs, Exists, Placed, ColoursNow
  <2> QED BY <1>3, <2>2, <2>3 DEF Palette
<1>4. ASSUME NEW e \in Edits, Request(e) PROVE Refs'
  BY <1>4, RequestKeepsRefs
<1> QED BY <1>1, <1>2, <1>3, <1>4, StepKinds

\* A tag that is held stays until its deletion commits.
LEMMA RequestKeepsHeld ==
  ASSUME Form, Holding, NEW e \in Edits, Request(e), NEW d \in Drops
  PROVE  /\ \A t \in Held(d) : t \in tags'
         /\ \A t \in drop[d].gone : AsSentinel(t) \in tags'
<1>1. /\ Held(d) \subseteq tags /\ drop[d].gone \subseteq Held(d) /\ \A t \in drop[d].gone : AsSentinel(t) \in tags
  BY HeldFacts DEF Held
<1>2. CASE UNCHANGED tags
  BY <1>1, <1>2
<1>3. CASE DeleteTags(e) \/ ReplaceTags(e)
  <2> DEFINE p == edit[e].p
             k == edit[e].key
  <2>1. ~Locked(p, k) /\ (tags \ TagsOf(p, k)) \subseteq tags'
    BY <1>3, TaggedEffect DEF Retagged
  <2> HIDE DEF p, k
  <2>2. \A t \in Held(d) : t \notin TagsOf(p, k) /\ AsSentinel(t) \notin TagsOf(p, k)
    BY <2>1 DEF Locked, Held, TagsOf, AsSentinel
  <2> QED BY <1>1, <2>1, <2>2
<1>4. ASSUME NEW p \in Products, Delete(e, p)
      PROVE  (\A t \in Held(d) : t \in tags') /\ \A t \in drop[d].gone : AsSentinel(t) \in tags'
  <2>1. \A t \in Held(d) : t[1] # p
    BY <1>1, <1>4 DEF Delete, Locked, Held
  <2> QED BY <1>1, <1>4, <2>1 DEF Delete, AsSentinel
<1> QED BY <1>2, <1>3, <1>4, RequestFrames DEF RequestFrame, TagWriter, Deleting

\* A deletion that takes rows nobody holds leaves Holding true.
LEMMA HeldBy ==
  ASSUME Holding, NEW d \in Drops, NEW r, DOMAIN r = DOMAIN NoDrop, drop' = [drop EXCEPT ![d] = r], UNCHANGED tags,
         r.pc \in {"dedupe", "move", "drop"} => r.colour \in Colours \ {Sentinel},
         r.pc \notin {"move", "drop"} => r.gone \cup r.moved = {},
         \A t \in r.gone \cup r.moved : t \in tags /\ t[3] = r.colour,
         \A t \in r.gone : AsSentinel(t) \in tags,
         \A f \in Drops \ {d} : (r.gone \cup r.moved) \cap Held(f) = {}
  PROVE  Holding'
<1>1. DOMAIN drop = Drops /\ \A f \in Drops : HeldOK(f)
  BY DEF Holding
<1>2. drop'[d] = r /\ DOMAIN drop' = Drops /\ \A f \in Drops \ {d} : drop'[f] = drop[f]
  BY <1>1
<1>3. Held(d)' = r.gone \cup r.moved /\ \A f \in Drops \ {d} : Held(f)' = Held(f)
  BY <1>2 DEF Held
<1>4. HeldOK(d)'
  BY <1>2, <1>3 DEF HeldOK, AsSentinel
<1>5. ASSUME NEW f \in Drops \ {d} PROVE HeldOK(f)'
  <2>1. HeldOK(f) /\ drop'[f] = drop[f] /\ Held(f)' = Held(f)
    BY <1>1, <1>2, <1>3
  <2>2. \A g \in Drops \ {f} : Held(f) \cap Held(g)' = {}
    BY <1>3, <2>1 DEF HeldOK
  <2> QED BY <2>1, <2>2 DEF HeldOK, AsSentinel
<1> QED BY <1>2, <1>4, <1>5 DEF Holding

\* No step takes a row a colour deletion holds.
LEMMA HoldingStep ==
  ASSUME Form, Holding, CatalogNext
  PROVE  Holding'
<1>0. DOMAIN drop = Drops /\ \A d \in Drops : HeldOK(d)
  BY DEF Holding
<1>1. ASSUME NEW e \in Edits, Request(e) PROVE Holding'
  <2>1. UNCHANGED drop
    BY <1>1, RequestFrames DEF RequestFrame, colourVars
  <2>2. ASSUME NEW d \in Drops PROVE HeldOK(d)'
    <3>1. (\A t \in Held(d) : t \in tags') /\ \A t \in drop[d].gone : AsSentinel(t) \in tags'
      BY <1>1, RequestKeepsHeld
    <3> QED BY <3>1, <2>1, <1>0 DEF HeldOK, Held, AsSentinel
  <2> QED BY <1>0, <2>1, <2>2 DEF Holding
<1>2. ASSUME Embedding \/ Palette \/ Dialect PROVE Holding'
  <2>1. UNCHANGED <<drop, tags>>
    BY <1>2, EmbeddingFrame, PaletteFrame DEF colourVars
  <2> QED BY <2>1, <1>0 DEF Holding, HeldOK, Held, AsSentinel
<1>3. ASSUME NEW d \in Drops, Colour(d) PROVE Holding'
  <2>0. DOMAIN drop[d] = DOMAIN NoDrop /\ HeldOK(d)
    BY <1>0 DEF HeldOK
  <2>1. ASSUME NEW c \in Colours, AskDrop(d, c) PROVE Holding'
    <3> DEFINE r == [NoDrop EXCEPT !.colour = c, !.pc = IF c = Sentinel THEN "refused" ELSE "dedupe"]
    <3>1. /\ DOMAIN r = DOMAIN NoDrop /\ r.colour = c /\ r.pc = (IF c = Sentinel THEN "refused" ELSE "dedupe")
          /\ r.gone = {} /\ r.moved = {}
      BY DEF NoDrop
    <3>2. drop' = [drop EXCEPT ![d] = r] /\ UNCHANGED tags
      BY <2>1 DEF AskDrop
    <3> HIDE DEF r
    <3> QED BY <3>1, <3>2, HeldBy
  <2>2. ASSUME NEW pc \in {"error", "conflict"}, drop' = Answered(d, pc), UNCHANGED tags PROVE Holding'
    <3> DEFINE r == [NoDrop EXCEPT !.pc = pc, !.colour = drop[d].colour]
    <3>1. DOMAIN r = DOMAIN NoDrop /\ r.pc = pc /\ r.gone = {} /\ r.moved = {}
      BY DEF NoDrop
    <3>2. drop' = [drop EXCEPT ![d] = r]
      BY <2>2 DEF Answered
    <3> HIDE DEF r
    <3> QED BY <2>2, <3>1, <3>2, HeldBy
  <2>3. CASE Dedupe(d)
    <3> DEFINE c == drop[d].colour
               r == [drop[d] EXCEPT !.pc = "move", !.gone = Duplicates(c)]
    <3>1. drop[d].pc = "dedupe" /\ ~Busy(d, Duplicates(c)) /\ drop' = [drop EXCEPT ![d] = r] /\ UNCHANGED tags
      BY <2>3 DEF Dedupe
    <3>2. DOMAIN r = DOMAIN NoDrop /\ r.pc = "move" /\ r.gone = Duplicates(c) /\ r.colour = c /\ r.moved = drop[d].moved
      BY <2>0 DEF NoDrop
    <3>3. drop[d].moved = {} /\ c \in Colours \ {Sentinel}
      BY <2>0, <3>1 DEF HeldOK, Held
    <3>4. \A f \in Drops \ {d} : Duplicates(c) \cap Held(f) = {}
      BY <3>1 DEF Busy, Held
    <3>5. \A t \in Duplicates(c) : t \in tags /\ t[3] = c /\ AsSentinel(t) \in tags
      BY DEF Duplicates, OfColour
    <3> HIDE DEF r, c
    <3>6. /\ \A t \in r.gone \cup r.moved : t \in tags /\ t[3] = r.colour
          /\ \A t \in r.gone : AsSentinel(t) \in tags
          /\ \A f \in Drops \ {d} : (r.gone \cup r.moved) \cap Held(f) = {}
      BY <3>2, <3>3, <3>4, <3>5
    <3> QED BY <3>1, <3>2, <3>3, <3>6, HeldBy
  <2>4. CASE Move(d)
    <3> DEFINE moved == OfColour(drop[d].colour) \ drop[d].gone
               r == [drop[d] EXCEPT !.pc = "drop", !.moved = moved]
    <3>1. drop[d].pc = "move" /\ ~Busy(d, moved) /\ UNCHANGED tags
      BY <2>4 DEF Move
    <3>2. CASE drop' = Answered(d, "error")
      BY <2>2, <3>1, <3>2
    <3>3. CASE drop' = [drop EXCEPT ![d] = r]
      <4>1. DOMAIN r = DOMAIN NoDrop /\ r.pc = "drop" /\ r.moved = moved /\ r.colour = drop[d].colour /\ r.gone = drop[d].gone
        BY <2>0 DEF NoDrop
      <4>2. \A f \in Drops \ {d} : moved \cap Held(f) = {} /\ drop[d].gone \cap Held(f) = {}
        BY <2>0, <3>1 DEF Busy, Held, HeldOK
      <4>3. \A t \in moved : t \in tags /\ t[3] = drop[d].colour
        BY DEF OfColour
      <4>4. drop[d].colour \in Colours \ {Sentinel} /\ \A t \in drop[d].gone : t \in tags /\ t[3] = drop[d].colour /\ AsSentinel(t) \in tags
        BY <2>0, <3>1 DEF HeldOK, Held
      <4> HIDE DEF r, moved
      <4> QED BY <3>1, <3>3, <4>1, <4>2, <4>3, <4>4, HeldBy
    <3> QED BY <2>4, <3>2, <3>3 DEF Move
  <2>5. CASE DropColour(d) /\ UNCHANGED tags /\ drop' = Answered(d, "conflict")
    BY <2>2, <2>5
  <2>6. ASSUME DropColour(d), ~StillTagged(d) PROVE Holding'
    <3> DEFINE c == drop[d].colour
    <3>1. /\ drop[d].pc = "drop" /\ \E pc \in {"ok", "notfound"} : drop' = Answered(d, pc)
          /\ tags' = (tags \ Held(d)) \cup {AsSentinel(t) : t \in drop[d].moved}
      BY <2>6 DEF DropColour, Held
    <3>2. PICK pc \in {"ok", "notfound"} : drop' = Answered(d, pc)
      BY <3>1
    <3>3. DOMAIN drop' = Drops /\ drop'[d] = [NoDrop EXCEPT !.pc = pc, !.colour = drop[d].colour]
          /\ \A f \in Drops \ {d} : drop'[f] = drop[f]
      BY <1>0, <3>2 DEF Answered
    <3>4. drop'[d].pc = pc /\ drop'[d].gone = {} /\ drop'[d].moved = {} /\ DOMAIN drop'[d] = DOMAIN NoDrop
      BY <3>3 DEF NoDrop
    <3>5. Held(d)' = {} /\ \A f \in Drops \ {d} : Held(f)' = Held(f)
      BY <3>3, <3>4 DEF Held
    <3>6. \A t \in Held(d) : t[3] # Sentinel
      BY <3>1, HeldFacts
    <3>7. ASSUME NEW f \in Drops \ {d} PROVE HeldOK(f)'
      <4>1. HeldOK(f) /\ drop'[f] = drop[f] /\ Held(f) \cap Held(d) = {}
        BY <1>0, <3>3 DEF HeldOK
      <4>2. \A t \in Held(f) : t \in tags'
        BY <3>1, <4>1 DEF HeldOK
      <4>3. \A t \in drop[f].gone : AsSentinel(t) \in tags'
        <5> TAKE t \in drop[f].gone
        <5>1. AsSentinel(t) \in tags /\ AsSentinel(t)[3] = Sentinel
          BY <4>1 DEF HeldOK, AsSentinel
        <5> QED BY <3>1, <3>6, <5>1
      <4>4. \A g \in Drops \ {f} : Held(f)' \cap Held(g)' = {}
        BY <3>5, <4>1 DEF HeldOK
      <4> QED BY <3>5, <4>1, <4>2, <4>3, <4>4 DEF HeldOK, AsSentinel
    <3>8. HeldOK(d)'
      BY <3>4, <3>5 DEF HeldOK, Held
    <3> QED BY <3>3, <3>7, <3>8 DEF Holding
  <2>7. ASSUME DropColour(d), StillTagged(d) PROVE UNCHANGED tags /\ drop' = Answered(d, "conflict")
    BY <2>7 DEF DropColour
  <2> QED BY <1>3, <2>1, <2>3, <2>4, <2>5, <2>6, <2>7 DEF Colour
<1> QED BY <1>1, <1>2, <1>3, StepKinds

\* Form, references and locks hold in the first state.
LEMMA BaseInit == Init => Inv
<1> SUFFICES ASSUME Init PROVE Inv
  OBVIOUS
<1>1. SyncOK(NoSync) /\ EditOK(NoEdit)
  <2>1. ToSet(<<>>) = {} /\ <<>> \in Seq(Keys)
    BY DEF ToSet
  <2>2. None \notin {"upload", "toggle", "link", "remove", "primary", "colours", "words", "update", "create"}
    BY IdsDiffer
  <2> QED BY <2>1, <2>2 DEF SyncOK, NoSync, EditOK, NoEdit, ImageOps
<1>2. RowForm /\ SyncForm /\ ColourForm
  BY <1>1, FirstStateIsLegal DEF Init, RowForm, SyncForm, ColourForm
<1>3. EditForm
  BY <1>1 DEF Init, EditForm
<1>4. TableForm
  BY FirstStateIsLegal DEF Init, TableForm
<1>5. Holding
  BY DEF Init, Holding, HeldOK, Held, NoDrop
<1> QED BY <1>2, <1>3, <1>4, <1>5, RefsInit DEF Inv, Form

\* And after every step.
LEMMA BaseStep ==
  ASSUME Inv, CatalogNext
  PROVE  Inv'
BY FormStep, RefsStep, HoldingStep DEF Inv

-----------------------------------------------------------------------------
(* The images of a product, before and after a step.                           *)

\* A create or a PATCH put a list in the row of q.
GaveImages(e, q) ==
    /\ edit'[e].op \in {"create", "update"} /\ edit'[e].p = q /\ edit'[e].pc = "ok" /\ edit'[e].arg # None
    /\ Listed(q)' = ToSet(edit'[e].arg)

\* The step puts another list in the row of q.
Relisted(e, q) ==
    \/ /\ RecordImages(e) /\ q = edit[e].p
       /\ Listed(q)' = IF edit[e].arg THEN ToSet(NewKeys[e]) ELSE Listed(q) \cup ToSet(NewKeys[e])
    \/ WriteRemaining(e) /\ q = edit[e].p /\ Listed(q)' = ToSet(edit[e].list) \ {edit[e].key}
    \/ WriteReordered(e) /\ q = edit[e].p /\ Listed(q)' = ToSet(edit[e].list)
    \/ GaveImages(e, q) /\ edit'[e].op = "update"

\* The images of a product after its row is written.
LEMMA ListedIs ==
  ASSUME Form, NEW p \in Products, NEW r \in Rows, RowTo(p, r)
  PROVE  Exists(p)' /\ Listed(p)' = ToSet(r.images) /\ \A q \in Products \ {p} : Listed(q)' = Listed(q)
BY NoRowIsNone DEF RowTo, Listed, Exists

\* How a request changes the images of a product, if it does.
LEMMA ListedStep ==
  ASSUME Form, NEW e \in Edits, Request(e), NEW q \in Products
  PROVE  \/ Listed(q)' = Listed(q)
         \/ ~Exists(q)'
         \/ Exists(q) /\ Exists(q)' /\ Relisted(e, q)
         \/ ~Exists(q) /\ Exists(q)' /\ GaveImages(e, q)
<1> DEFINE Goal == \/ Listed(q)' = Listed(q)
                   \/ ~Exists(q)'
                   \/ Exists(q) /\ Exists(q)' /\ Relisted(e, q)
                   \/ ~Exists(q) /\ Exists(q)' /\ GaveImages(e, q)
<1>0. CASE UNCHANGED row
  BY <1>0 DEF Listed, Exists
<1>a. ASSUME NEW p \in Products, NEW list \in Seq(Keys), Exists(p), RowTo(p, Relist(p, list))
      PROVE  Exists(p)' /\ Listed(p)' = ToSet(list) /\ \A x \in Products \ {p} : Listed(x)' = Listed(x)
  BY <1>a, RelistKeeps, ListedIs
<1>b. ASSUME NEW p \in Products, NEW b \in BOOLEAN, SetFlag(e, p, b) PROVE Goal
  <2>1. CASE Exists(p)
    <3>1. RowTo(p, Reflag(p, b)) /\ Reflag(p, b) \in Rows /\ Reflag(p, b).images = row[p].images
      BY <1>b, <2>1, FlagEffect, ReflagKeeps
    <3>2. Listed(p)' = Listed(p) /\ \A x \in Products \ {p} : Listed(x)' = Listed(x)
      BY <2>1, <3>1, ListedIs DEF Listed
    <3> QED BY <3>2
  <2> QED BY <1>0, <1>b, <2>1, FlagEffect
<1>1. CASE RecordImages(e)
  <2>1. edit[e].p \in Products
    BY <1>1, RecordEffect
  <2>2. CASE Exists(edit[e].p)
    BY <1>1, <1>a, <2>1, <2>2, RecordEffect DEF Relisted
  <2> QED BY <1>0, <1>1, <2>2, RecordEffect
<1>2. CASE WriteRemaining(e)
  <2>1. edit[e].p \in Products
    BY <1>2, RemainingEffect
  <2>2. CASE Exists(edit[e].p)
    BY <1>2, <1>a, <2>1, <2>2, RemainingEffect DEF Relisted
  <2> QED BY <1>0, <1>2, <2>2, RemainingEffect
<1>3. CASE WriteReordered(e)
  <2>1. edit[e].p \in Products
    BY <1>3, ReorderEffect
  <2>2. CASE Exists(edit[e].p)
    BY <1>3, <1>a, <2>1, <2>2, ReorderEffect DEF Relisted
  <2> QED BY <1>0, <1>3, <2>2, ReorderEffect
<1>4. CASE Toggle(e)
  BY <1>b, <1>4, ToggleEffect
<1>5. CASE Publishing(e)
  BY <1>b, <1>5 DEF Publishing, SetPublished
<1>6. CASE Creating(e)
  <2>1. PICK p \in Products, b \in BOOLEAN, list \in Created, c \in Categories \cup {None} : Create(e, p, b, list, c)
    BY <1>6 DEF Creating
  <2>2. ASSUME NEW r \in Rows, RowTo(p, r), r.images = list,
               edit'[e].op = "create" /\ edit'[e].p = p /\ edit'[e].pc = "ok" /\ edit'[e].arg = list
        PROVE  Goal
    <3>1. Exists(p)' /\ Listed(p)' = ToSet(list) /\ \A x \in Products \ {p} : Listed(x)' = Listed(x)
      BY <2>2, ListedIs
    <3>2. ~Exists(p) /\ Listed(p) = {}
      BY <2>1, CreateEffect DEF Listed
    <3>3. CASE list = <<>>
      <4>1. ToSet(list) = {}
        BY <3>3 DEF ToSet
      <4> QED BY <3>1, <3>2, <4>1
    <3>4. CASE list \in Lists
      <4>1. GaveImages(e, p)
        BY <2>2, <3>1, <3>4, IdsDiffer DEF GaveImages
      <4> QED BY <3>1, <3>2, <4>1
    <3> QED BY <3>3, <3>4 DEF Created
  <2> QED BY <1>0, <2>1, <2>2, CreateEffect
<1>7. CASE Updating(e)
  <2>1. PICK p \in Products, flag \in {None, "published", "draft"}, list \in Patched, c \in Categories \cup {None} :
           Update(e, p, flag, list, c)
    BY <1>7 DEF Updating
  <2>2. ASSUME NEW r \in Rows, Exists(p), RowTo(p, r), r.images = IF list = None THEN row[p].images ELSE list,
               edit'[e].op = "update" /\ edit'[e].p = p /\ edit'[e].pc = "ok" /\ edit'[e].arg = list
        PROVE  Goal
    <3>1. Exists(p)' /\ Listed(p)' = ToSet(r.images) /\ \A x \in Products \ {p} : Listed(x)' = Listed(x)
      BY <2>2, ListedIs
    <3>2. CASE list = None
      <4>1. Listed(p)' = Listed(p)
        BY <2>2, <3>1, <3>2 DEF Listed
      <4> QED BY <3>1, <4>1
    <3>3. CASE list # None
      <4>1. Listed(p)' = ToSet(list)
        BY <2>2, <3>1, <3>3
      <4>2. Relisted(e, p)
        BY <2>2, <3>3, <4>1 DEF Relisted, GaveImages
      <4> QED BY <2>2, <3>1, <4>2
    <3> QED BY <3>2, <3>3
  <2> QED BY <1>0, <2>1, <2>2, UpdateEffect
<1>8. ASSUME NEW p \in Products, Delete(e, p) PROVE Goal
  <2>1. row'[p] = None /\ \A x \in Products \ {p} : row'[x] = row[x]
    BY <1>8 DEF Delete, Form, RowForm
  <2> QED BY <2>1 DEF Listed, Exists
<1> QED BY <1>0, <1>1, <1>2, <1>3, <1>4, <1>5, <1>6, <1>7, <1>8, RequestFrames
        DEF RequestFrame, RowWriter, Recording, Deleting

\* What was asked stays, whatever the step.
LEMMA StaysFrozen ==
  ASSUME Form, CatalogNext
  PROVE  Frozen /\ ((\E e \in Edits : Request(e)) \/ UNCHANGED <<row, edit, objects>>)
<1>1. ASSUME NEW e \in Edits, Request(e) PROVE Frozen
  BY <1>1, EditStep, EditsFrozen
<1>2. ASSUME Embedding \/ (\E d \in Drops : Colour(d)) \/ Palette \/ Dialect PROVE UNCHANGED <<row, edit, objects>>
  BY <1>2, EmbeddingFrame, ColourFrame, PaletteFrame DEF pictures
<1>3. UNCHANGED edit => Frozen
  BY DEF Frozen
<1> QED BY <1>1, <1>2, <1>3, StepKinds

-----------------------------------------------------------------------------
(* Whose image a key is.                                                       *)

\* A list that was given stays on record.
LEMMA GivenStays ==
  ASSUME Frozen, NEW p, NEW k, Given(p, k)
  PROVE  Given(p, k)'
BY IdsDiffer DEF Given, Frozen, EditDone

\* A key stays its product's.
LEMMA OwnsStays ==
  ASSUME Frozen, NEW p, NEW k, Owns(p, k)
  PROVE  Owns(p, k)'
BY GivenStays DEF Owns, Frozen, EditDone

\* A key belongs to one product, but for the lists that are given: uuids are new and
\* first rows disjoint.
LEMMA OneOwner ==
  ASSUME NEW p \in Products, NEW q \in Products, NEW k, Owns(p, k), Owns(q, k)
  PROVE  p = q \/ Given(p, k) \/ Given(q, k)
BY IdsDiffer, FirstStateIsLegal DEF Owns

\* A key of an upload that is not recorded yet is nobody's, and nobody can name it.
LEMMA NotOwned ==
  ASSUME Owned, NEW e \in Edits, edit[e].pc # "ok", NEW p \in Products, NEW k \in ToSet(NewKeys[e])
  PROVE  ~Owns(p, k)
<1> SUFFICES ASSUME Owns(p, k) PROVE FALSE
  OBVIOUS
<1>1. ~(FirstRow[p] # None /\ k \in ToSet(FirstRow[p].images))
  BY FirstStateIsLegal
<1>2. ~\E f \in Edits : edit[f].pc = "ok" /\ k \in ToSet(NewKeys[f])
  BY IdsDiffer
<1>3. ~Given(p, k)
  <2> SUFFICES ASSUME NEW f \in Edits, edit[f].op \in {"create", "update"}, edit[f].arg # None, k \in ToSet(edit[f].arg)
               PROVE  FALSE
    BY DEF Given
  <2>1. Nameable(edit[f].arg)
    BY DEF Owned
  <2> QED BY <2>1 DEF Nameable
<1> QED BY <1>1, <1>2, <1>3 DEF Owns

\* What could be named can be.
LEMMA NameableStays ==
  ASSUME Frozen, NEW list, Nameable(list)
  PROVE  Nameable(list)'
BY DEF Nameable, Frozen, EditDone

\* The lists of creates and patches name no key of an upload that is not recorded yet.
LEMMA NameableStep ==
  ASSUME Form, Owned, NEW e \in Edits, Request(e), NEW f \in Edits, edit'[f].op \in {"create", "update"}, edit'[f].arg # None
  PROVE  Nameable(edit[f].arg)'
<1>0. Frozen /\ (Started(e) \/ Continued(e)) /\ \A g \in Edits \ {e} : edit'[g] = edit[g]
  BY EditStep, EditsFrozen
<1>a. ASSUME NEW list, Nameable(list), list = edit'[f].arg PROVE Nameable(edit[f].arg)'
  <2>1. Nameable(list)'
    BY <1>0, <1>a, NameableStays
  <2> QED BY <1>a, <2>1 DEF Nameable
<1>1. CASE edit[f] # NoEdit \/ f # e
  <2>1. edit'[f].op = edit[f].op /\ edit'[f].arg = edit[f].arg
    BY <1>0, <1>1 DEF Frozen
  <2>2. Nameable(edit[f].arg)
    BY <2>1 DEF Owned
  <2> QED BY <1>a, <2>1, <2>2
<1>2. CASE edit[f] = NoEdit /\ f = e
  <2>1. ~Proceed(e)
    BY <1>2, RequestContinues DEF Continued, EditDone, NoEdit
  <2>2. ASSUME NEW op, NEW p, NEW k, NEW arg, NEW pc, Begin(e, op, p, k, arg, pc)
        PROVE  edit'[e].op = op /\ edit'[e].arg = arg
    BY <2>2 DEF Begin, Form, EditForm
  <2>3. Creating(e) \/ Updating(e)
    <3>1. CASE Image(e)
      BY <1>2, <2>2, <3>1 DEF Image, AskRemove, AskPrimary, AskColours, AskWords, ReadImage
    <3>2. CASE Category(e) \/ AdLink(e)
      BY <1>2, <2>2, <3>2 DEF Category, AddCategory, AskDropCategory, AdLink, AskLink, SwitchLink, DropLink
    <3>3. ASSUME NEW p \in Products, NEW b \in BOOLEAN,
                 CheckUpload(e, p, b) \/ SetPublished(e, p, b) \/ AskToggle(e, p) \/ Delete(e, p) PROVE FALSE
      BY <1>2, <2>2, <3>3 DEF CheckUpload, SetPublished, AskToggle, Delete
    <3> QED BY <2>1, <3>1, <3>2, <3>3 DEF Request, Product, Creating, Updating, Created, Patched
  <2>4. CASE Creating(e)
    <3>1. PICK p \in Products, b \in BOOLEAN, list \in Created, c \in Categories \cup {None} : Create(e, p, b, list, c)
      BY <2>4 DEF Creating
    <3>2. edit'[e].arg = list /\ Nameable(list)
      BY <2>2, <3>1 DEF Create
    <3> QED BY <1>a, <1>2, <3>2
  <2>5. CASE Updating(e)
    <3>1. PICK p \in Products, flag \in {None, "published", "draft"}, list \in Patched, c \in Categories \cup {None} :
             Update(e, p, flag, list, c)
      BY <2>5 DEF Updating
    <3>2. edit'[e].arg = list /\ (list # None => Nameable(list))
      BY <2>2, <3>1 DEF Update
    <3> QED BY <1>a, <1>2, <3>2
  <2> QED BY <2>3, <2>4, <2>5
<1> QED BY <1>1, <1>2

\* Rows and requests hold keys of their product only.
LEMMA OwnedStep ==
  ASSUME Form, Owned, CatalogNext
  PROVE  Owned'
<1>1. Frozen
  BY StaysFrozen
<1>2. ASSUME UNCHANGED <<row, edit>> PROVE Owned'
  BY <1>2 DEF Owned, Owns, Given, Nameable, Listed, Exists, ReadKeys
<1>3. ASSUME NEW e \in Edits, Request(e) PROVE Owned'
  <2>0. Started(e) \/ Continued(e)
    BY <1>3, EditStep
  <2>1. ASSUME NEW p \in Products, NEW k \in Listed(p)' PROVE Owns(p, k)'
    <3>1. CASE k \in Listed(p)
      BY <1>1, <3>1, OwnsStays DEF Owned
    <3>2. CASE k \notin Listed(p)
      <4>1. (Exists(p) /\ Relisted(e, p)) \/ GaveImages(e, p)
        <5>1. Exists(p)'
          BY <2>1 DEF Listed
        <5> QED BY <1>3, <2>1, <3>2, <5>1, ListedStep
      <4>2. CASE Exists(p) /\ RecordImages(e) /\ p = edit[e].p /\ k \in ToSet(NewKeys[e])
        <5>1. edit[e].op = "upload" /\ edit[e].pc = "record" /\ edit' = [edit EXCEPT ![e].pc = "ok"]
          BY <4>1, <4>2, RecordEffect
        <5>2. edit'[e].pc = "ok" /\ edit'[e].op = "upload" /\ edit'[e].p = p
          BY <4>2, <5>1 DEF Form, EditForm, EditOK, NoEdit
        <5> QED BY <4>2, <5>2 DEF Owns
      <4>3. CASE p = edit[e].p /\ k \in ToSet(edit[e].list)
        <5>1. Owns(p, k)
          BY <4>3 DEF Owned, ReadKeys
        <5> QED BY <1>1, <5>1, OwnsStays
      <4>4. CASE GaveImages(e, p)
        BY <2>1, <4>4 DEF GaveImages, Owns, Given
      <4> QED BY <2>1, <3>2, <4>1, <4>2, <4>3, <4>4 DEF Relisted
    <3> QED BY <3>1, <3>2
  <2>2. ASSUME NEW f \in Edits, NEW k \in ReadKeys(f)' PROVE Owns(edit[f].p, k)'
    <3>1. CASE edit[f] # NoEdit
      <4>1. k \in ReadKeys(f) /\ edit'[f].p = edit[f].p
        BY <1>1, <2>2, <3>1 DEF Frozen, ReadKeys
      <4> QED BY <1>1, <4>1, OwnsStays DEF Owned
    <3>2. CASE edit[f] = NoEdit /\ f # e
      <4>1. edit'[f] = edit[f]
        BY <2>0, <3>2, EditsFrozen
      <4>2. k \in ReadKeys(f)
        BY <2>2, <4>1 DEF ReadKeys
      <4> QED BY <1>1, <4>1, <4>2, OwnsStays DEF Owned
    <3>3. CASE edit[f] = NoEdit /\ f = e
      <4>1. Started(e)
        BY <2>0, <3>3 DEF Continued, EditDone, NoEdit
      <4>2. edit'[e].p \in Products \cup {None} /\ edit'[e].list = IF edit'[e].p = None THEN <<>> ELSE ImagesNow(edit'[e].p)
        BY <4>1 DEF Started, Form, EditForm, EditOK
      <4>3. ToSet(<<>>) = {}
        BY DEF ToSet
      <4>4. edit'[e].p \in Products /\ k \in Listed(edit'[e].p)
        BY <2>2, <3>3, <4>2, <4>3, RowImages DEF ReadKeys
      <4>5. Owns(edit'[e].p, k)
        BY <4>4 DEF Owned
      <4> QED BY <1>1, <3>3, <4>5, OwnsStays DEF Owns, Given
    <3> QED BY <3>1, <3>2, <3>3
  <2>3. ASSUME NEW f \in Edits, edit'[f].op \in {"create", "update"}, edit'[f].arg # None PROVE Nameable(edit[f].arg)'
    BY <1>3, <2>3, NameableStep
  <2> QED BY <2>1, <2>2, <2>3 DEF Owned
<1> QED BY <1>2, <1>3, StaysFrozen

-----------------------------------------------------------------------------
(* The objects of images.                                                      *)

\* A key that was asked to be removed stays so.
LEMMA RemovedStays ==
  ASSUME Frozen, NEW k, Removed(k)
  PROVE  Removed(k)'
<1>1. PICK e \in Edits : edit[e].op = "remove" /\ edit[e].key = k
  BY DEF Removed
<1>2. edit[e] # NoEdit
  BY <1>1, IdsDiffer DEF NoEdit
<1> QED BY <1>1, <1>2 DEF Frozen, Removed

\* No key of an upload that was answered or never came is undone, and what deletes an
\* object is removeImage of its image.
LEMMA ObjectStep ==
  ASSUME Form, NEW e \in Edits, Request(e), NEW k \in objects, k \notin objects',
         edit[e].pc = "undo" => k \notin ToSet(NewKeys[e])
  PROVE  DeleteObject(e) /\ edit[e].op = "remove" /\ edit[e].key = k /\ edit'[e].pc \in {"tags", "failed"}
<1>1. SaveImages(e) \/ UndoUpload(e) \/ DeleteObject(e)
  BY RequestFrames DEF RequestFrame
<1>2. ~SaveImages(e)
  BY DEF SaveImages
<1>3. ~UndoUpload(e)
  BY DEF UndoUpload, Go
<1>4. PICK to \in {"tags", "failed"} :
        DeleteObject(e) /\ edit[e].pc = "object" /\ edit[e].key = k /\ edit' = [edit EXCEPT ![e].pc = to]
  BY <1>1, <1>2, <1>3 DEF DeleteObject, Go
<1>5. EditOK(edit[e]) /\ DOMAIN edit = Edits
  BY DEF Form, EditForm
<1>6. edit[e].op = "remove"
  BY <1>4, <1>5 DEF EditOK
<1>7. edit'[e] = [edit[e] EXCEPT !.pc = to] /\ "pc" \in DOMAIN edit[e]
  BY <1>4, <1>5 DEF EditOK, NoEdit
<1> QED BY <1>4, <1>6, <1>7

\* Which step a request takes is told by how far it has come.
LEMMA ProceedKinds ==
  ASSUME Form, NEW e \in Edits, Request(e), edit[e].pc # "new"
  PROVE  /\ edit[e].pc \in {"tags", "words"} => edit'[e].pc \in {"words", "write", "failed"}
         /\ edit[e].pc = "write" => WriteRemaining(e) \/ edit'[e].pc = "failed"
         /\ edit[e].op = "upload" /\ edit'[e].pc = "ok" => edit[e].pc = "ok" \/ RecordImages(e)
<1>1. Proceed(e)
  <2>1. ~Started(e)
    BY DEF Started, NoEdit
  <2> QED BY <2>1, RequestStarts DEF Request
<1>2. EditOK(edit[e]) /\ DOMAIN edit = Edits /\ "pc" \in DOMAIN edit[e]
  BY DEF Form, EditForm, EditOK, NoEdit
<1>3. CASE FailQuery(e)
  <2>1. edit'[e].pc = "failed"
    BY <1>2, <1>3 DEF FailQuery, Go
  <2> QED BY <2>1
<1> SUFFICES ASSUME ~FailQuery(e)
             PROVE  /\ edit[e].pc \in {"tags", "words"} => edit'[e].pc \in {"words", "write"}
                    /\ edit[e].pc = "write" => WriteRemaining(e)
                    /\ edit[e].op = "upload" /\ edit'[e].pc = "ok" => edit[e].pc = "ok" \/ RecordImages(e)
  BY <1>3
<1>4. edit[e].pc = "tags" => edit'[e].pc = "words"
  BY <1>1, <1>2 DEF Proceed, Go, SaveImages, RecordImages, UndoUpload, DeleteObject, DeleteTags, DeleteWords, WriteRemaining,
       WriteReordered, CheckColours, ReplaceTags, WriteWords, Toggle, CountUses, DropCategory, WriteLink
<1>5. edit[e].pc = "words" => edit'[e].pc = "write"
  BY <1>1, <1>2 DEF Proceed, Go, SaveImages, RecordImages, UndoUpload, DeleteObject, DeleteTags, DeleteWords, WriteRemaining,
       WriteReordered, CheckColours, ReplaceTags, WriteWords, Toggle, CountUses, DropCategory, WriteLink
<1>6. edit[e].pc = "write" => WriteRemaining(e)
  BY <1>1 DEF Proceed, Go, SaveImages, RecordImages, UndoUpload, DeleteObject, DeleteTags, DeleteWords,
       WriteReordered, CheckColours, ReplaceTags, WriteWords, Toggle, CountUses, DropCategory, WriteLink
<1>7. ASSUME edit[e].op = "upload", edit'[e].pc = "ok", ~RecordImages(e) PROVE FALSE
  <2>1. SaveImages(e) \/ UndoUpload(e)
    BY <1>1, <1>2, <1>7 DEF EditOK, Proceed, Go, DeleteObject, DeleteTags, DeleteWords, WriteRemaining,
         WriteReordered, CheckColours, ReplaceTags, WriteWords, Toggle, CountUses, DropCategory, WriteLink
  <2> QED BY <1>2, <1>7, <2>1 DEF SaveImages, UndoUpload, Go
<1> QED BY <1>4, <1>5, <1>6, <1>7

\* A request that has come this far was asked.
LEMMA AskedFirst ==
  ASSUME NEW e \in Edits, edit[e].pc # "new"
  PROVE  edit[e] # NoEdit
BY DEF NoEdit

\* A key has had an object since the first state, or since its upload was answered.
LEMMA HadStep ==
  ASSUME Form, NEW e \in Edits, Request(e), NEW k, HadObject(k)', ~HadObject(k)
  PROVE  RecordImages(e) /\ k \in ToSet(NewKeys[e])
<1>0. Frozen /\ (Started(e) \/ Continued(e)) /\ \A f \in Edits \ {e} : edit'[f] = edit[f]
  BY EditStep, EditsFrozen
<1>1. PICK f \in Edits : edit'[f].op = "upload" /\ edit'[f].pc = "ok" /\ k \in ToSet(NewKeys[f])
  BY DEF HadObject
<1>2. f = e /\ edit'[e] # edit[e]
  BY <1>0, <1>1 DEF HadObject
<1>3. Continued(e)
  <2> SUFFICES ASSUME Started(e) PROVE FALSE
    BY <1>0
  <2>1. edit'[e].pc = "ok" => edit'[e].op # "upload"
    BY DEF Started, Form, EditForm
  <2> QED BY <1>1, <1>2, <2>1
<1>4. edit[e].pc # "new" /\ edit[e].pc # "ok"
  BY <1>3 DEF Continued, EditDone
<1>5. edit[e].op = "upload"
  BY <1>0, <1>1, <1>2, <1>4, AskedFirst DEF Frozen
<1> QED BY <1>1, <1>2, <1>4, <1>5, ProceedKinds

\* A key that had an object has it until it is asked to be removed.
LEMMA StoredStep ==
  ASSUME Form, Owned, Stored, CatalogNext
  PROVE  Stored'
<1>1. Frozen
  BY StaysFrozen
<1>2. ASSUME UNCHANGED <<row, edit, objects>> PROVE Stored'
  BY <1>2 DEF Stored, Removed, HadObject
<1>3. ASSUME NEW e \in Edits, Request(e) PROVE Stored'
  <2>0. Started(e) \/ Continued(e)
    BY <1>3, EditStep
  <2>1. ASSUME NEW k, HadObject(k), k \in objects, k \notin objects' PROVE Removed(k)'
    <3>1. edit[e].pc = "undo" => k \notin ToSet(NewKeys[e])
      BY <2>1, IdsDiffer, FirstStateIsLegal DEF HadObject
    <3>2. Removed(k)
      BY <1>3, <2>1, <3>1, ObjectStep DEF Removed
    <3> QED BY <1>1, <3>2, RemovedStays
  <2>2. ASSUME NEW f \in Edits, edit'[f].pc = "record" PROVE ToSet(NewKeys[f]) \subseteq objects'
    <3>1. CASE edit[f].pc = "record"
      <4> SUFFICES ASSUME NEW k \in ToSet(NewKeys[f]), k \notin objects' PROVE FALSE
        OBVIOUS
      <4>1. k \in objects
        BY <3>1 DEF Stored
      <4>2. edit[e].pc = "undo" => k \notin ToSet(NewKeys[e])
        BY <3>1, IdsDiffer
      <4>3. DeleteObject(e) /\ edit[e].op = "remove" /\ edit[e].key = k
        BY <1>3, <4>1, <4>2, ObjectStep
      <4>4. edit[e].p \in Products /\ k \in ReadKeys(e)
        <5>1. EditOK(edit[e])
          BY DEF Form, EditForm
        <5> QED BY <4>3, <5>1 DEF EditOK, ReadKeys, ImageOps
      <4> QED BY <3>1, <4>4, NotOwned DEF Owned
    <3>2. CASE edit[f].pc # "record"
      <4>1. f = e /\ SaveImages(e)
        <5>1. f = e
          BY <2>0, <2>2, <3>2, EditsFrozen
        <5>2. ~Started(e)
          BY <2>2, <5>1 DEF Started, Form, EditForm
        <5>3. PICK to : (to = "record" => SaveImages(e)) /\ edit' = [edit EXCEPT ![e].pc = to]
          BY <2>0, <5>2 DEF Continued
        <5>4. edit'[e].pc = to
          BY <5>3 DEF Form, EditForm, EditOK, NoEdit
        <5> QED BY <2>2, <5>1, <5>3, <5>4
      <4>2. PICK saved \in SUBSET ToSet(NewKeys[e]), ok \in BOOLEAN :
               /\ ok => saved = ToSet(NewKeys[e])
               /\ edit' = [edit EXCEPT ![e].pc = IF ok THEN "record" ELSE "failed"] /\ objects' = objects \cup saved
        BY <4>1 DEF SaveImages, Go
      <4>3. edit'[e].pc = IF ok THEN "record" ELSE "failed"
        BY <4>2 DEF Form, EditForm, EditOK, NoEdit
      <4> QED BY <2>2, <4>1, <4>2, <4>3
    <3> QED BY <3>1, <3>2
  <2>3. ASSUME NEW k, HadObject(k)' PROVE k \in objects' \/ Removed(k)'
    <3>1. CASE HadObject(k)
      <4>1. k \in objects \/ Removed(k)
        BY <3>1 DEF Stored
      <4> QED BY <1>1, <2>1, <3>1, <4>1, RemovedStays
    <3>2. CASE ~HadObject(k)
      <4>1. RecordImages(e) /\ k \in ToSet(NewKeys[e])
        BY <1>3, <2>3, <3>2, HadStep
      <4>2. edit[e].pc = "record" /\ UNCHANGED objects
        BY <4>1 DEF RecordImages, Go
      <4> QED BY <4>1, <4>2 DEF Stored
    <3> QED BY <3>1, <3>2
  <2> QED BY <2>2, <2>3 DEF Stored
<1> QED BY <1>2, <1>3, StaysFrozen

-----------------------------------------------------------------------------
(* NoDeadImage and UploadKept.                                                 *)

Excused(p, k) ==
    \/ Given(p, k) /\ ~HadObject(k)
    \/ \E e \in Edits : edit[e].op = "remove" /\ edit[e].key = k /\
         \/ edit[e].pc \in {"tags", "words", "write", "failed"} \/ Given(p, k)
         \/ edit[e].p # p /\ Given(edit[e].p, k)
         \/ \E f \in Edits \ {e} : edit[f].op \in {"remove", "primary"} /\ edit[f].p = p /\ WroteList(f) /\ k \in Written(f)

\* NoDeadImage, with its excuse named.
LEMMA NoDeadIs == NoDeadImage <=> \A p \in Products : \A k \in Listed(p) : k \in objects \/ Excused(p, k)
BY DEF NoDeadImage, Excused

\* A list that was written stays on record.
LEMMA WroteStays ==
  ASSUME Frozen, NEW f \in Edits, WroteList(f)
  PROVE  WroteList(f)' /\ edit'[f] = edit[f] /\ Written(f)' = Written(f)
<1>1. edit'[f] = edit[f]
  BY DEF Frozen, WroteList, EditDone
<1> QED BY <1>1 DEF WroteList, Written

\* A key a product was given needs no other excuse.
LEMMA GivenExcuses ==
  ASSUME Stored', NEW p, NEW k, Given(p, k)', k \notin objects'
  PROVE  Excused(p, k)'
BY DEF Stored, Removed, Excused

\* A dead key that stays in a row stays excused.
LEMMA ExcusedStays ==
  ASSUME Form, Owned, Stored', NEW e \in Edits, Request(e), NEW p \in Products, NEW k \in Listed(p), k \in Listed(p)',
         k \notin objects', Excused(p, k)
  PROVE  Excused(p, k)'
<1>0. Frozen /\ (Started(e) \/ Continued(e))
  BY EditStep, EditsFrozen
<1>1. Given(p, k) => Excused(p, k)'
  BY <1>0, GivenStays, GivenExcuses
<1>2. SUFFICES ASSUME NEW g \in Edits, edit[g].op = "remove", edit[g].key = k,
                      \/ edit[g].pc \in {"tags", "words", "write", "failed"}
                      \/ edit[g].p # p /\ Given(edit[g].p, k)
                      \/ \E f \in Edits \ {g} : edit[f].op \in {"remove", "primary"} /\ edit[f].p = p /\ WroteList(f) /\ k \in Written(f)
               PROVE  Excused(p, k)'
  BY <1>1 DEF Excused
<1>3. edit'[g].op = "remove" /\ edit'[g].key = k /\ edit'[g].p = edit[g].p
  <2>1. edit[g] # NoEdit
    BY <1>2, IdsDiffer DEF NoEdit
  <2> QED BY <1>0, <1>2, <2>1 DEF Frozen
<1>4. ASSUME edit[g].p # p, Given(edit[g].p, k) PROVE Excused(p, k)'
  <2>1. PICK q : q = edit[g].p
    OBVIOUS
  <2>2. Given(q, k)'
    BY <1>0, <1>4, <2>1, GivenStays
  <2>3. Given(edit[g].p, k)'
    BY <1>3, <2>1, <2>2 DEF Given
  <2> QED BY <1>3, <1>4, <2>3 DEF Excused
<1>5. ASSUME NEW f \in Edits \ {g}, edit[f].op \in {"remove", "primary"}, edit[f].p = p, WroteList(f), k \in Written(f)
      PROVE  Excused(p, k)'
  BY <1>0, <1>3, <1>5, WroteStays DEF Excused
<1>6. CASE edit[g].pc \in {"tags", "words", "write", "failed"}
  <2>1. CASE g # e \/ edit[g].pc = "failed"
    <3>1. edit'[g] = edit[g]
      BY <1>0, <2>1, EditsFrozen DEF Frozen, EditDone
    <3> QED BY <1>3, <1>6, <3>1 DEF Excused
  <2>2. CASE edit'[g].pc \in {"words", "write", "failed"}
    BY <1>3, <2>2 DEF Excused
  <2>3. CASE g = e /\ WriteRemaining(e)
    <3>1. edit[e].p \in Products /\ k \in ReadKeys(e)
      BY <1>2, <2>3, RemainingEffect DEF ReadKeys
    <3>2. edit[e].p # p
      <4> SUFFICES ASSUME edit[e].p = p PROVE FALSE
        OBVIOUS
      <4>1. Exists(p)
        BY DEF Listed
      <4>2. PICK list \in Seq(Keys) : RowTo(p, Relist(p, list)) /\ ToSet(list) = ToSet(edit[e].list) \ {edit[e].key}
        BY <2>3, <4>1, RemainingEffect
      <4>3. Listed(p)' = ToSet(list)
        BY <4>1, <4>2, RelistKeeps, ListedIs
      <4> QED BY <1>2, <2>3, <4>2, <4>3
    <3>3. Given(p, k) \/ Given(edit[e].p, k)
      BY <3>1, <3>2, OneOwner DEF Owned
    <3> QED BY <1>1, <1>4, <2>3, <3>2, <3>3
  <2> QED BY <1>6, <2>1, <2>2, <2>3, ProceedKinds
<1> QED BY <1>2, <1>4, <1>5, <1>6

\* No step makes a dead key without an excuse.
LEMMA NoDeadStep ==
  ASSUME Form, Owned, Stored, NoDeadImage, CatalogNext
  PROVE  NoDeadImage'
<1>0. Frozen /\ Stored'
  BY StaysFrozen, StoredStep
<1>2. ASSUME UNCHANGED <<row, edit, objects>> PROVE NoDeadImage'
  BY <1>2 DEF NoDeadImage, Given, HadObject, Listed, Exists, WroteList, Written
<1>3. ASSUME NEW e \in Edits, Request(e) PROVE NoDeadImage'
  <2> SUFFICES ASSUME NEW p \in Products, NEW k \in Listed(p)', k \notin objects' PROVE Excused(p, k)'
    BY DEF NoDeadImage, Excused
  <2>a. Frozen
    BY <1>0
  <2>b. Given(p, k) => Excused(p, k)'
    BY <1>0, GivenStays, GivenExcuses
  <2>1. CASE k \in Listed(p) /\ k \in objects
    <3>1. edit[e].pc = "undo" => k \notin ToSet(NewKeys[e])
      BY <2>1, NotOwned DEF Owned
    <3>2. DeleteObject(e) /\ edit[e].op = "remove" /\ edit[e].key = k /\ edit'[e].pc \in {"tags", "failed"}
      BY <1>3, <2>1, <3>1, ObjectStep
    <3>3. edit[e] # NoEdit
      BY <3>2, AskedFirst DEF DeleteObject, Go
    <3> QED BY <2>a, <3>2, <3>3 DEF Excused, Frozen
  <2>2. CASE k \in Listed(p) /\ k \notin objects
    BY <1>0, <1>3, <2>2, NoDeadIs, ExcusedStays
  <2>3. CASE k \notin Listed(p)
    <3>1. (Relisted(e, p) /\ Exists(p)) \/ GaveImages(e, p)
      <4>1. Exists(p)'
        BY DEF Listed
      <4> QED BY <1>3, <2>3, <4>1, ListedStep
    <3>2. ~(RecordImages(e) /\ k \in ToSet(NewKeys[e]))
      <4> SUFFICES ASSUME RecordImages(e), k \in ToSet(NewKeys[e]) PROVE FALSE
        OBVIOUS
      <4>1. edit[e].pc = "record" /\ UNCHANGED objects
        BY DEF RecordImages, Go
      <4> QED BY <4>1 DEF Stored
    <3>3. ASSUME Exists(p), WriteRemaining(e) \/ WriteReordered(e), k \in ToSet(edit[e].list), p = edit[e].p,
                 WriteRemaining(e) => k # edit[e].key
          PROVE  Excused(p, k)'
      <4>1. UNCHANGED objects
        BY <3>3 DEF WriteRemaining, WriteReordered
      <4>2. CASE HadObject(k)
        <5>2. PICK g \in Edits : edit[g].op = "remove" /\ edit[g].key = k
          BY <4>1, <4>2 DEF Stored, Removed
        <5>3. edit[e].op = (IF WriteRemaining(e) THEN "remove" ELSE "primary") /\ edit' = [edit EXCEPT ![e].pc = "ok"] /\ edit[e].pc # "new"
          BY <3>3, RemainingEffect, ReorderEffect
        <5>4. g # e
          BY <3>3, <5>2, <5>3
        <5>5. edit'[g].op = "remove" /\ edit'[g].key = k
          <6>1. edit[g] # NoEdit
            BY <5>2, IdsDiffer DEF NoEdit
          <6> QED BY <2>a, <5>2, <6>1 DEF Frozen
        <5>6. edit'[e].pc = "ok"
          BY <5>3 DEF Form, EditForm, EditOK, NoEdit
        <5>7. edit'[e].op = edit[e].op /\ edit'[e].p = edit[e].p /\ edit'[e].key = edit[e].key /\ edit'[e].list = edit[e].list
          BY <2>a, <5>3, AskedFirst DEF Frozen
        <5>8. WroteList(e)' /\ k \in Written(e)'
          <6>1. CASE WriteRemaining(e)
            BY <3>3, <5>3, <5>6, <5>7, <6>1 DEF WroteList, Written
          <6>2. CASE ~WriteRemaining(e)
            BY <3>3, <5>3, <5>6, <5>7, <6>2 DEF WroteList, Written
          <6> QED BY <6>1, <6>2
        <5> QED BY <3>3, <5>3, <5>4, <5>5, <5>7, <5>8 DEF Excused
      <4>3. CASE ~HadObject(k)
        <5>1. Owns(p, k)
          BY <3>3 DEF Owned, ReadKeys
        <5>2. Given(p, k)
          BY <4>3, <5>1 DEF Owns, HadObject
        <5> QED BY <2>b, <5>2
      <4> QED BY <4>2, <4>3
    <3>4. ~(WriteRemaining(e) /\ WriteReordered(e))
      BY DEF WriteRemaining, WriteReordered, Go
    <3>5. CASE GaveImages(e, p)
      <4>1. Given(p, k)'
        BY <3>5 DEF GaveImages, Given
      <4> QED BY <1>0, <4>1, GivenExcuses
    <3> QED BY <2>3, <3>1, <3>2, <3>3, <3>4, <3>5 DEF Relisted
  <2> QED BY <2>1, <2>2, <2>3
<1> QED BY <1>2, <1>3, StaysFrozen

\* A product that is created is no request's yet.
LEMMA BornStep ==
  ASSUME Form, NEW e \in Edits, Request(e), NEW p \in Products, ~Exists(p), Exists(p)'
  PROVE  \A f \in Edits : edit[f].p # p
<1>1. PICK q \in Products, r \in Rows \cup {None} : RowWritten(e, q, r)
  BY RowStep DEF RowWrite, Exists
<1>2. q = p /\ r # None
  BY <1>1 DEF RowWritten, RowTo, Exists
<1> QED BY <1>1, <1>2 DEF RowWritten

Kept(e, p, k) ==
    \/ ~Exists(p) \/ k \in Listed(p)
    \/ \E f \in Edits \ {e} : WroteList(f) /\ edit[f].p = p /\ k \notin Written(f)

\* UploadKept, with its cases named, now and after a step.
LEMMA KeptIs ==
  /\ UploadKept <=> \A e \in Edits : edit[e].op = "upload" /\ edit[e].pc = "ok" =>
                       \A p, k : p = edit[e].p /\ k \in ToSet(NewKeys[e]) => Kept(e, p, k)
  /\ UploadKept' <=> \A e \in Edits : edit'[e].op = "upload" /\ edit'[e].pc = "ok" =>
                       \A p, k : p = edit'[e].p /\ k \in ToSet(NewKeys[e]) => Kept(e, p, k)'
<1>1. UploadKept <=> \A e \in Edits : edit[e].op = "upload" /\ edit[e].pc = "ok" =>
                       \A p, k : p = edit[e].p /\ k \in ToSet(NewKeys[e]) => Kept(e, p, k)
  BY DEF UploadKept, Kept
<1>2. UploadKept' <=> \A e \in Edits : edit'[e].op = "upload" /\ edit'[e].pc = "ok" =>
                       \A p, k : p = edit'[e].p /\ k \in ToSet(NewKeys[e]) => Kept(e, p, k)'
  <2> DEFINE In(p) == IF row'[p] # None THEN ToSet(row'[p].images) ELSE {}
             Lost(p, e, k) == \E f \in Edits \ {e} : WroteList(f)' /\ edit'[f].p = p /\ k \notin Written(f)'
  <2>1. \A e, p, k : Kept(e, p, k)' <=> row'[p] = None \/ k \in In(p) \/ Lost(p, e, k)
    BY DEF Kept, Exists, Listed
  <2>2. UploadKept' <=> \A e \in Edits : edit'[e].op = "upload" /\ edit'[e].pc = "ok" =>
            \A k \in ToSet(NewKeys[e]) : row'[edit'[e].p] = None \/ k \in In(edit'[e].p) \/ Lost(edit'[e].p, e, k)
    BY DEF UploadKept, Exists, Listed
  <2> HIDE DEF In, Lost
  <2> QED BY <2>1, <2>2
<1> QED BY <1>1, <1>2

\* An uploaded image that is kept, or excused, stays so.
LEMMA KeptStays ==
  ASSUME Form, NEW a \in Edits, Request(a), NEW e \in Edits, edit[e].op = "upload", edit[e].pc = "ok",
         NEW p \in Products, p = edit[e].p, NEW k \in ToSet(NewKeys[e]), Kept(e, p, k)
  PROVE  Kept(e, p, k)'
<1>0. Frozen /\ (Started(a) \/ Continued(a)) /\ \A f \in Edits : EditOK(edit'[f])
  BY EditStep, EditsFrozen
<1>1. CASE ~Exists(p)
  BY <1>1, BornStep DEF Kept
<1>2. ASSUME NEW f \in Edits \ {e}, WroteList(f), edit[f].p = p, k \notin Written(f) PROVE Kept(e, p, k)'
  BY <1>0, <1>2, WroteStays DEF Kept
<1>3. CASE k \in Listed(p)
  <2>1. CASE Relisted(a, p) /\ Exists(p) /\ k \notin Listed(p)'
    <3>1. SUFFICES a # e /\ WroteList(a)' /\ edit'[a].p = p /\ k \notin Written(a)'
      BY DEF Kept
    <3>a. ASSUME edit[a].pc # "new", p = edit[a].p, edit' = [edit EXCEPT ![a].pc = "ok"]
          PROVE  /\ edit'[a].pc = "ok" /\ edit'[a].op = edit[a].op /\ edit'[a].p = p /\ edit'[a].arg = edit[a].arg
                 /\ edit'[a].key = edit[a].key /\ edit'[a].list = edit[a].list
      <4>1. edit'[a].pc = "ok"
        BY <3>a DEF Form, EditForm, EditOK, NoEdit
      <4> QED BY <1>0, <3>a, <4>1, AskedFirst DEF Frozen
    <3>2. CASE RecordImages(a) /\ p = edit[a].p /\ Listed(p)' = IF edit[a].arg THEN ToSet(NewKeys[a]) ELSE Listed(p) \cup ToSet(NewKeys[a])
      <4>1. edit[a].op = "upload" /\ edit[a].pc = "record" /\ edit' = [edit EXCEPT ![a].pc = "ok"]
        BY <2>1, <3>2, RecordEffect
      <4>2. edit[a].arg /\ k \notin ToSet(NewKeys[a])
        BY <1>3, <2>1, <3>2
      <4> QED BY <3>a, <3>2, <4>1, <4>2 DEF WroteList, Written
    <3>3. CASE WriteRemaining(a) /\ p = edit[a].p /\ Listed(p)' = ToSet(edit[a].list) \ {edit[a].key}
      <4>1. edit[a].op = "remove" /\ edit[a].pc = "write" /\ edit' = [edit EXCEPT ![a].pc = "ok"]
        BY <2>1, <3>3, RemainingEffect
      <4> QED BY <2>1, <3>a, <3>3, <4>1 DEF WroteList, Written
    <3>4. CASE WriteReordered(a) /\ p = edit[a].p /\ Listed(p)' = ToSet(edit[a].list)
      <4>1. edit[a].op = "primary" /\ edit[a].pc = "reorder" /\ edit' = [edit EXCEPT ![a].pc = "ok"]
        BY <2>1, <3>4, ReorderEffect
      <4> QED BY <2>1, <3>a, <3>4, <4>1 DEF WroteList, Written
    <3>5. CASE GaveImages(a, p) /\ edit'[a].op = "update"
      <4>1. edit'[e] = edit[e]
        BY <1>0 DEF Frozen, EditDone
      <4>2. k \notin ToSet(edit'[a].arg)
        BY <2>1, <3>5 DEF GaveImages
      <4> QED BY <3>5, <4>1, <4>2 DEF GaveImages, WroteList, Written
    <3> QED BY <2>1, <3>2, <3>3, <3>4, <3>5 DEF Relisted
  <2>2. CASE ~Exists(p)' \/ k \in Listed(p)'
    BY <2>2 DEF Kept
  <2> QED BY <1>3, <2>1, <2>2, ListedStep DEF Listed
<1> QED BY <1>1, <1>2, <1>3 DEF Kept

\* No step loses an uploaded image without a reason.
LEMMA KeptStep ==
  ASSUME Form, UploadKept, CatalogNext
  PROVE  UploadKept'
<1>1. ASSUME UNCHANGED <<row, edit>> PROVE UploadKept'
  BY <1>1 DEF UploadKept, Listed, Exists, WroteList, Written
<1>2. ASSUME NEW a \in Edits, Request(a) PROVE UploadKept'
  <2>0. Frozen /\ (Started(a) \/ Continued(a)) /\ \A f \in Edits : EditOK(edit'[f])
    BY <1>2, EditStep, EditsFrozen
  <2> SUFFICES ASSUME NEW e \in Edits, edit'[e].op = "upload", edit'[e].pc = "ok", NEW p, p = edit'[e].p, NEW k \in ToSet(NewKeys[e])
               PROVE  Kept(e, p, k)'
    BY KeptIs
  <2>1. p \in Products
    BY <2>0 DEF EditOK
  <2>2. CASE edit[e].op = "upload" /\ edit[e].pc = "ok"
    <3>1. edit'[e] = edit[e]
      BY <2>0, <2>2 DEF Frozen, EditDone
    <3>2. Kept(e, p, k)
      BY <2>2, <3>1, KeptIs
    <3> QED BY <1>2, <2>1, <2>2, <3>1, <3>2, KeptStays
  <2>3. CASE ~(edit[e].op = "upload" /\ edit[e].pc = "ok")
    <3>1. e = a
      BY <2>0, <2>3, EditsFrozen
    <3>2. edit[e] # NoEdit
      <4> SUFFICES ASSUME edit[e] = NoEdit PROVE FALSE
        OBVIOUS
      <4>1. Started(e)
        BY <2>0, <3>1 DEF Continued, EditDone, NoEdit
      <4> QED BY <4>1 DEF Started, Form, EditForm
    <3>3. edit[e].op = "upload" /\ edit[e].p = p
      BY <2>0, <3>2 DEF Frozen
    <3>4. RecordImages(e)
      <4>1. edit[e].pc # "new"
        <5>1. ~Started(e)
          BY <3>2 DEF Started
        <5> QED BY <2>0, <3>1, <5>1 DEF Continued, EditDone
      <4> QED BY <1>2, <2>3, <3>1, <3>3, <4>1, ProceedKinds
    <3>5. Exists(p)
      <4> SUFFICES ASSUME ~Exists(p) PROVE FALSE
        OBVIOUS
      <4>1. edit' = [edit EXCEPT ![e].pc = "undo"]
        BY <3>3, <3>4, RecordEffect
      <4> QED BY <4>1 DEF Form, EditForm, EditOK, NoEdit
    <3>6. PICK list \in Seq(Keys) : RowTo(p, Relist(p, list)) /\
             ToSet(list) = IF edit[e].arg THEN ToSet(NewKeys[e]) ELSE Listed(p) \cup ToSet(NewKeys[e])
      BY <3>3, <3>4, <3>5, RecordEffect
    <3>7. Listed(p)' = ToSet(list)
      <4>1. Relist(p, list) \in Rows /\ Relist(p, list).images = list
        BY <2>1, <3>5, RelistKeeps
      <4> QED BY <2>1, <3>6, <4>1, ListedIs
    <3> QED BY <3>6, <3>7 DEF Kept
  <2> QED BY <2>2, <2>3
<1> QED BY <1>1, <1>2, StaysFrozen

-----------------------------------------------------------------------------
(* While nothing overlaps.                                                     *)

\* A request that changes a row or schedules a sync is answered by that step.
Ended(e) ==
    /\ edit'[e].pc \in EditDone
    /\ \/ /\ UNCHANGED vectors
          /\ \E p \in Products, r \in Rows : RowTo(p, r) /\ Schedule(e, p, r.images, r.published)
       \/ /\ UNCHANGED sync
          /\ \E p \in Products : RowTo(p, None) /\ vectors' = {v \in vectors : v[1] # p}
       \/ UNCHANGED <<sync, vectors>> /\ edit'[e].op = "update"
       \/ /\ UNCHANGED <<sync, vectors>> /\ edit[e].pc = "reorder" /\ edit[e].op = "primary"
          /\ Exists(edit[e].p) /\ edit[e].p \in Products
          /\ \E list \in Seq(Keys) : RowTo(edit[e].p, Relist(edit[e].p, list)) /\ ToSet(list) = ToSet(edit[e].list)
       \/ /\ UNCHANGED <<row, vectors>> /\ edit[e].pc = "describe" /\ edit[e].op = "words"
          /\ Exists(edit[e].p) /\ edit[e].p \in Products
          /\ Schedule(e, edit[e].p, edit[e].list, edit[e].arg[2])

\* A step that writes a row, a vector or a sync ends its request.
LEMMA EndedStep ==
  ASSUME Form, NEW e \in Edits, Request(e)
  PROVE  UNCHANGED <<row, sync, vectors>> \/ Ended(e)
<1>0. DOMAIN edit = Edits /\ EditOK(edit[e]) /\ "pc" \in DOMAIN edit[e]
  BY DEF Form, EditForm, EditOK, NoEdit
<1>a. ASSUME NEW p \in Products, NEW b \in BOOLEAN, SetFlag(e, p, b), edit'[e].pc \in EditDone
      PROVE  UNCHANGED <<row, sync, vectors>> \/ Ended(e)
  <2>0. UNCHANGED vectors
    BY <1>a DEF SetFlag, embeddings
  <2>1. CASE Exists(p)
    <3>1. RowTo(p, Reflag(p, b)) /\ Schedule(e, p, row[p].images, b)
      BY <1>a, <2>1, FlagEffect
    <3>2. Reflag(p, b) \in Rows /\ Reflag(p, b).images = row[p].images /\ Reflag(p, b).published = b
      BY <2>1, ReflagKeeps
    <3>3. \E r \in Rows : RowTo(p, r) /\ Schedule(e, p, r.images, r.published)
      BY <3>1, <3>2
    <3> QED BY <1>a, <2>0, <3>3 DEF Ended
  <2> QED BY <1>a, <2>0, <2>1, FlagEffect
<1>b. ASSUME NEW p \in Products, NEW list \in Seq(Keys), Exists(p), RowTo(p, Relist(p, list)),
             Schedule(e, p, list, row[p].published), edit'[e].pc \in EditDone, UNCHANGED vectors
      PROVE  Ended(e)
  <2>1. Relist(p, list) \in Rows /\ Relist(p, list).images = list /\ Relist(p, list).published = row[p].published
    BY <1>b, RelistKeeps
  <2>2. \E r \in Rows : RowTo(p, r) /\ Schedule(e, p, r.images, r.published)
    BY <1>b, <2>1
  <2> QED BY <1>b, <2>2 DEF Ended
<1>1. CASE RecordImages(e)
  <2>1. UNCHANGED vectors
    BY <1>1 DEF RecordImages, embeddings
  <2>2. CASE Exists(edit[e].p)
    <3>1. edit'[e].pc = "ok"
      BY <1>0, <1>1, <2>2, RecordEffect
    <3> QED BY <1>1, <1>b, <2>1, <2>2, <3>1, RecordEffect DEF EditDone
  <2> QED BY <1>1, <2>1, <2>2, RecordEffect
<1>2. CASE WriteRemaining(e)
  <2>1. UNCHANGED vectors
    BY <1>2 DEF WriteRemaining, embeddings
  <2>2. CASE Exists(edit[e].p)
    <3>1. edit'[e].pc = "ok"
      BY <1>0, <1>2, <2>2, RemainingEffect
    <3> QED BY <1>2, <1>b, <2>1, <2>2, <3>1, RemainingEffect DEF EditDone
  <2> QED BY <1>2, <2>1, <2>2, RemainingEffect
<1>3. CASE Toggle(e)
  <2>1. edit'[e].pc \in {"ok", "notfound"}
    BY <1>0, <1>3, ToggleEffect
  <2> QED BY <1>3, <1>a, <2>1, ToggleEffect DEF EditDone
<1>4. CASE Publishing(e)
  <2>1. PICK p \in Products, b \in BOOLEAN : SetPublished(e, p, b)
    BY <1>4 DEF Publishing
  <2>2. edit'[e].pc \in {"ok", "notfound"}
    BY <1>0, <2>1 DEF SetPublished, Begin
  <2> QED BY <1>a, <2>1, <2>2 DEF EditDone, SetPublished
<1>5. CASE Creating(e)
  <2>1. PICK p \in Products, b \in BOOLEAN, list \in Created, c \in Categories \cup {None} : Create(e, p, b, list, c)
    BY <1>5 DEF Creating
  <2>2. edit'[e].pc \in {"ok", "failed"} /\ UNCHANGED vectors
    BY <1>0, <2>1 DEF Create, Begin, embeddings
  <2>3. \/ UNCHANGED <<row, sync>>
        \/ \E r \in Rows : RowTo(p, r) /\ Schedule(e, p, r.images, r.published)
    BY <2>1, CreateEffect
  <2> QED BY <2>2, <2>3 DEF EditDone, Ended
<1>6. CASE Updating(e)
  <2>1. PICK p \in Products, flag \in {None, "published", "draft"}, list \in Patched, c \in Categories \cup {None} :
           Update(e, p, flag, list, c)
    BY <1>6 DEF Updating
  <2>2. UNCHANGED <<sync, vectors>>
    BY <2>1 DEF Update, embeddings
  <2> QED BY <2>1, <2>2, UpdateEffect DEF EditDone, Ended
<1>7. ASSUME NEW p \in Products, Delete(e, p) PROVE Ended(e)
  <2>1. RowTo(p, None) /\ vectors' = {v \in vectors : v[1] # p} /\ UNCHANGED sync
    BY <1>7 DEF Delete, RowTo, Form, RowForm
  <2>2. edit'[e].pc \in {"ok", "notfound"}
    BY <1>0, <1>7 DEF Delete, Begin
  <2> QED BY <2>1, <2>2 DEF EditDone, Ended
<1>8. CASE WriteReordered(e)
  <2>1. UNCHANGED <<sync, vectors>>
    BY <1>8 DEF WriteReordered, embeddings
  <2>2. CASE Exists(edit[e].p)
    <3>1. edit'[e].pc = "ok"
      BY <1>0, <1>8, <2>2, ReorderEffect
    <3> QED BY <1>8, <2>1, <2>2, <3>1, ReorderEffect DEF EditDone, Ended
  <2> QED BY <1>8, <2>1, <2>2, ReorderEffect
<1>9. CASE WriteWords(e)
  <2>1. UNCHANGED <<row, vectors>> /\ edit[e].pc = "describe"
    BY <1>9 DEF WriteWords, Go, embeddings
  <2>2. edit[e].op = "words" /\ edit[e].p \in Products
    BY <1>0, <2>1 DEF EditOK, ImageOps
  <2>3. CASE Exists(edit[e].p)
    <3>1. edit'[e].pc = "ok" /\ Schedule(e, edit[e].p, edit[e].list, edit[e].arg[2])
      BY <1>0, <1>9, <2>3 DEF WriteWords, Go
    <3> QED BY <2>1, <2>2, <2>3, <3>1 DEF EditDone, Ended
  <2> QED BY <1>9, <2>1, <2>3 DEF WriteWords
<1>10. CASE UNCHANGED <<row, sync>> /\ ~Deleting(e)
  BY <1>10, RequestFrames DEF RequestFrame
<1> QED BY <1>1, <1>2, <1>3, <1>4, <1>5, <1>6, <1>7, <1>8, <1>9, <1>10, RequestFrames
        DEF RequestFrame, RowWriter, SyncWriter, Recording, Deleting

\* With no sync under way and no PATCH, every vector is right.
LEMMA AllRight ==
  ASSUME Frozen, InSync, \A j \in Jobs : ~Busied(j), \A f \in Edits : edit'[f].op # "update"
  PROVE  \A v \in vectors : Right(v)
<1>1. ASSUME NEW f \in Edits PROVE edit[f].op # "update"
  <2> SUFFICES ASSUME edit[f].op = "update" PROVE FALSE
    OBVIOUS
  <2>1. edit[f] # NoEdit
    BY IdsDiffer DEF NoEdit
  <2> QED BY <2>1 DEF Frozen
<1> QED BY <1>1 DEF InSync, Jobs

\* Nothing else is under way and the request is answered by a write.
LEMMA LonelyEnded ==
  ASSUME Form, Refs, Fresh, InSync, Frozen, NEW e \in Edits, Ended(e), \A j \in Jobs : ~Busied(j),
         \A f \in Edits \ {e} : ~InFlight(f) /\ edit'[f] = edit[f]
  PROVE  OneAtATime' /\ Fresh' /\ InSync'
<1>0. e \in Jobs /\ e # Script /\ SyncForm /\ RowForm /\ Edits \subseteq Jobs
  BY IdsDiffer DEF Form, Jobs
<1>1. \A f \in Edits : ~InFlight(f)'
  BY DEF Ended, InFlight
<1>2. (\A f \in Edits : edit'[f].op # "update") => \A v \in vectors : Right(v)
  BY AllRight
<1>a. \A v \in vectors : v[1] \in Products
  BY DEF Form, TableForm
<1>3. ASSUME UNCHANGED sync PROVE OneAtATime' /\ Fresh'
  <2>1. \A j \in Jobs : ~Busied(j)'
    BY <1>3 DEF Busied
  <2> QED BY <1>1, <2>1 DEF OneAtATime, Fresh
<1>4. ASSUME NEW p \in Products, NEW list \in Seq(Keys), NEW b \in BOOLEAN, Schedule(e, p, list, b), UNCHANGED vectors,
             Exists(p)', row'[p].images = list, Published(p)' = b, \A q \in Products \ {p} : row'[q] = row[q]
      PROVE  OneAtATime' /\ Fresh' /\ InSync'
  <2>1. /\ sync'[e].pc = (IF b THEN "words" ELSE "clear") /\ sync'[e].p = p /\ sync'[e].list = list
        /\ \A j \in Jobs \ {e} : sync'[j] = sync[j]
    BY <1>0, <1>4, ScheduleKeeps
  <2>2. Busied(e)' /\ \A j \in Jobs \ {e} : ~Busied(j)'
    BY <2>1 DEF Busied
  <2>3. OneAtATime'
    BY <1>1, <2>2 DEF OneAtATime
  <2>4. Published(p)' <=> sync'[e].pc # "clear"
    BY <1>4, <2>1
  <2>5. Fresh'
    BY <1>0, <1>1, <1>4, <2>1, <2>2, <2>4 DEF Fresh
  <2>6. ASSUME \A f \in Edits : edit'[f].op # "update", NEW v \in vectors, v[1] # p PROVE Right(v)'
    <3>1. Right(v) /\ row'[v[1]] = row[v[1]]
      BY <1>2, <1>4, <1>a, <2>6
    <3> QED BY <3>1 DEF Right, Published, Listed, Exists
  <2>7. InSync'
    BY <1>4, <2>1, <2>2, <2>6 DEF InSync
  <2> QED BY <2>3, <2>5, <2>7
<1>5. ASSUME UNCHANGED vectors, NEW p \in Products, NEW r \in Rows, RowTo(p, r), Schedule(e, p, r.images, r.published)
      PROVE  OneAtATime' /\ Fresh' /\ InSync'
  <2>1. r.images \in Seq(Keys) /\ r.published \in BOOLEAN /\ row'[p] = r /\ Exists(p)'
    BY <1>5, NoRowIsNone DEF Rows, RowTo, Exists
  <2>2. Published(p)' = r.published
    BY <2>1 DEF Published
  <2> QED BY <1>4, <1>5, <2>1, <2>2 DEF RowTo
<1>6. ASSUME UNCHANGED sync, NEW p \in Products, RowTo(p, None), vectors' = {v \in vectors : v[1] # p}
      PROVE  OneAtATime' /\ Fresh' /\ InSync'
  <2>1. ASSUME \A f \in Edits : edit'[f].op # "update", NEW v \in vectors' PROVE Right(v)'
    <3>1. Right(v) /\ row'[v[1]] = row[v[1]]
      BY <1>2, <1>6, <1>a, <2>1 DEF RowTo
    <3> QED BY <3>1 DEF Right, Published, Listed, Exists
  <2> QED BY <1>3, <1>6, <2>1 DEF InSync
<1>7. ASSUME UNCHANGED <<sync, vectors>>, edit'[e].op = "update" PROVE OneAtATime' /\ Fresh' /\ InSync'
  BY <1>3, <1>7 DEF InSync
<1>8. ASSUME UNCHANGED <<sync, vectors>>, edit[e].pc = "reorder", edit[e].op = "primary", Exists(edit[e].p),
             NEW p \in Products, p = edit[e].p,
             NEW list \in Seq(Keys), RowTo(p, Relist(p, list)), ToSet(list) = ToSet(edit[e].list)
      PROVE  OneAtATime' /\ Fresh' /\ InSync'
  <2>1. edit[e].list = ImagesNow(p)
    BY <1>8 DEF Fresh, InFlight, EditDone, ImageOps
  <2>2. Relist(p, list) \in Rows /\ Relist(p, list).images = list /\ Relist(p, list).published = row[p].published
    BY <1>8, RelistKeeps
  <2>3. Exists(p)' /\ Listed(p)' = Listed(p) /\ \A q \in Products \ {p} : row'[q] = row[q] /\ Listed(q)' = Listed(q)
    BY <1>8, <2>1, <2>2, ListedIs, RowImages DEF RowTo
  <2>4. Published(p)' <=> Published(p)
    BY <1>8, <2>2, <2>3 DEF Published, RowTo
  <2>5. ASSUME \A f \in Edits : edit'[f].op # "update", NEW v \in vectors' PROVE Right(v)'
    <3>1. Right(v) /\ v[1] \in Products
      BY <1>2, <1>8, <1>a, <2>5
    <3>2. CASE v[1] = p
      BY <2>3, <2>4, <3>1, <3>2 DEF Right
    <3>3. CASE v[1] # p
      BY <2>3, <3>1, <3>3 DEF Right, Published, Exists
    <3> QED BY <3>2, <3>3
  <2> QED BY <1>3, <1>8, <2>5 DEF InSync
<1>9. ASSUME UNCHANGED <<row, vectors>>, edit[e].pc = "describe", edit[e].op = "words", NEW p \in Products, p = edit[e].p,
             Exists(p), Schedule(e, p, edit[e].list, edit[e].arg[2])
      PROVE  OneAtATime' /\ Fresh' /\ InSync'
  <2>1. edit[e].list = ImagesNow(p) /\ edit[e].arg[2] = Published(p)
    BY <1>9 DEF Fresh, InFlight, EditDone, ImageOps
  <2>2. edit[e].list \in Seq(Keys) /\ row[p].images = edit[e].list
    BY <1>9, <2>1, RowImages
  <2>3. EditOK(edit[e])
    BY DEF Form, EditForm
  <2>4. edit[e].arg[2] \in BOOLEAN
    BY <1>9, <2>3 DEF EditOK
  <2>5. Published(p)' = edit[e].arg[2] /\ Exists(p)' /\ row'[p].images = edit[e].list
    BY <1>9, <2>1, <2>2 DEF Published, Exists
  <2> QED BY <1>4, <1>9, <2>2, <2>4, <2>5
<1> QED BY <1>5, <1>6, <1>7, <1>8, <1>9 DEF Ended

\* Nothing else is under way and the request begins, or goes on and writes no row.
LEMMA LonelySame ==
  ASSUME Form, Fresh, InSync, Frozen, NEW e \in Edits, Started(e) \/ Continued(e), UNCHANGED <<row, sync, vectors>>,
         \A j \in Jobs : ~Busied(j), \A f \in Edits \ {e} : ~InFlight(f) /\ edit'[f] = edit[f]
  PROVE  OneAtATime' /\ Fresh' /\ InSync'
<1>1. (\A j \in Jobs : ~Busied(j)') /\ \A f \in Edits \ {e} : ~InFlight(f)'
  BY DEF Busied, InFlight
<1>2. OneAtATime'
  BY <1>1 DEF OneAtATime
<1>3. ASSUME NEW p \in Products PROVE ImagesNow(p)' = ImagesNow(p) /\ Published(p)' = Published(p)
  BY DEF ImagesNow, Published, Exists
<1>4. ASSUME NEW p \in Products, InFlight(e)', edit'[e].op \in ImageOps, edit'[e].p = p
      PROVE  edit'[e].list = ImagesNow(p) /\ (edit'[e].op = "words" => edit'[e].arg[2] = Published(p))
  <2>1. CASE Started(e)
    <3>1. /\ edit'[e].list = (IF edit'[e].p = None THEN <<>> ELSE ImagesNow(edit'[e].p))
          /\ edit'[e].op = "words" => edit'[e].arg[2] = Published(edit'[e].p)
      BY <2>1 DEF Started, Form, EditForm
    <3> QED BY <1>4, <3>1, CatalogAssumption
  <2>2. CASE Continued(e)
    <3>1. InFlight(e) /\ edit[e] # NoEdit
      BY <2>2 DEF Continued, InFlight, EditDone, NoEdit
    <3>2. /\ edit'[e].op = edit[e].op /\ edit'[e].p = edit[e].p /\ edit'[e].arg = edit[e].arg /\ edit'[e].list = edit[e].list
      BY <3>1 DEF Frozen
    <3> QED BY <1>4, <3>1, <3>2 DEF Fresh
  <2> QED BY <2>1, <2>2
<1>5. Fresh'
  BY <1>1, <1>3, <1>4 DEF Fresh
<1>6. InSync'
  <2>1. ASSUME \A f \in Edits : edit'[f].op # "update", NEW v \in vectors' PROVE Right(v)'
    <3>1. Right(v)
      BY <2>1, AllRight
    <3> QED BY <3>1 DEF Right, Published, Listed, Exists
  <2> QED BY <2>1 DEF InSync
<1> QED BY <1>2, <1>5, <1>6

\* A request's step, when nothing overlaps.
LEMMA LonelyRequest ==
  ASSUME Form, Refs, Lonely, NEW e \in Edits, Request(e)
  PROVE  Lonely'
<1> SUFFICES ASSUME alone' PROVE OneAtATime' /\ Fresh' /\ InSync'
  BY DEF Lonely
<1>1. (Started(e) \/ Continued(e)) /\ Frozen /\ \A f \in Edits \ {e} : edit'[f] = edit[f]
  BY EditStep, EditsFrozen
<1>2. alone /\ (Quiet \/ InFlight(e))
  BY <1>1 DEF Started, Continued, InFlight
<1>3. OneAtATime /\ Fresh /\ InSync
  BY <1>2 DEF Lonely
<1>4. (\A j \in Jobs : ~Busied(j)) /\ \A f \in Edits \ {e} : ~InFlight(f)
  BY <1>2, <1>3 DEF Quiet, OneAtATime, Busied, InFlight
<1>5. UNCHANGED <<row, sync, vectors>> \/ Ended(e)
  BY EndedStep
<1> QED BY <1>1, <1>3, <1>4, <1>5, LonelySame, LonelyEnded

\* The step of a sync, when it is the only thing under way.
LEMMA LonelySync ==
  ASSUME Form, OneAtATime, Fresh, InSync, NEW j \in Jobs, Sync(j) \/ (SkipEmbedded /\ j = Script)
  PROVE  OneAtATime' /\ Fresh' /\ InSync'
<1>0. SyncForm /\ SyncOK(sync[j]) /\ DOMAIN sync = Jobs
  BY DEF Form, SyncForm
<1>a. UNCHANGED <<row, edit>>
  BY EmbeddingFrame DEF Embedding, pictures
<1>1. /\ Busied(j) /\ \A i \in Jobs \ {j} : sync'[i] = sync[i]
      /\ sync'[j].p = sync[j].p /\ sync'[j].list = sync[j].list
      /\ sync[j].pc # "clear" => sync'[j].pc # "clear"
      /\ sync[j].pc = "clear" => ~Busied(j)'
  <2>1. CASE ClearVectors(j) \/ Finish(j)
    BY <1>0, <2>1 DEF ClearVectors, Finish, Pass, Busied, SyncOK, NoSync
  <2>2. CASE ReadWords(j)
    BY <1>0, <2>2 DEF ReadWords, Busied, SyncOK, NoSync
  <2>3. CASE Embed(j)
    <3>1. PICK ok \in BOOLEAN : /\ sync[j].pc = "image"
                                /\ sync' = IF ok THEN [sync EXCEPT ![j].pc = "upsert"] ELSE [sync EXCEPT ![j].left = Tail(@)]
      BY <2>3 DEF Embed
    <3>2. CASE ok
      BY <1>0, <3>1, <3>2 DEF Busied, SyncOK, NoSync
    <3>3. CASE ~ok
      BY <1>0, <3>1, <3>3 DEF Busied, SyncOK, NoSync
    <3> QED BY <3>2, <3>3
  <2>4. CASE Upsert(j)
    BY <1>0, <2>4 DEF Upsert, Busied, SyncOK, NoSync
  <2>5. CASE SkipEmbedded /\ j = Script
    BY <1>0, <2>5 DEF SkipEmbedded, Busied, SyncOK, NoSync
  <2> QED BY <2>1, <2>2, <2>3, <2>4, <2>5 DEF Sync
<1> DEFINE p == sync[j].p
<1>2. p \in Products /\ \A i \in Jobs : Busied(i) => i = j
  <2>1. sync[j].pc # "none"
    BY <1>1 DEF Busied
  <2> QED BY <1>0, <1>1, <2>1 DEF SyncOK, OneAtATime
<1>3. \A i \in Jobs : Busied(i)' => i = j
  BY <1>1, <1>2 DEF Busied
<1>4. \A e \in Edits : ~InFlight(e)'
  BY <1>1, <1>a DEF OneAtATime, InFlight
<1>5. OneAtATime'
  BY <1>3, <1>4 DEF OneAtATime
<1>6. Exists(p) /\ sync[j].list = row[p].images /\ (Published(p) <=> sync[j].pc # "clear") /\ (j = Script => sync[j].pc # "clear")
  BY <1>1, <1>2 DEF Fresh
<1> HIDE DEF p
<1>7. Fresh'
  <2>1. \A q \in Products : (Exists(q)' <=> Exists(q)) /\ (Published(q)' <=> Published(q))
    BY <1>a DEF Exists, Published
  <2>2. ASSUME NEW i \in Jobs, NEW q \in Products, Busied(i)', sync'[i].p = q
        PROVE  /\ Exists(q)' /\ sync'[i].list = row'[q].images
               /\ Published(q)' <=> sync'[i].pc # "clear"
               /\ i = Script => sync'[i].pc # "clear"
    <3>1. i = j /\ q = p
      BY <1>1, <1>3, <2>2 DEF p
    <3> QED BY <1>1, <1>6, <1>a, <2>1, <2>2, <3>1
  <2> QED BY <1>4, <2>2 DEF Fresh
<1>8. \A v : Right(v)' <=> Right(v)
  BY <1>a DEF Right, Published, Listed, Exists
<1>9. InSync'
  <2> SUFFICES ASSUME \A e \in Edits : edit[e].op # "update", NEW v \in vectors', ~Right(v)
               PROVE  j \in Edits /\ Busied(j)' /\ sync'[j].p = v[1]
    BY <1>8, <1>a DEF InSync
  <2>1. ASSUME v \in vectors PROVE j \in Edits /\ p = v[1]
    <3>1. \E i \in Edits : Busied(i) /\ sync[i].p = v[1]
      BY <2>1 DEF InSync
    <3>2. Edits \subseteq Jobs
      BY DEF Jobs
    <3> QED BY <1>2, <3>1, <3>2 DEF p
  <2>2. v[1] = p /\ Published(p) => v[2] \notin ToSet(sync[j].list)
    BY <1>6 DEF Right, Listed
  <2>3. CASE ClearVectors(j)
    BY <2>1, <2>3 DEF ClearVectors, p
  <2>4. CASE Upsert(j)
    <3>1. v \in vectors
      <4>1. sync[j].pc = "upsert" /\ Head(sync[j].left) \in ToSet(sync[j].list)
        BY <2>4, UpsertEffect
      <4>2. PICK x : vectors' \subseteq vectors \cup {<<p, Head(sync[j].left), x>>}
        BY <1>6, <2>4, UpsertEffect DEF p
      <4> DEFINE new == <<p, Head(sync[j].left), x>>
      <4>3. new[1] = p /\ new[2] = Head(sync[j].left)
        OBVIOUS
      <4> HIDE DEF new
      <4>4. v # new
        BY <1>6, <2>2, <4>1, <4>3
      <4> QED BY <4>2, <4>4 DEF new
    <3>2. Busied(j)'
      BY <1>0, <2>4 DEF Upsert, Busied, SyncOK, NoSync
    <3> QED BY <1>1, <2>1, <3>1, <3>2 DEF p
  <2>5. CASE Finish(j)
    <3>1. sync[j].pc = "image"
      BY <2>5 DEF Finish, Pass
    <3>2. CASE j = Script
      <4>1. v \in vectors /\ Script \notin Edits
        BY <2>5, <3>2, IdsDiffer DEF Finish
      <4> QED BY <2>1, <3>2, <4>1
    <3>3. CASE j # Script
      BY <1>6, <2>1, <2>2, <2>5, <3>1, <3>3 DEF Finish, Pruned, p
    <3> QED BY <3>2, <3>3
  <2>6. CASE ReadWords(j) \/ Embed(j) \/ (SkipEmbedded /\ j = Script)
    <3>1. v \in vectors
      BY <2>6 DEF ReadWords, Embed, SkipEmbedded, embeddings
    <3>2. Busied(j)'
      <4>1. CASE ReadWords(j)
        BY <1>0, <4>1 DEF ReadWords, Busied, SyncOK, NoSync
      <4>2. CASE Embed(j)
        <5>1. PICK ok \in BOOLEAN : /\ sync[j].pc = "image"
                                    /\ sync' = IF ok THEN [sync EXCEPT ![j].pc = "upsert"] ELSE [sync EXCEPT ![j].left = Tail(@)]
          BY <4>2 DEF Embed
        <5>2. CASE ok
          BY <1>0, <5>1, <5>2 DEF Busied, SyncOK, NoSync
        <5>3. CASE ~ok
          BY <1>0, <5>1, <5>3 DEF Busied, SyncOK, NoSync
        <5> QED BY <5>2, <5>3
      <4>3. CASE SkipEmbedded /\ j = Script
        BY <1>0, <4>3 DEF SkipEmbedded, Busied, SyncOK, NoSync
      <4> QED BY <2>6, <4>1, <4>2, <4>3
    <3> QED BY <1>1, <2>1, <3>1, <3>2 DEF p
  <2> QED BY <2>3, <2>4, <2>5, <2>6 DEF Sync
<1> QED BY <1>5, <1>7, <1>9

\* While nothing overlaps, wrong vectors are those a sync is about to clear.
LEMMA LonelyStep ==
  ASSUME Form, Refs, Lonely, CatalogNext
  PROVE  Lonely'
<1>1. ASSUME NEW e \in Edits, Request(e) PROVE Lonely'
  BY <1>1, LonelyRequest
<1>2. ASSUME NEW j \in Jobs, Sync(j) \/ (SkipEmbedded /\ j = Script) PROVE Lonely'
  <2>1. UNCHANGED alone
    BY <1>2 DEF Sync, ClearVectors, ReadWords, Embed, Upsert, Finish, SkipEmbedded
  <2> QED BY <1>2, <2>1, LonelySync DEF Lonely
<1>3. ASSUME NEW q \in Products, Backfill(q) PROVE Lonely'
  <2> SUFFICES ASSUME alone' PROVE OneAtATime' /\ Fresh' /\ InSync'
    BY DEF Lonely
  <2> DEFINE r == [NoSync EXCEPT !.pc = "already", !.p = q, !.list = row[q].images]
  <2>1. /\ alone /\ Quiet /\ Published(q) /\ sync' = [sync EXCEPT ![Script] = r]
        /\ UNCHANGED <<row, edit, vectors>>
    BY <1>3 DEF Backfill, pictures, embeddings
  <2>2. r.pc = "already" /\ r.p = q /\ r.list = row[q].images
    BY DEF NoSync
  <2> HIDE DEF r
  <2>3. sync'[Script] = r /\ \A j \in Jobs \ {Script} : sync'[j] = sync[j]
    BY <2>1 DEF Form, SyncForm, Jobs
  <2>4. (\A e \in Edits : ~InFlight(e)') /\ \A j \in Jobs \ {Script} : ~Busied(j) /\ ~Busied(j)'
    BY <2>1, <2>3 DEF Quiet, InFlight, Busied
  <2>5. OneAtATime'
    BY <2>4 DEF OneAtATime
  <2>6. \A x \in Products : (Exists(x)' <=> Exists(x)) /\ (Published(x)' <=> Published(x))
    BY <2>1 DEF Exists, Published
  <2>7. Fresh'
    <3>1. Exists(q)
      BY <2>1 DEF Published
    <3> QED BY <2>1, <2>2, <2>3, <2>4, <2>6, <3>1 DEF Fresh
  <2>8. InSync'
    <3>1. \A v : Right(v)' <=> Right(v)
      BY <2>1 DEF Right, Published, Listed, Exists
    <3>2. \A e \in Edits : ~Busied(e)
      BY <2>4, IdsDiffer DEF Jobs
    <3> QED BY <2>1, <3>1, <3>2 DEF InSync, Lonely
  <2> QED BY <2>5, <2>7, <2>8
<1>4. ASSUME (\E d \in Drops : Colour(d)) \/ Palette \/ Dialect PROVE Lonely'
  <2>1. UNCHANGED <<row, edit, sync, vectors, alone>>
    BY <1>4, ColourFrame, PaletteFrame DEF pictures, embeddings
  <2> QED BY <2>1 DEF Lonely, OneAtATime, Fresh, InSync, InFlight, Busied, Right, ImagesNow, Published, Listed, Exists
<1> QED BY <1>1, <1>2, <1>3, <1>4, StepKinds DEF Embedding, Jobs

\* At rest, then, there are none.
LEMMA LonelySettles == Form /\ Lonely => SettledWhenAlone
<1> SUFFICES ASSUME Lonely, alone, Quiet, \A e \in Edits : edit[e].op # "update", NEW v \in vectors
             PROVE  Published(v[1]) /\ v[2] \in Listed(v[1])
  BY DEF SettledWhenAlone
<1>1. InSync
  BY DEF Lonely
<1> QED BY <1>1 DEF InSync, Right, Quiet, Busied, Jobs

-----------------------------------------------------------------------------
(* The first state satisfies them all. *)

\* The first state: its lists, objects and requests.
LEMMA FirstLists ==
  ASSUME Init
  PROVE  /\ \A p \in Products : Listed(p) = IF FirstRow[p] = None THEN {} ELSE ToSet(FirstRow[p].images)
         /\ \A p \in Products : Listed(p) \subseteq objects
         /\ \A e \in Edits : edit[e].pc = "new" /\ edit[e].op = None /\ edit[e].p = None /\ ReadKeys(e) = {}
<1>1. ToSet(<<>>) = {}
  BY DEF ToSet
<1> QED BY <1>1 DEF Init, Listed, Exists, NoEdit, ReadKeys

\* The first state satisfies every invariant.
LEMMA FirstState == Init => Inv /\ Owned /\ Stored /\ UploadKept /\ NoDeadImage /\ Lonely
<1> SUFFICES ASSUME Init PROVE Owned /\ Stored /\ UploadKept /\ NoDeadImage /\ Lonely
  BY BaseInit
<1>1. Owned
  <2>1. \A e \in Edits : edit[e].op \notin {"create", "update"}
    BY FirstLists, IdsDiffer
  <2> QED BY <2>1, FirstLists DEF Owned, Owns
<1>2. Stored
  BY FirstLists DEF Stored, HadObject
<1>3. UploadKept
  BY FirstLists DEF UploadKept
<1>4. NoDeadImage
  BY FirstLists DEF NoDeadImage
<1>5. Lonely
  <2>1. (\A e \in Edits : ~InFlight(e)) /\ \A j \in Jobs : ~Busied(j)
    BY FirstLists DEF InFlight, EditDone, Busied, Init, NoSync
  <2>2. \A v \in vectors : Right(v)
    <3> SUFFICES ASSUME NEW v \in FirstVectors PROVE Right(v)
      BY DEF Init
    <3>1. /\ v[1] \in Products /\ FirstRow[v[1]] # None /\ FirstRow[v[1]].published
          /\ v[2] \in ToSet(FirstRow[v[1]].images)
      BY FirstStateIsLegal
    <3>2. row = FirstRow
      BY DEF Init
    <3> QED BY <3>1, <3>2, FirstLists DEF Right, Published, Exists
  <2> QED BY <2>1, <2>2 DEF Lonely, OneAtATime, Fresh, InSync
<1> QED BY <1>1, <1>2, <1>3, <1>4, <1>5

-----------------------------------------------------------------------------
(* What follows from them. *)

\* The invariant gives the types and the references.
LEMMA InvIsTyped == Inv => TypeOK
<1> SUFFICES ASSUME Inv PROVE TypeOK
  OBVIOUS
<1>1. \A p \in Products : Exists(p) => row[p].published \in BOOLEAN /\ Listed(p) \subseteq Keys /\ Placed(row[p].category)
  <2> SUFFICES ASSUME NEW p \in Products, Exists(p)
               PROVE  row[p].published \in BOOLEAN /\ Listed(p) \subseteq Keys /\ Placed(row[p].category)
    OBVIOUS
  <2>1. row[p] \in Rows
    BY DEF Inv, Form, RowForm, Exists
  <2>2. row[p].published \in BOOLEAN /\ row[p].images \in Seq(Keys)
    BY <2>1 DEF Rows
  <2>3. ToSet(row[p].images) \subseteq Keys
    BY <2>2, ToSetOfSeq
  <2> QED BY <2>2, <2>3 DEF Inv, Refs, Listed
<1>2. \A l \in links : Exists(l[2]) /\ Cardinality(Linked(l[1], l[2])) = 1
  <2> SUFFICES ASSUME NEW l \in links PROVE Exists(l[2]) /\ Cardinality(Linked(l[1], l[2])) = 1
    OBVIOUS
  <2>1. Exists(l[2]) /\ Linked(l[1], l[2]) = {l}
    BY DEF Inv, Refs, Linked
  <2> QED BY <2>1, FS_Singleton
<1>3. \A t \in tags : Exists(t[1]) /\ t[2] \in Keys /\ t[3] \in ColoursNow
  BY DEF Inv, Form, TableForm, Refs
<1>4. \A w \in words \cup vectors : Exists(w[1]) /\ w[3] \in Texts \cup {None}
  <2>1. \A w \in words : w[3] \in Texts
    BY DEF Inv, Form, TableForm
  <2>2. \A w \in vectors : w[3] \in Texts \cup {None}
    BY DEF Inv, Form, TableForm
  <2> QED BY <2>1, <2>2 DEF Inv, Refs
<1> QED BY <1>1, <1>2, <1>3, <1>4 DEF TypeOK, Inv, Refs

-----------------------------------------------------------------------------
(* No step leaves a tagged image without a tag. *)

Excepted(t) ==
    \/ row'[t[1]] = None
    \/ \E e \in Edits : edit[e].op = "remove" /\ edit[e].p = t[1] /\ edit[e].key = t[2] /\ edit[e].pc # edit'[e].pc

\* An image that is tagged stays tagged, but for removeImage and delete.
LEMMA StaysTagged ==
  ASSUME Inv, CatalogNext, NEW t \in tags
  PROVE  (\E u \in tags' : u[1] = t[1] /\ u[2] = t[2]) \/ Excepted(t)
<1> DEFINE Twin == \E u \in tags' : u[1] = t[1] /\ u[2] = t[2]
<1>0. t \in Products \X Keys \X Colours
  BY DEF Inv, Form, TableForm
<1>1. UNCHANGED tags => Twin
  OBVIOUS
<1>2. ASSUME NEW e \in Edits, Request(e) PROVE Twin \/ Excepted(t)
  <2>1. CASE DeleteTags(e) \/ ReplaceTags(e)
    <3>1. CASE DeleteTags(e) /\ edit[e].op = "remove" /\ tags' = tags \ TagsOf(edit[e].p, edit[e].key)
      <4>1. CASE t \in TagsOf(edit[e].p, edit[e].key)
        <5>1. edit[e].p = t[1] /\ edit[e].key = t[2]
          BY <4>1 DEF TagsOf
        <5>2. edit[e].pc = "tags" /\ edit'[e].pc = "words"
          BY <3>1 DEF DeleteTags, Go, Inv, Form, EditForm, EditOK, NoEdit
        <5> QED BY <3>1, <5>1, <5>2 DEF Excepted
      <4>2. CASE t \notin TagsOf(edit[e].p, edit[e].key)
        BY <3>1, <4>2
      <4> QED BY <4>1, <4>2
    <3>2. CASE UNCHANGED tags
      BY <1>1, <3>2
    <3>3. CASE edit[e].arg # {} /\ tags' = Retagged(edit[e].p, edit[e].key, edit[e].arg)
      <4>1. CASE t \in TagsOf(edit[e].p, edit[e].key)
        <5>1. PICK c : c \in edit[e].arg
          BY <3>3
        <5>2. <<edit[e].p, edit[e].key, c>> \in tags' /\ t[1] = edit[e].p /\ t[2] = edit[e].key
          BY <3>3, <4>1, <5>1 DEF Retagged, TagsOf
        <5> QED BY <5>2
      <4>2. CASE t \notin TagsOf(edit[e].p, edit[e].key)
        BY <3>3, <4>2 DEF Retagged
      <4> QED BY <4>1, <4>2
    <3> QED BY <2>1, <3>1, <3>2, <3>3, TaggedEffect DEF Inv
  <2>2. ASSUME NEW p \in Products, Delete(e, p) PROVE Twin \/ Excepted(t)
    <3>1. row' = [row EXCEPT ![p] = None] /\ tags' = {x \in tags : x[1] # p}
      BY <2>2 DEF Delete
    <3>2. row'[p] = None
      BY <3>1 DEF Inv, Form, RowForm
    <3> QED BY <3>1, <3>2 DEF Excepted
  <2> QED BY <1>1, <1>2, <2>1, <2>2, RequestFrames DEF RequestFrame, TagWriter, Deleting
<1>3. ASSUME NEW d \in Drops, DropColour(d) PROVE Twin
  <2>1. CASE StillTagged(d)
    BY <1>1, <1>3, <2>1 DEF DropColour
  <2>2. CASE ~StillTagged(d)
    <3>1. tags' = (tags \ Held(d)) \cup {AsSentinel(x) : x \in drop[d].moved}
      BY <1>3, <2>2 DEF DropColour, Held
    <3>2. AsSentinel(t)[1] = t[1] /\ AsSentinel(t)[2] = t[2]
      BY <1>0 DEF AsSentinel
    <3>3. CASE t \in drop[d].moved
      BY <3>1, <3>2, <3>3
    <3>4. CASE t \in drop[d].gone
      <4>1. AsSentinel(t) \in tags
        BY <3>4 DEF Inv, Holding, HeldOK
      <4>2. AsSentinel(t) \notin Held(d)
        <5>1. drop[d].colour # Sentinel /\ \A x \in Held(d) : x[3] = drop[d].colour
          BY <1>3 DEF DropColour, Inv, Holding, HeldOK
        <5>2. AsSentinel(t)[3] = Sentinel
          BY <1>0 DEF AsSentinel
        <5> QED BY <5>1, <5>2
      <4> QED BY <3>1, <3>2, <4>1, <4>2
    <3>5. CASE t \notin Held(d)
      BY <3>1, <3>5
    <3> QED BY <3>3, <3>4, <3>5 DEF Held
  <2> QED BY <2>1, <2>2
<1>4. ASSUME NEW d \in Drops, Colour(d) PROVE Twin
  BY <1>1, <1>3, <1>4, ColourFrame
<1>5. ASSUME Embedding \/ Palette \/ Dialect PROVE Twin
  BY <1>1, <1>5, EmbeddingFrame, PaletteFrame
<1> QED BY <1>2, <1>4, <1>5, StepKinds
=============================================================================
