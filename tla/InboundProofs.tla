---------------------------- MODULE InboundProofs ----------------------------
(***************************************************************************)
(* Proofs about Inbound, for any window and any cap, a cap shorter than    *)
(* the window included, any traffic and any number of stops: no batch      *)
(* waits longer than the cap, the timer never cuts a burst early, no item  *)
(* is lost or flushed twice, and the messages of a batch dropped as a      *)
(* duplicate have been answered.                                           *)
(***************************************************************************)
EXTENDS Inbound, ListFacts, SequenceTheorems, TLAPS

\* The counters of the open batch.
TimingOK == age \in Nat /\ quiet \in Nat /\ left \in Nat

\* The timer was armed for the end of the window or for the cap, whichever came first, and
\* the time that has passed since has gone from `left` to both clocks.
ArmedForEither == buffer # <<>> => (quiet + left >= Window \/ age + left >= MaxWait)

TInv == TimingOK /\ FlushDeadline /\ ArmedForEither

\* What enqueue arms: never past the cap, and short of the window only because of it.
LEMMA DelayBounds ==
  ASSUME NEW a \in Nat
  PROVE  /\ Delay(a) \in Nat
         /\ a <= MaxWait => a + Delay(a) <= MaxWait
         /\ Delay(a) >= Window \/ a + Delay(a) >= MaxWait
BY InboundAssumption DEF Delay

\* A POST re-arms the timer of a batch that is within the cap, or opens a batch of age 0.
LEMMA PostTInv ==
  ASSUME TInv, NEW events, Post(events)
  PROVE  TInv'
<1> USE DEF TInv
<1>1. age' \in Nat /\ age' <= MaxWait
  BY InboundAssumption DEF Post, TimingOK, FlushDeadline
<1>2. left' = Delay(age') /\ quiet' = 0
  BY DEF Post
<1>3. TimingOK'
  BY <1>1, <1>2, DelayBounds DEF TimingOK
<1>4. FlushDeadline'
  BY <1>1, <1>2, DelayBounds DEF FlushDeadline
<1>5. ArmedForEither'
  BY <1>1, <1>2, <1>3, DelayBounds, InboundAssumption DEF ArmedForEither, TimingOK
<1> QED
  BY <1>3, <1>4, <1>5

\* A tick takes from the timer what it adds to the two clocks.
LEMMA TickTInv ==
  ASSUME TInv, Tick
  PROVE  TInv'
<1> USE InboundAssumption DEF TInv, Tick, TimingOK
<1>1. TimingOK'
  OBVIOUS
<1>2. FlushDeadline'
  BY DEF FlushDeadline
<1>3. ArmedForEither'
  BY DEF ArmedForEither
<1> QED
  BY <1>1, <1>2, <1>3

\* The batch is gone after a flush and after a stop of the process.
LEMMA EmptiedTInv ==
  ASSUME TInv, Fire \/ Crash
  PROVE  TInv'
BY DEF TInv, TimingOK, FlushDeadline, ArmedForEither, Fire, Crash

LEMMA NextTInv ==
  ASSUME TInv, [Next]_vars
  PROVE  TInv'
<1>1. CASE \E events \in Bodies : Post(events)
  BY <1>1, PostTInv
<1>2. CASE Tick
  BY <1>2, TickTInv
<1>3. CASE Fire \/ Crash
  BY <1>3, EmptiedTInv
<1>4. CASE UNCHANGED <<buffer, timing>>
  BY <1>4 DEF TInv, TimingOK, FlushDeadline, ArmedForEither, timing
<1> QED
  BY <1>1, <1>2, <1>3, <1>4 DEF Next, Turn, Lookup, LogTurn, Reply, FailTurn, Quiet, vars

\* The timing invariant holds of every behaviour of the webhook and its buffer.
THEOREM TimingInvariance == Spec => []TInv
<1>1. Init => TInv
  BY DEF Init, TInv, TimingOK, FlushDeadline, ArmedForEither
<1>2. TInv /\ [Next]_vars => TInv'
  BY NextTInv
<1> QED
  BY <1>1, <1>2, PTL DEF Spec

\* DEBOUNCE_MAX_MS is a hard cap: a continuous typer is answered.
THEOREM NoBatchPastItsCap == Spec => []FlushDeadline
<1>1. TInv => FlushDeadline
  BY DEF TInv
<1> QED
  BY <1>1, TimingInvariance, PTL

\* A flush before the cap comes only after a whole window of silence.
THEOREM NoBurstCutShort == Spec => []BurstIsOneTurn
<1>1. TInv => BurstIsOneTurn
  BY InboundAssumption DEF TInv, TimingOK, ArmedForEither, BurstIsOneTurn
<1> QED
  BY <1>1, TimingInvariance, PTL

-----------------------------------------------------------------------------
(* Lists without repetitions.                                              *)

Dedupes(g, items) ==
    g = [i \in 0..Len(items) |->
           IF i = 0 THEN <<>>
           ELSE IF items[i] \in Mids \cap ToSet(g[i-1]) THEN g[i-1] ELSE Append(g[i-1], items[i])]

\* The function behind Dedupe exists.
LEMMA DedupesExist ==
  ASSUME NEW S, NEW items, NEW N \in Nat, Len(items) = N, \A i \in 1..N : items[i] \in S
  PROVE  \E g : Dedupes(g, items)
<1> DEFINE Y == Seq(S)
           none == <<>>
           step == [i \in 1..N |-> [t \in Y |-> IF items[i] \in Mids \cap ToSet(t) THEN t ELSE Append(t, items[i])]]
<1>1. none \in Y
  OBVIOUS
<1>2. ASSUME NEW i \in 1..N, NEW t \in Y
      PROVE (IF items[i] \in Mids \cap ToSet(t) THEN t ELSE Append(t, items[i])) \in Y
  OBVIOUS
<1>3. Steps(step, N, Y)
  BY <1>2 DEF Steps
<1>4. \A i \in 1..N : \A t \in Y : step[i][t] = IF items[i] \in Mids \cap ToSet(t) THEN t ELSE Append(t, items[i])
  OBVIOUS
<1> HIDE DEF step, none, Y
<1>5. PICK f : Recurses(f, none, step, N, Y)
  BY <1>1, <1>3, Recursion
<1> USE DEF Recurses
<1>6. \A i \in 1..N : f[i] = IF items[i] \in Mids \cap ToSet(f[i-1]) THEN f[i-1] ELSE Append(f[i-1], items[i])
  <2> TAKE i \in 1..N
  <2>1. f[i-1] \in Y
    BY <1>1, <1>5
  <2> QED BY <2>1, <1>4, <1>5
<1>7. ASSUME NEW i \in 0..N
      PROVE  f[i] = IF i = 0 THEN none ELSE IF items[i] \in Mids \cap ToSet(f[i-1]) THEN f[i-1] ELSE Append(f[i-1], items[i])
  <2>1. i # 0 => i \in 1..N
    BY <1>1
  <2> QED BY <2>1, <1>5, <1>6
<1>8. f = [i \in 0..N |-> f[i]]
  BY <1>5
<1>9. Dedupes(f, items)
  BY <1>1, <1>7, <1>8 DEF Dedupes, none
<1> QED BY <1>9

\* Dedupe keeps the items and drops repetitions only.
LEMMA DedupeKeeps ==
  ASSUME NEW S, NEW items \in Seq(S)
  PROVE  Dedupe(items) \in Seq(S) /\ ToSet(Dedupe(items)) = ToSet(items)
<1> DEFINE N == Len(items)
           g == CHOOSE h : Dedupes(h, items)
           Upto(i) == {items[j] : j \in 1..i}
           T == {i \in Nat : i <= N => g[i] \in Seq(S) /\ ToSet(g[i]) = Upto(i)}
<1>1. Dedupes(g, items)
  <2>1. N \in Nat /\ Len(items) = N /\ \A i \in 1..N : items[i] \in S
    OBVIOUS
  <2>2. \E h : Dedupes(h, items)
    <3> HIDE DEF N
    <3> QED BY <2>1, DedupesExist
  <2> QED BY <2>2
<1>2. Dedupe(items) = g[N]
  BY DEF Dedupe, Dedupes
<1>3. N \in Nat /\ Len(items) = N /\ \A i \in 1..N : items[i] \in S
  OBVIOUS
<1>4. ToSet(items) = Upto(N)
  BY DEF ToSet
<1> HIDE DEF g, N
<1>5. /\ g[0] = <<>>
      /\ \A i \in 0..N : i # 0 => g[i] = IF items[i] \in Mids \cap ToSet(g[i-1]) THEN g[i-1] ELSE Append(g[i-1], items[i])
  <2>1. \A i \in 0..N : g[i] = IF i = 0 THEN <<>>
                              ELSE IF items[i] \in Mids \cap ToSet(g[i-1]) THEN g[i-1] ELSE Append(g[i-1], items[i])
    BY <1>1, <1>3 DEF Dedupes
  <2>2. 0 \in 0..N
    BY <1>3
  <2> QED BY <2>1, <2>2
<1>6. 0 \in T
  <2>1. <<>> \in Seq(S) /\ ToSet(<<>>) = {} /\ Upto(0) = {}
    BY DEF ToSet
  <2> QED BY <2>1, <1>5
<1>7. ASSUME NEW i \in Nat, i \in T PROVE i + 1 \in T
  <2> SUFFICES ASSUME i + 1 <= N
               PROVE  g[i+1] \in Seq(S) /\ ToSet(g[i+1]) = Upto(i+1)
    OBVIOUS
  <2>1. g[i] \in Seq(S) /\ ToSet(g[i]) = Upto(i)
    BY <1>3, <1>7
  <2>2. i + 1 \in 0..N /\ i + 1 # 0 /\ (i + 1) - 1 = i /\ i + 1 \in 1..N
    BY <1>3
  <2>3. g[i+1] = IF items[i+1] \in Mids \cap ToSet(g[i]) THEN g[i] ELSE Append(g[i], items[i+1])
    BY <2>2, <1>5
  <2>4. Upto(i+1) = Upto(i) \cup {items[i+1]}
    <3>1. 1..(i+1) = 1..i \cup {i+1}
      OBVIOUS
    <3> QED BY <3>1
  <2>5. CASE items[i+1] \notin Mids \cap ToSet(g[i])
    <3>1. Append(g[i], items[i+1]) \in Seq(S) /\ ToSet(Append(g[i], items[i+1])) = ToSet(g[i]) \cup {items[i+1]}
      BY <1>3, <2>1, <2>2, ToSetOfAppend
    <3> HIDE DEF Upto
    <3> QED BY <3>1, <2>1, <2>3, <2>4, <2>5
  <2>6. CASE items[i+1] \in Mids \cap ToSet(g[i])
    <3> HIDE DEF Upto
    <3> QED BY <2>1, <2>3, <2>4, <2>6
  <2> QED BY <2>5, <2>6
<1> HIDE DEF T
<1>8. N \in T
  BY <1>3, <1>6, <1>7, Induction
<1> QED BY <1>2, <1>3, <1>4, <1>8 DEF T

-----------------------------------------------------------------------------
(* The batches.                                                            *)

Batch == [items : Seq(Items), phase : Running \cup Settled]
ItemsOf == [i \in DOMAIN turns |-> turns[i].items]

\* The items of a batch are messages.
LEMMA BatchItems ==
  ASSUME turns \in Seq(Batch)
  PROVE  /\ DOMAIN turns = 1..Len(turns) /\ Len(turns) \in Nat
         /\ \A i \in 1..Len(turns) : turns[i].items \in Seq(Items)
<1>1. \A i \in 1..Len(turns) : turns[i] \in Batch
  OBVIOUS
<1>2. \A r \in Batch : r.items \in Seq(Items)
  BY DEF Batch
<1> QED BY <1>1, <1>2

\* A flush puts one more batch at the end.
LEMMA OneMore ==
  ASSUME turns \in Seq(Batch), NEW r \in Batch, turns' = Append(turns, r)
  PROVE  /\ turns' \in Seq(Batch) /\ DOMAIN turns \subseteq DOMAIN turns'
         /\ \A i \in DOMAIN turns : turns'[i] = turns[i]
         /\ \A i \in DOMAIN turns' \ DOMAIN turns : turns'[i] = r
         /\ Taken' = Taken \o r.items
<1>1. /\ turns' \in Seq(Batch) /\ DOMAIN turns = 1..Len(turns) /\ DOMAIN turns' = 1..Len(turns)+1
      /\ turns'[Len(turns)+1] = r /\ \A i \in 1..Len(turns) : turns'[i] = turns[i]
      /\ Len(turns) \in Nat
  OBVIOUS
<1>2. ItemsOf \in Seq(Seq(Items)) /\ r.items \in Seq(Items)
  <2> DEFINE L == Seq(Items)
  <2>1. \A i \in 1..Len(turns) : turns[i].items \in L
    BY BatchItems DEF L
  <2>2. r.items \in L
    BY DEF Batch
  <2> HIDE DEF L
  <2>3. [i \in 1..Len(turns) |-> turns[i].items] \in Seq(L)
    BY <1>1, <2>1
  <2> QED BY <1>1, <2>2, <2>3 DEF ItemsOf, L
<1>3. ItemsOf' = Append(ItemsOf, r.items)
  BY <1>1 DEF ItemsOf
<1>4. Taken' = Taken \o r.items
  BY <1>2, <1>3, FlattenAppend DEF Taken, ItemsOf
<1> QED BY <1>1, <1>4

\* A key is a list of ids and places, and two batches of one key have the same messages.
LEMMA KeyNames ==
  ASSUME turns \in Seq(Batch), NEW i \in DOMAIN turns
  PROVE  /\ BatchKey(i) \in Seq(Mids \cup Nat)
         /\ MidsOf(i) = {m \in Mids : \E k \in DOMAIN BatchKey(i) : BatchKey(i)[k] = m}
<1> DEFINE batch == Dedupe(turns[i].items)
<1>1. turns[i].items \in Seq(Items)
  BY BatchItems
<1>2. batch \in Seq(Items) /\ ToSet(batch) = ToSet(turns[i].items)
  BY <1>1, DedupeKeeps
<1>3. BatchKey(i) = [k \in DOMAIN batch |-> IF batch[k] \in Mids THEN batch[k] ELSE k - 1]
  BY DEF BatchKey
<1> HIDE DEF batch
<1>4. DOMAIN batch = 1..Len(batch) /\ Len(batch) \in Nat /\ ToSet(batch) = {batch[k] : k \in 1..Len(batch)}
  BY <1>2 DEF ToSet
<1>5. \A k \in 1..Len(batch) : (IF batch[k] \in Mids THEN batch[k] ELSE k - 1) \in Mids \cup Nat
  <2>1. \A k \in 1..Len(batch) : k - 1 \in Nat
    BY <1>4
  <2> QED BY <2>1
<1>6. BatchKey(i) \in Seq(Mids \cup Nat)
  BY <1>3, <1>4, <1>5
<1>7. \A m \in Mids : m \in ToSet(batch) <=> \E k \in DOMAIN BatchKey(i) : BatchKey(i)[k] = m
  <2> TAKE m \in Mids
  <2>1. m \notin Nat
    BY InboundAssumption
  <2>2. \A k \in 1..Len(batch) : batch[k] = m <=> BatchKey(i)[k] = m
    <3>1. \A k \in 1..Len(batch) : k - 1 # m
      <4>1. \A k \in 1..Len(batch) : k - 1 \in Nat
        BY <1>4
      <4> QED BY <2>1, <4>1
    <3> QED BY <1>3, <1>4, <3>1
  <2> QED BY <1>3, <1>4, <2>2
<1> QED BY <1>2, <1>6, <1>7 DEF MidsOf

LEMMA SameKeySameMids ==
  ASSUME turns \in Seq(Batch), NEW i \in DOMAIN turns, NEW j \in DOMAIN turns, BatchKey(j) = BatchKey(i)
  PROVE  MidsOf(i) \subseteq MidsOf(j)
BY KeyNames

\* A batch that comes further keeps its items, and so do the others.
LEMMA SameItems ==
  ASSUME DOMAIN turns' = DOMAIN turns, \A i \in DOMAIN turns : turns'[i].items = turns[i].items
  PROVE  /\ Taken' = Taken
         /\ \A i \in DOMAIN turns : BatchKey(i)' = BatchKey(i) /\ MidsOf(i)' = MidsOf(i)
<1>1. [i \in DOMAIN turns' |-> turns'[i].items] = [i \in DOMAIN turns |-> turns[i].items]
  OBVIOUS
<1> QED BY <1>1 DEF Taken, BatchKey, MidsOf

-----------------------------------------------------------------------------
(* The invariant.                                                          *)

Answering == {"logged", "replied", "lost"}

\* A key in the table is that of a batch that was logged, whatever became of it since.
RowsHaveTurns ==
    \A key \in rows : \E j \in DOMAIN turns : BatchKey(j) = key /\ turns[j].phase \in Answering

BInv == TypeOK /\ ItemsConserved /\ RowsHaveTurns /\ DuplicateHasAnswer

\* What batches came to stays; those under way come further, and new ones are no duplicates.
Onward ==
    /\ DOMAIN turns \subseteq DOMAIN turns'
    /\ \A i \in DOMAIN turns : turns'[i].items = turns[i].items
    /\ \A i \in DOMAIN turns : turns[i].phase \in Answering => turns'[i].phase \in Answering
    /\ \A i \in DOMAIN turns : turns'[i].phase = "duplicate" => turns[i].phase = "duplicate"
    /\ \A i \in DOMAIN turns' \ DOMAIN turns : turns'[i].phase # "duplicate"

\* Where no batch turns out a duplicate and no key is new, the answers stay.
LEMMA OnwardKeeps ==
  ASSUME RowsHaveTurns, DuplicateHasAnswer, Onward, rows' = rows
  PROVE  RowsHaveTurns' /\ DuplicateHasAnswer'
<1>1. \A i \in DOMAIN turns : BatchKey(i)' = BatchKey(i) /\ MidsOf(i)' = MidsOf(i) /\ i \in DOMAIN turns'
  BY DEF Onward, BatchKey, MidsOf
<1>2. RowsHaveTurns'
  <2> SUFFICES ASSUME NEW key \in rows
               PROVE  \E j \in DOMAIN turns' : BatchKey(j)' = key /\ turns'[j].phase \in Answering
    BY DEF RowsHaveTurns
  <2>1. PICK j \in DOMAIN turns : BatchKey(j) = key /\ turns[j].phase \in Answering
    BY DEF RowsHaveTurns
  <2> QED BY <1>1, <2>1 DEF Onward
<1>3. DuplicateHasAnswer'
  <2> SUFFICES ASSUME NEW i \in DOMAIN turns', turns'[i].phase = "duplicate"
               PROVE  \E j \in DOMAIN turns' \ {i} : MidsOf(i)' \subseteq MidsOf(j)' /\ turns'[j].phase \in Answering
    BY DEF DuplicateHasAnswer, Answering
  <2>1. i \in DOMAIN turns /\ turns[i].phase = "duplicate"
    BY DEF Onward
  <2>2. PICK j \in DOMAIN turns \ {i} : MidsOf(i) \subseteq MidsOf(j) /\ turns[j].phase \in Answering
    BY <2>1 DEF DuplicateHasAnswer, Answering
  <2> QED BY <1>1, <2>1, <2>2 DEF Onward
<1> QED BY <1>2, <1>3

\* A POST adds what it carries to the batch and to the history.
LEMMA PostBInv ==
  ASSUME BInv, NEW events \in Bodies, Post(events)
  PROVE  BInv'
<1>1. events \in Seq(Items)
  <2>1. \A m, n \in Items : <<m>> \in Seq(Items) /\ <<m, n>> \in Seq(Items)
    OBVIOUS
  <2>2. (\E m \in Items : events = <<m>>) \/ \E m, n \in Items : events = <<m, n>>
    BY DEF Bodies
  <2> QED BY <2>1, <2>2
<1>2. Dedupe(events) \in Seq(Items)
  BY <1>1, DedupeKeeps
<1>3. TypeOK'
  <2>1. buffer' \in Seq(Items) /\ accepted' \in Seq(Items)
    BY <1>2 DEF Post, BInv, TypeOK
  <2>2. age' \in Nat /\ quiet' \in Nat /\ left' \in Nat
    <3>1. age' \in Nat
      BY DEF Post, BInv, TypeOK
    <3> QED BY <3>1, DelayBounds DEF Post
  <2>3. sent' \in 0..MaxSent
    <3>1. Len(events) \in Nat
      BY <1>1
    <3> QED BY <3>1, InboundAssumption DEF Post, BInv, TypeOK
  <2> QED BY <2>1, <2>2, <2>3 DEF Post, BInv, TypeOK
<1>4. ItemsConserved'
  <2>1. Taken' = Taken
    BY DEF Post, Taken
  <2>2. Taken \in Seq(Items)
    <3> DEFINE L == Seq(Items)
    <3>1. turns \in Seq(Batch)
      BY DEF BInv, TypeOK, Batch
    <3>2. DOMAIN turns = 1..Len(turns) /\ Len(turns) \in Nat /\ \A i \in 1..Len(turns) : turns[i].items \in L
      BY <3>1, BatchItems
    <3> HIDE DEF L
    <3>3. [i \in DOMAIN turns |-> turns[i].items] \in Seq(L)
      BY <3>2
    <3> QED BY <3>3, FlattenIsSeq DEF Taken, L
  <2>3. accepted' = (Taken \o buffer) \o Dedupe(events) /\ buffer' = buffer \o Dedupe(events)
    BY DEF Post, BInv, ItemsConserved
  <2>4. (Taken \o buffer) \o Dedupe(events) = Taken \o (buffer \o Dedupe(events))
    <3>1. buffer \in Seq(Items)
      BY DEF BInv, TypeOK
    <3> DEFINE new == Dedupe(events)
               old == Taken
    <3>2. new \in Seq(Items) /\ old \in Seq(Items)
      BY <1>2, <2>2
    <3> HIDE DEF new, old
    <3>3. (old \o buffer) \o new = old \o (buffer \o new)
      BY <3>1, <3>2, ConcatAssociative
    <3> QED BY <3>3 DEF new, old
  <2> QED BY <2>1, <2>3, <2>4 DEF ItemsConserved
<1>5. Onward /\ rows' = rows
  BY DEF Post, Onward
<1> QED BY <1>3, <1>4, <1>5, OnwardKeeps DEF BInv

\* The batch leaves the buffer for a turn.
LEMMA FireBInv ==
  ASSUME BInv, Fire
  PROVE  BInv'
<1> DEFINE r == [items |-> buffer, phase |-> "flushed"]
<1>0. turns \in Seq(Batch) /\ buffer \in Seq(Items)
  BY DEF BInv, TypeOK, Batch
<1>1. r \in Batch /\ r.items = buffer /\ r.phase = "flushed"
  BY <1>0 DEF Batch, Running
<1>2. turns' = Append(turns, r)
  BY DEF Fire
<1> HIDE DEF r
<1>3. /\ turns' \in Seq(Batch) /\ DOMAIN turns \subseteq DOMAIN turns'
      /\ \A i \in DOMAIN turns : turns'[i] = turns[i]
      /\ \A i \in DOMAIN turns' \ DOMAIN turns : turns'[i] = r
      /\ Taken' = Taken \o buffer
  BY <1>0, <1>1, <1>2, OneMore
<1>4. TypeOK'
  BY <1>3 DEF Fire, BInv, TypeOK, Batch
<1>5. ItemsConserved'
  <2>1. accepted' = Taken' /\ buffer' = <<>> /\ accepted \in Seq(Items)
    BY <1>3 DEF Fire, BInv, TypeOK, ItemsConserved
  <2>2. accepted' = accepted' \o <<>>
    BY <2>1, ConcatEmptySeq DEF Fire
  <2> QED BY <2>1, <2>2 DEF ItemsConserved
<1>6. Onward /\ rows' = rows
  BY <1>1, <1>3 DEF Fire, Onward
<1> QED BY <1>4, <1>5, <1>6, OnwardKeeps DEF BInv

\* The process stops: what was under way is lost, and so is the open batch.
LEMMA CrashBInv ==
  ASSUME BInv, Crash
  PROVE  BInv'
<1> DEFINE stopped == [i \in DOMAIN turns |-> IF turns[i].phase \in Running THEN [turns[i] EXCEPT !.phase = "lost"]
                                              ELSE turns[i]]
           r == [items |-> buffer, phase |-> "lost"]
<1>0. turns \in Seq(Batch) /\ buffer \in Seq(Items)
  BY DEF BInv, TypeOK, Batch
<1>1. r \in Batch /\ r.items = buffer /\ r.phase = "lost"
  BY <1>0 DEF Batch, Settled
<1>2. /\ DOMAIN turns = 1..Len(turns) /\ Len(turns) \in Nat
      /\ \A i \in 1..Len(turns) : turns[i] \in Batch
  BY <1>0
<1>3. /\ stopped \in Seq(Batch) /\ DOMAIN stopped = DOMAIN turns /\ Len(stopped) = Len(turns)
      /\ \A i \in DOMAIN turns : /\ stopped[i].items = turns[i].items
                                 /\ stopped[i].phase = IF turns[i].phase \in Running THEN "lost" ELSE turns[i].phase
  <2>1. \A b \in Batch : /\ [b EXCEPT !.phase = "lost"] \in Batch /\ [b EXCEPT !.phase = "lost"].items = b.items
                         /\ [b EXCEPT !.phase = "lost"].phase = "lost"
    BY DEF Batch, Settled
  <2>2. \A i \in 1..Len(turns) : /\ stopped[i] \in Batch /\ stopped[i].items = turns[i].items
                                 /\ stopped[i].phase = IF turns[i].phase \in Running THEN "lost" ELSE turns[i].phase
    BY <1>2, <2>1
  <2>3. stopped = [i \in 1..Len(turns) |-> stopped[i]]
    BY <1>2
  <2> HIDE DEF stopped
  <2>4. stopped \in Seq(Batch) /\ DOMAIN stopped = DOMAIN turns /\ Len(stopped) = Len(turns)
    BY <1>2, <2>2, <2>3
  <2> QED BY <1>2, <2>2, <2>4
<1>4. turns' = stopped \o (IF buffer = <<>> THEN <<>> ELSE <<r>>)
  BY DEF Crash
<1> HIDE DEF stopped, r
<1>5. /\ turns' \in Seq(Batch) /\ DOMAIN turns \subseteq DOMAIN turns'
      /\ \A i \in DOMAIN turns : turns'[i] = stopped[i]
      /\ \A i \in DOMAIN turns' \ DOMAIN turns : turns'[i] = r
  <2>1. CASE buffer = <<>>
    <3>1. turns' = stopped
      BY <1>3, <1>4, <2>1, ConcatEmptySeq
    <3> QED BY <1>3, <3>1
  <2>2. CASE buffer # <<>>
    <3>1. turns' = Append(stopped, r)
      BY <1>1, <1>3, <1>4, <2>2
    <3>2. /\ DOMAIN turns' = 1..Len(turns)+1 /\ turns'[Len(turns)+1] = r
          /\ \A i \in 1..Len(turns) : turns'[i] = stopped[i]
          /\ turns' \in Seq(Batch)
      BY <1>1, <1>2, <1>3, <3>1
    <3> QED BY <1>2, <3>2
  <2> QED BY <2>1, <2>2
<1>6. TypeOK'
  <2>1. crashes' \in 0..MaxCrashes
    BY InboundAssumption DEF Crash, BInv, TypeOK
  <2> QED BY <1>5, <2>1 DEF Crash, BInv, TypeOK, Batch
<1>7. Taken' = Taken \o buffer
  <2> DEFINE L == Seq(Items)
             t == [i \in DOMAIN turns |-> turns[i].items]
  <2>1. t \in Seq(L)
    <3>1. \A i \in 1..Len(turns) : turns[i].items \in L
      BY <1>0, BatchItems
    <3> HIDE DEF L
    <3> QED BY <1>2, <3>1
  <2>2. [i \in DOMAIN stopped |-> stopped[i].items] = t
    BY <1>3
  <2>3. Taken = FlattenSeq(t) /\ Taken \in L
    BY <2>1, FlattenIsSeq DEF Taken
  <2>4. CASE buffer = <<>>
    <3>1. turns' = stopped
      BY <1>3, <1>4, <2>4, ConcatEmptySeq
    <3>2. [i \in DOMAIN turns' |-> turns'[i].items] = t
      BY <2>2, <3>1
    <3>3. Taken' = Taken
      BY <2>3, <3>2 DEF Taken
    <3>4. Taken \o <<>> = Taken
      BY <2>3, ConcatEmptySeq
    <3> QED BY <2>4, <3>3, <3>4
  <2>5. CASE buffer # <<>>
    <3>1. turns' = Append(stopped, r)
      BY <1>1, <1>3, <1>4, <2>5
    <3>2. /\ DOMAIN turns' = 1..Len(turns)+1 /\ turns'[Len(turns)+1] = r
          /\ \A i \in 1..Len(turns) : turns'[i] = stopped[i]
      BY <1>1, <1>2, <1>3, <3>1
    <3>3. [i \in DOMAIN turns' |-> turns'[i].items] = Append(t, buffer)
      <4>1. Len(t) = Len(turns)
        BY <1>2
      <4> QED BY <1>1, <1>2, <1>3, <3>2, <4>1
    <3>4. FlattenSeq(Append(t, buffer)) = FlattenSeq(t) \o buffer
      <4> HIDE DEF t
      <4> QED BY <1>0, <2>1, FlattenAppend DEF L
    <3> QED BY <2>3, <3>3, <3>4 DEF Taken
  <2> QED BY <2>4, <2>5
<1>8. ItemsConserved'
  <2>1. accepted' = Taken' /\ buffer' = <<>> /\ accepted' \in Seq(Items)
    BY <1>7 DEF Crash, BInv, TypeOK, ItemsConserved
  <2>2. accepted' = accepted' \o <<>>
    BY <2>1, ConcatEmptySeq
  <2> QED BY <2>1, <2>2 DEF ItemsConserved
<1>9. Onward /\ rows' = rows
  BY <1>1, <1>3, <1>5 DEF Crash, Onward, Answering, Running
<1> QED BY <1>6, <1>8, <1>9, OnwardKeeps DEF BInv

\* What a step of a turn does to the list of turns.
LEMMA MovesEffect ==
  ASSUME BInv, NEW i \in DOMAIN turns, NEW phase \in Running \cup Settled, Moves(i, phase)
  PROVE  /\ turns' \in Seq(Batch) /\ DOMAIN turns' = DOMAIN turns /\ turns'[i].phase = phase
         /\ \A j \in DOMAIN turns : turns'[j].items = turns[j].items
         /\ \A j \in DOMAIN turns \ {i} : turns'[j] = turns[j]
         /\ Taken' = Taken /\ \A j \in DOMAIN turns : BatchKey(j)' = BatchKey(j) /\ MidsOf(j)' = MidsOf(j)
<1>1. turns \in Seq(Batch)
  BY DEF BInv, TypeOK, Batch
<1>2. DOMAIN turns = 1..Len(turns) /\ Len(turns) \in Nat /\ \A j \in DOMAIN turns : turns[j] \in Batch
  BY <1>1
<1>3. \A b \in Batch : /\ [b EXCEPT !.phase = phase] \in Batch /\ [b EXCEPT !.phase = phase].items = b.items
                       /\ [b EXCEPT !.phase = phase].phase = phase
  BY DEF Batch
<1>4. turns' = [turns EXCEPT ![i] = [turns[i] EXCEPT !.phase = phase]]
  BY DEF Moves
<1>5. turns' \in Seq(Batch) /\ DOMAIN turns' = DOMAIN turns /\ turns'[i] = [turns[i] EXCEPT !.phase = phase]
      /\ \A j \in DOMAIN turns \ {i} : turns'[j] = turns[j]
  BY <1>1, <1>2, <1>3, <1>4
<1>6. turns'[i].phase = phase /\ turns'[i].items = turns[i].items
  <2>1. turns[i] \in Batch
    BY <1>2
  <2> QED BY <1>3, <1>5, <2>1
<1>7. \A j \in DOMAIN turns : turns'[j].items = turns[j].items
  BY <1>5, <1>6
<1> QED BY <1>5, <1>6, <1>7, SameItems

\* A turn looks its batch up: it is a duplicate only of one that was logged.
LEMMA LookupBInv ==
  ASSUME BInv, NEW i \in DOMAIN turns, Lookup(i)
  PROVE  BInv'
<1> DEFINE phase == IF BatchKey(i) \in rows THEN "duplicate" ELSE "working"
<1>1. phase \in Running \cup Settled /\ Moves(i, phase) /\ turns[i].phase = "flushed"
  BY DEF Lookup, Running, Settled
<1>2. /\ turns' \in Seq(Batch) /\ DOMAIN turns' = DOMAIN turns /\ turns'[i].phase = phase
      /\ \A j \in DOMAIN turns \ {i} : turns'[j] = turns[j]
      /\ Taken' = Taken /\ \A j \in DOMAIN turns : BatchKey(j)' = BatchKey(j) /\ MidsOf(j)' = MidsOf(j)
  <2> HIDE DEF phase
  <2> QED BY <1>1, MovesEffect
<1>3. TypeOK' /\ ItemsConserved'
  BY <1>2 DEF Lookup, BInv, TypeOK, timing, Batch, ItemsConserved
<1>4. RowsHaveTurns'
  <2> SUFFICES ASSUME NEW key \in rows
               PROVE  \E j \in DOMAIN turns' : BatchKey(j)' = key /\ turns'[j].phase \in Answering
    BY DEF RowsHaveTurns, Lookup
  <2>1. PICK j \in DOMAIN turns : BatchKey(j) = key /\ turns[j].phase \in Answering
    BY DEF BInv, RowsHaveTurns
  <2>2. j # i
    BY <1>1, <2>1 DEF Answering
  <2> QED BY <1>2, <2>1, <2>2
<1>5. DuplicateHasAnswer'
  <2> SUFFICES ASSUME NEW k \in DOMAIN turns, turns'[k].phase = "duplicate"
               PROVE  \E j \in DOMAIN turns \ {k} : MidsOf(k)' \subseteq MidsOf(j)' /\ turns'[j].phase \in Answering
    BY <1>2 DEF DuplicateHasAnswer, Answering
  <2>1. \E j \in DOMAIN turns \ {k} : MidsOf(k) \subseteq MidsOf(j) /\ turns[j].phase \in Answering
    <3>1. CASE k = i
      <4>1. BatchKey(i) \in rows
        BY <1>2, <3>1
      <4>2. PICK j \in DOMAIN turns : BatchKey(j) = BatchKey(i) /\ turns[j].phase \in Answering
        BY <4>1 DEF BInv, RowsHaveTurns
      <4>3. j # i
        BY <1>1, <4>2 DEF Answering
      <4>4. MidsOf(i) \subseteq MidsOf(j)
        <5>1. turns \in Seq(Batch)
          BY DEF BInv, TypeOK, Batch
        <5> QED BY <4>2, <5>1, SameKeySameMids
      <4> QED BY <3>1, <4>2, <4>3, <4>4
    <3>2. CASE k # i
      BY <1>2, <3>2 DEF BInv, DuplicateHasAnswer, Answering
    <3> QED BY <3>1, <3>2
  <2>2. PICK j \in DOMAIN turns \ {k} : MidsOf(k) \subseteq MidsOf(j) /\ turns[j].phase \in Answering
    BY <2>1
  <2>3. j # i
    BY <1>1, <2>2 DEF Answering
  <2> QED BY <1>2, <2>2, <2>3
<1> QED BY <1>3, <1>4, <1>5 DEF BInv

\* A turn is logged, replies or fails: a new key is its own.
LEMMA GoneOnBInv ==
  ASSUME BInv, NEW i \in DOMAIN turns, LogTurn(i) \/ Reply(i) \/ FailTurn(i)
  PROVE  BInv'
<1>1. PICK phase \in {"logged", "replied"} :
        /\ Moves(i, phase) /\ turns[i].phase # "duplicate"
        /\ rows' \subseteq rows \cup {BatchKey(i)} /\ (rows' # rows => phase = "logged")
        /\ UNCHANGED <<buffer, timing, sent, crashes, accepted>>
  BY DEF LogTurn, Reply, FailTurn
<1>2. /\ turns' \in Seq(Batch) /\ DOMAIN turns' = DOMAIN turns /\ turns'[i].phase = phase
      /\ \A j \in DOMAIN turns \ {i} : turns'[j] = turns[j]
      /\ Taken' = Taken /\ \A j \in DOMAIN turns : BatchKey(j)' = BatchKey(j) /\ MidsOf(j)' = MidsOf(j)
  <2>1. phase \in Running \cup Settled
    BY DEF Running, Settled
  <2> QED BY <1>1, <2>1, MovesEffect
<1>3. \A j \in DOMAIN turns : turns[j].phase \in Answering => turns'[j].phase \in Answering
  BY <1>1, <1>2 DEF Answering
<1>4. TypeOK'
  <2>1. BatchKey(i) \in Seq(Mids \cup Nat)
    <3>1. turns \in Seq(Batch)
      BY DEF BInv, TypeOK, Batch
    <3> QED BY <3>1, KeyNames
  <2>2. rows' \subseteq Seq(Mids \cup Nat)
    BY <1>1, <2>1 DEF BInv, TypeOK
  <2> QED BY <1>1, <1>2, <2>2 DEF BInv, TypeOK, timing, Batch
<1>5. ItemsConserved'
  BY <1>1, <1>2 DEF BInv, ItemsConserved
<1>6. RowsHaveTurns'
  <2> SUFFICES ASSUME NEW key \in rows'
               PROVE  \E j \in DOMAIN turns : BatchKey(j)' = key /\ turns'[j].phase \in Answering
    BY <1>2 DEF RowsHaveTurns
  <2>1. CASE key \in rows
    BY <1>2, <1>3, <2>1 DEF BInv, RowsHaveTurns
  <2>2. CASE key \notin rows
    BY <1>1, <1>2, <2>2 DEF Answering
  <2> QED BY <2>1, <2>2
<1>7. DuplicateHasAnswer'
  <2> SUFFICES ASSUME NEW k \in DOMAIN turns, turns'[k].phase = "duplicate"
               PROVE  \E j \in DOMAIN turns \ {k} : MidsOf(k)' \subseteq MidsOf(j)' /\ turns'[j].phase \in Answering
    BY <1>2 DEF DuplicateHasAnswer, Answering
  <2>1. turns[k].phase = "duplicate"
    BY <1>1, <1>2
  <2>2. PICK j \in DOMAIN turns \ {k} : MidsOf(k) \subseteq MidsOf(j) /\ turns[j].phase \in Answering
    BY <2>1 DEF BInv, DuplicateHasAnswer, Answering
  <2> QED BY <1>2, <1>3, <2>2
<1> QED BY <1>4, <1>5, <1>6, <1>7 DEF BInv

\* Time passes for the timer alone.
LEMMA TickBInv ==
  ASSUME BInv, Tick
  PROVE  BInv'
<1>1. age' \in Nat /\ quiet' \in Nat /\ left' \in Nat
  BY DEF Tick, BInv, TypeOK
<1>2. TypeOK'
  BY <1>1 DEF Tick, BInv, TypeOK
<1>3. Onward /\ UNCHANGED <<rows, turns, accepted, buffer>>
  BY DEF Tick, Onward
<1>4. ItemsConserved'
  BY <1>3 DEF BInv, ItemsConserved, Taken
<1> QED BY <1>2, <1>3, <1>4, OnwardKeeps DEF BInv

\* Nothing happens.
LEMMA StillBInv ==
  ASSUME BInv, UNCHANGED vars
  PROVE  BInv'
BY DEF BInv, TypeOK, ItemsConserved, Taken, RowsHaveTurns, DuplicateHasAnswer, BatchKey, MidsOf, vars, timing

\* The invariant of the batches holds of every behaviour of the webhook, its buffer and its
\* turns, whatever is sent twice and whenever the process stops.
THEOREM BatchInvariance == Spec => []BInv
<1>1. Init => BInv
  <2> SUFFICES ASSUME Init PROVE BInv
    OBVIOUS
  <2>1. TypeOK
    BY InboundAssumption DEF Init, TypeOK
  <2>2. Taken = <<>>
    <3>1. turns = <<>>
      BY DEF Init
    <3>2. [i \in DOMAIN turns |-> turns[i].items] = <<>>
      BY <3>1
    <3> QED BY <3>2 DEF Taken, FlattenSeq
  <2>3. ItemsConserved
    <3>1. <<>> \o <<>> = <<>>
      OBVIOUS
    <3> QED BY <2>2, <3>1 DEF Init, ItemsConserved
  <2> QED BY <2>1, <2>3 DEF Init, BInv, RowsHaveTurns, DuplicateHasAnswer
<1>2. BInv /\ [Next]_vars => BInv'
  <2> SUFFICES ASSUME BInv, [Next]_vars PROVE BInv'
    OBVIOUS
  <2>1. CASE \E events \in Bodies : Post(events)
    BY <2>1, PostBInv
  <2>2. CASE Tick
    BY <2>2, TickBInv
  <2>3. CASE Fire
    BY <2>3, FireBInv
  <2>4. CASE Crash
    BY <2>4, CrashBInv
  <2>5. CASE \E i \in DOMAIN turns : Turn(i)
    BY <2>5, LookupBInv, GoneOnBInv DEF Turn
  <2>6. CASE UNCHANGED vars
    BY <2>6, StillBInv
  <2> QED BY <2>1, <2>2, <2>3, <2>4, <2>5, <2>6 DEF Next, Quiet
<1> QED
  BY <1>1, <1>2, PTL DEF Spec

\* The buffer, the turns and the table are well typed, for any window, cap and traffic.
THEOREM InboundTypeCorrect == Spec => []TypeOK
<1>1. BInv => TypeOK
  BY DEF BInv
<1> QED
  BY <1>1, BatchInvariance, PTL

\* Every item the webhook accepted is in exactly one batch, in arrival order: neither the
\* timer nor the cap nor a stop of the process loses one unnoticed or flushes it twice.
THEOREM NoItemIsLost == Spec => []ItemsConserved
<1>1. BInv => ItemsConserved
  BY DEF BInv
<1> QED
  BY <1>1, BatchInvariance, PTL

\* A message with an id is never dropped unseen: another turn was logged with all the
\* messages of a dropped batch, and replies unless the process stops under it.
THEOREM NoSilentDuplicate == Spec => []DuplicateHasAnswer
<1>1. BInv => DuplicateHasAnswer
  BY DEF BInv
<1> QED
  BY <1>1, BatchInvariance, PTL
=============================================================================
