--------------------------- MODULE ThreadsProofs ---------------------------
(***************************************************************************)
(* Proofs about Threads, for any turns, clicks, requests and wipes.  Each  *)
(* layer adds what its property needs to the types below it: how a row may *)
(* change in one step, what the ad product was resolved from, which log    *)
(* entry a human message left, and which traces a wipe has removed so far. *)
(***************************************************************************)
EXTENDS Threads, WellFoundedInduction, TLAPS

-----------------------------------------------------------------------------
(* The most recent conversation of a customer. *)

Below == {ss \in Nat \X Nat : ss[1] < ss[2]}
LEMMA BelowIsWellFounded == IsWellFoundedOn(Below, Nat)
  BY NatLessThanWellFounded DEF OpToRel, Below

LEMMA MaxIsMember ==
  ASSUME NEW N \in Nat, NEW S \in SUBSET (1..N), S # {}
  PROVE  Max(S) \in S
<1> DEFINE T == {N - i : i \in S}
<1>1. T \subseteq Nat /\ T # {}
  OBVIOUS
<1>2. PICK m \in T : \A n \in T : ~(<<n, m>> \in Below)
  BY <1>1, WFMin, BelowIsWellFounded
<1>3. \A n \in T : ~(n < m)
  BY <1>1, <1>2 DEF Below
<1>4. PICK k \in S : m = N - k
  BY <1>2
<1>5. ASSUME NEW i \in S PROVE k >= i
  <2>1. N - i \in T
    OBVIOUS
  <2> QED BY <2>1, <1>3, <1>4
<1>6. \E x \in S : \A y \in S : x >= y
  BY <1>5
<1> QED BY <1>6 DEF Max

LEMMA FoundIsNewest ==
  ASSUME NEW p
  PROVE  IF OfPsid(p) = {} THEN FindByPsid(p) = None
                           ELSE FindByPsid(p) \in OfPsid(p) /\ FindByPsid(p) # None
<1>1. OfPsid(p) \in SUBSET (1..MaxRows)
  BY DEF OfPsid, Existing, Ids
<1>2. OfPsid(p) # {} => Max(OfPsid(p)) \in OfPsid(p)
  BY <1>1, MaxIsMember, ThreadsAssumption
<1> QED BY <1>1, <1>2, ThreadsAssumption DEF FindByPsid

-----------------------------------------------------------------------------
(* The rows. *)

RowsOK ==
    /\ rows \in [Ids -> Row \cup {None}] /\ born \in 0..MaxRows
    /\ \A i \in Ids : i > born => rows[i] = None

\* What never changes in a row: its customer, and its ad once it has one.
Follows(new, old) == new.psid = old.psid /\ (old.adId # None => new.adId = old.adId)

\* A step keeps or removes the rows there were, and numbers new ones after them.
Grown ==
    /\ born' \in Nat /\ born <= born'
    /\ \A i \in 1..born : rows'[i] # None => rows[i] # None /\ Follows(rows'[i], rows[i])

RowsKept == RowsOK' /\ Grown /\ Existing \subseteq Existing'

LEMMA UpdateStep ==
  ASSUME RowsOK, NEW c, NEW r, Update(c, r), UNCHANGED born,
         c \in Existing => r \in Row /\ Follows(r, rows[c])
  PROVE  RowsOK' /\ Grown /\ Existing' = Existing
BY NoRowIsNone DEF RowsOK, Grown, Update, Existing, Follows, Ids

LEMMA SameRows ==
  ASSUME RowsOK, UNCHANGED <<rows, born>>
  PROVE  RowsOK' /\ Grown /\ Existing' = Existing
BY ThreadsAssumption DEF RowsOK, Grown, Existing, Follows, Ids

LEMMA InsertStep ==
  ASSUME RowsOK, NEW p \in Psids, born < MaxRows,
         born' = born + 1, rows' = [rows EXCEPT ![born + 1] = NewRow(p)]
  PROVE  RowsOK' /\ Grown /\ Existing' = Existing \cup {born + 1} /\ born + 1 \in Ids \ Existing
<1>1. NewRow(p) \in Row
  BY DEF NewRow, Row, State, EmptyState
<1> QED BY <1>1, NoRowIsNone, ThreadsAssumption DEF RowsOK, Grown, Existing, Follows, Ids

LEMMA DeleteStep ==
  ASSUME RowsOK, NEW c, DeleteRow(c), UNCHANGED born
  PROVE  RowsOK' /\ Grown /\ Existing' = Existing \ {c}
<1>1. \A i \in Ids : rows'[i] = IF i = c THEN None ELSE rows[i]
  BY DEF RowsOK, DeleteRow
<1>2. rows' \in [Ids -> Row \cup {None}]
  BY DEF RowsOK, DeleteRow
<1>3. 1..born \subseteq Ids /\ born \in Nat
  BY ThreadsAssumption DEF RowsOK, Ids
<1> QED BY <1>1, <1>2, <1>3 DEF RowsOK, Grown, Existing, Follows

LEMMA MergeShape ==
  ASSUME NEW r \in Row, NEW t \in Turns
  PROVE  /\ [r EXCEPT !.state["lastProductIds"] = t] \in Row
         /\ [r EXCEPT !.state["adProduct"] = ReferralOf[t]] \in Row
<1>1. ReferralOf[t] \in Ads \cup {None}
  BY DEF Ads
<1> QED BY <1>1 DEF Row, State

\* How each step treats the rows.
LEMMA RowsStep ==
  ASSUME RowsOK, [Next]_vars
  PROVE  RowsOK' /\ Grown /\ (RowsKept \/ \E w \in Wipes : DeleteConversation(w))
<1> USE DEF RowsKept
<1>a. \A c \in Existing : rows[c] \in Row
  BY DEF RowsOK, Existing
<1>1. ASSUME NEW t \in Turns, CreateThread(t) PROVE RowsKept
  BY <1>1, InsertStep DEF CreateThread, Psids
<1>2. ASSUME NEW k \in Clicks, CreateForClick(k) PROVE RowsKept
  BY <1>2, InsertStep DEF CreateForClick, Psids
<1>3. ASSUME NEW t \in Turns, MergeShown(t) PROVE RowsKept
  <2> DEFINE r == rows[turn[t].conv]
  <2>1. r \in Row => Follows([r EXCEPT !.state["lastProductIds"] = t], r)
    BY DEF Follows, Row
  <2> QED BY <1>3, <1>a, <2>1, MergeShape, UpdateStep DEF MergeShown, MergeState
<1>4. ASSUME NEW t \in Turns, MergeAdProduct(t) PROVE RowsKept
  <2> DEFINE r == rows[turn[t].conv]
  <2>1. r \in Row => Follows([r EXCEPT !.state["adProduct"] = ReferralOf[t]], r)
    BY DEF Follows, Row
  <2> QED BY <1>4, <1>a, <2>1, MergeShape, UpdateStep DEF MergeAdProduct, MergeState
<1>5. ASSUME NEW c, NEW x \in Turns \cup Clicks, Attributable(c), UNCHANGED born,
             Update(c, [rows[c] EXCEPT !.adId = ReferralOf[x]])
      PROVE  RowsKept
  <2> DEFINE r == [rows[c] EXCEPT !.adId = ReferralOf[x]]
  <2>1. rows[c] \in Row /\ rows[c].adId = None
    BY <1>5, <1>a DEF Attributable
  <2>2. r \in Row /\ Follows(r, rows[c])
    BY <2>1 DEF Row, Follows, Ads
  <2> HIDE DEF r
  <2>3. Update(c, r)
    BY <1>5 DEF r
  <2> QED BY <1>5, <2>2, <2>3, UpdateStep
<1>6. ASSUME NEW t \in Turns, RecordFirstTouch(t) PROVE RowsKept
  BY <1>5, <1>6, SameRows DEF RecordFirstTouch
<1>7. ASSUME NEW k \in Clicks, RecordClick(k) PROVE RowsKept
  BY <1>5, <1>7, SameRows DEF RecordClick
<1>8. ASSUME NEW w \in Wipes, ClearState(w) PROVE RowsKept
  <2> DEFINE c == wipe[w].conv  r == [rows[c] EXCEPT !.state = EmptyState]
  <2>1. c \in Existing => r \in Row /\ Follows(r, rows[c])
    BY <1>a DEF Row, Follows, State, EmptyState
  <2>2. Update(c, r) /\ UNCHANGED born
    BY <1>8 DEF ClearState
  <2> HIDE DEF c, r
  <2> QED BY <2>1, <2>2, UpdateStep
<1>9. ASSUME NEW w \in Wipes, DeleteConversation(w) PROVE RowsOK' /\ Grown
  BY <1>9, DeleteStep DEF DeleteConversation
<1>10. CASE Panel
  <2>1. PICK c \in Existing, b \in BOOLEAN : SetPinned(c, b) \/ SetAiState(c, b)
    BY <1>10 DEF Panel
  <2>2. [rows[c] EXCEPT !.pinned = b] \in Row /\ Follows([rows[c] EXCEPT !.pinned = b], rows[c])
    BY <1>a DEF Row, Follows
  <2>3. [rows[c] EXCEPT !.bot = b] \in Row /\ Follows([rows[c] EXCEPT !.bot = b], rows[c])
    BY <1>a DEF Row, Follows
  <2>4. CASE SetPinned(c, b)
    BY <2>2, <2>4, UpdateStep DEF SetPinned
  <2>5. CASE SetAiState(c, b)
    BY <2>3, <2>5, UpdateStep DEF SetAiState
  <2> QED BY <2>1, <2>4, <2>5
<1>11. ASSUME NEW t \in Turns,
              FindThread(t) \/ Lookup(t) \/ LogSilent(t) \/ LogInbound(t) \/ Generate(t) \/ LogReply(t)
       PROVE  RowsKept
  BY <1>11, SameRows DEF FindThread, Lookup, LogSilent, LogInbound, Generate, BeginGenerate, UpdateWorkingMemory, EndGenerate, FailGenerate, Generating, LogReply
<1>12. ASSUME NEW k \in Clicks, OpenClick(k) PROVE RowsKept
  BY <1>12, SameRows DEF OpenClick
<1>13. ASSUME NEW s \in Sends, Dispatch(s) PROVE RowsKept
  BY <1>13, SameRows DEF Dispatch, AskSend, LookupKey, PersistHuman, SendText, RecordSent
<1>14. ASSUME NEW w \in Wipes,
              AskReset(w) \/ AskDelete(w) \/ WipeWorking(w) \/ WipeThread(w) \/ DeleteMessages(w) \/ RecordReset(w)
       PROVE  RowsKept
  BY <1>14, SameRows DEF AskReset, AskDelete, AskWipe, WipeWorking, WipeThread, DeleteMessages, RecordReset
<1>15. CASE NextWindow \/ UNCHANGED vars
  BY <1>15, SameRows DEF NextWindow, vars
<1> QED BY <1>1, <1>2, <1>3, <1>4, <1>6, <1>7, <1>8, <1>9, <1>10, <1>11, <1>12, <1>13, <1>14, <1>15
        DEF Next, Handle, Attribute, Wipe

LEMMA InitRows == Init => RowsOK
  BY ThreadsAssumption DEF Init, RowsOK, Ids

\* recordFirstTouchAttribution: the first ad a conversation was recorded with stays, in
\* whatever order the unawaited writes of turns and clicks land.
THEOREM FirstTouchStays == Spec => FirstTouchKept
<1>1. RowsOK /\ [Next]_vars =>
        [\A i \in Ids : i \in Existing /\ rows'[i] # None /\ rows[i].adId # None => rows'[i].adId = rows[i].adId]_rows
  <2> SUFFICES ASSUME RowsOK, [Next]_vars, NEW i \in Ids, i \in Existing, rows'[i] # None, rows[i].adId # None
               PROVE  rows'[i].adId = rows[i].adId
    OBVIOUS
  <2>1. i \in 1..born
    BY DEF RowsOK, Existing, Ids
  <2> QED BY <2>1, RowsStep DEF Grown, Follows
<1>2. RowsOK /\ [Next]_vars => RowsOK'
  BY RowsStep
<1> QED BY <1>1, <1>2, InitRows, PTL DEF Spec, FirstTouchKept

-----------------------------------------------------------------------------
(* The types. *)

LogOK ==
    /\ \A m \in log : m.conv \in Existing /\ m.role \in {"customer", "agent", "human"}
    /\ \A m, n \in log : m.conv = n.conv /\ m.key = n.key /\ m.key # None => m = n
MemoryOK ==
    /\ memory \in [Psids -> [working : SUBSET Turns, thread : SUBSET Turns]]
    /\ \A t \in Turns : turn[t].recalled \subseteq Turns
Shaped ==
    /\ DOMAIN turn = Turns /\ \A t \in Turns : DOMAIN turn[t] = {"pc", "conv", "bot", "key", "missed", "recalled"}
    /\ DOMAIN send = Sends /\ \A s \in Sends : DOMAIN send[s] = {"pc", "conv"}
    /\ DOMAIN wipe = Wipes
    /\ \A w \in Wipes : DOMAIN wipe[w] = {"pc", "kind", "conv", "psid", "failed", "over", "past"}
    /\ touch \in [Turns -> {"none", "record", "merge"}] /\ shown \in [Turns -> {"none", "merge"}]
    /\ window \in 0..MaxWindows

\* A turn has its conversation once it has gone on; what it left unawaited comes after.
TurnsOK ==
    \A t \in Turns :
        /\ turn[t].pc \notin {"new", "create"} => turn[t].conv \in 1..born
        /\ touch[t] # "none" => ReferralOf[t] # None /\ turn[t].pc \notin {"new", "create"}
        /\ shown[t] # "none" => turn[t].pc = "done"
TInv == RowsOK /\ LogOK /\ MemoryOK /\ Shaped /\ TurnsOK

LEMMA InitTypes == Init => TInv
<1> SUFFICES ASSUME Init PROVE TInv
  OBVIOUS
<1>1. RowsOK
  BY InitRows
<1>2. LogOK /\ MemoryOK
  BY DEF Init, LogOK, MemoryOK
<1>3. Shaped /\ TurnsOK
  BY ThreadsAssumption DEF Init, Shaped, TurnsOK
<1> QED BY <1>1, <1>2, <1>3 DEF TInv

LEMMA ShapedStep ==
  ASSUME Shaped, [Next]_vars
  PROVE  Shaped'
<1> USE DEF Shaped
<1>1. ASSUME NEW t \in Turns, FindThread(t) \/ CreateThread(t) PROVE Shaped'
  BY <1>1 DEF FindThread, CreateThread, Enter, requests
<1>2. ASSUME NEW t \in Turns, Lookup(t) \/ LogSilent(t) \/ LogInbound(t) \/ Generate(t) \/ LogReply(t)
      PROVE  Shaped'
  BY <1>2 DEF Lookup, LogSilent, LogInbound, Generate, BeginGenerate, UpdateWorkingMemory, EndGenerate, FailGenerate, Generating, LogReply, requests
<1>3. ASSUME NEW t \in Turns, MergeShown(t) \/ RecordFirstTouch(t) \/ MergeAdProduct(t)
      PROVE  Shaped'
  BY <1>3 DEF MergeShown, RecordFirstTouch, MergeAdProduct, requests
<1>4. ASSUME NEW k \in Clicks, Attribute(k) PROVE Shaped'
  BY <1>4 DEF Attribute, OpenClick, CreateForClick, RecordClick, requests
<1>5. ASSUME NEW s \in Sends, Dispatch(s) PROVE Shaped'
  BY <1>5 DEF Dispatch, AskSend, SendStep, LookupKey, PersistHuman, SendText, RecordSent, turnVars
<1>6. ASSUME NEW w \in Wipes, AskReset(w) \/ AskDelete(w) \/ WipeWorking(w) \/ WipeThread(w) PROVE Shaped'
  BY <1>6 DEF AskReset, AskDelete, AskWipe, WipeWorking, WipeThread, turnVars, requests
<1>7. ASSUME NEW w \in Wipes, ClearState(w) \/ DeleteMessages(w) \/ RecordReset(w) \/ DeleteConversation(w)
      PROVE  Shaped'
  BY <1>7 DEF ClearState, DeleteMessages, RecordReset, DeleteConversation, turnVars, requests
<1>8. CASE NextWindow
  BY <1>8, ThreadsAssumption DEF NextWindow, turnVars, requests
<1>9. CASE Panel \/ UNCHANGED vars
  BY <1>9 DEF Panel, SetPinned, SetAiState, vars, turnVars, requests
<1> QED BY <1>1, <1>2, <1>3, <1>4, <1>5, <1>6, <1>7, <1>8, <1>9 DEF Next, Handle, Wipe

\* Only the start of a generation recalls anything, and only generations and wipes write the
\* agent's memory.
LEMMA RecallStep ==
  ASSUME Shaped, [Next]_vars, NEW t \in Turns, ~BeginGenerate(t)
  PROVE  turn'[t].recalled = turn[t].recalled
<1> USE DEF Shaped
<1>1. ASSUME NEW u \in Turns, FindThread(u) \/ CreateThread(u) PROVE turn'[t].recalled = turn[t].recalled
  BY <1>1 DEF FindThread, CreateThread, Enter
<1>2. ASSUME NEW u \in Turns, Lookup(u) \/ LogSilent(u) \/ LogInbound(u) \/ LogReply(u)
      PROVE  turn'[t].recalled = turn[t].recalled
  BY <1>2 DEF Lookup, LogSilent, LogInbound, LogReply
<1>3. ASSUME NEW u \in Turns, Generate(u) PROVE turn'[t].recalled = turn[t].recalled
  BY <1>3 DEF Generate, BeginGenerate, UpdateWorkingMemory, EndGenerate, FailGenerate
<1>4. ASSUME NEW u \in Turns, MergeShown(u) \/ RecordFirstTouch(u) \/ MergeAdProduct(u) PROVE UNCHANGED turn
  BY <1>4 DEF MergeShown, RecordFirstTouch, MergeAdProduct
<1>5. (\E k \in Clicks : Attribute(k)) \/ (\E s \in Sends : Dispatch(s)) \/ (\E w \in Wipes : Wipe(w))
      \/ NextWindow \/ Panel \/ UNCHANGED vars => UNCHANGED turn
  BY DEF Attribute, OpenClick, CreateForClick, RecordClick, Dispatch, AskSend, LookupKey, PersistHuman, SendText,
     RecordSent, Wipe, AskReset, AskDelete, AskWipe, WipeWorking, WipeThread, ClearState, DeleteMessages,
     RecordReset, DeleteConversation, NextWindow, Panel, SetPinned, SetAiState, vars, turnVars
<1> QED BY <1>1, <1>2, <1>3, <1>4, <1>5 DEF Next, Handle

LEMMA MemoryUntouched ==
  ASSUME [Next]_vars, \A t \in Turns : ~(UpdateWorkingMemory(t) \/ EndGenerate(t) \/ FailGenerate(t)),
         \A w \in Wipes : ~(WipeWorking(w) \/ WipeThread(w))
  PROVE  UNCHANGED memory
<1>1. ASSUME NEW t \in Turns, Handle(t) PROVE UNCHANGED memory
  BY <1>1 DEF Handle, FindThread, CreateThread, Lookup, LogSilent, LogInbound, Generate, BeginGenerate, LogReply,
     MergeShown, RecordFirstTouch, MergeAdProduct
<1>2. ASSUME NEW k \in Clicks, Attribute(k) PROVE UNCHANGED memory
  BY <1>2 DEF Attribute, OpenClick, CreateForClick, RecordClick
<1>3. ASSUME NEW s \in Sends, Dispatch(s) PROVE UNCHANGED memory
  BY <1>3 DEF Dispatch, AskSend, LookupKey, PersistHuman, SendText, RecordSent
<1>4. ASSUME NEW w \in Wipes, Wipe(w) PROVE UNCHANGED memory
  BY <1>4 DEF Wipe, AskReset, AskDelete, AskWipe, ClearState, DeleteMessages, RecordReset, DeleteConversation
<1>5. NextWindow \/ Panel \/ UNCHANGED vars => UNCHANGED memory
  BY DEF NextWindow, Panel, SetPinned, SetAiState, vars
<1> QED BY <1>1, <1>2, <1>3, <1>4, <1>5 DEF Next

\* What a generation does to the memory of its customer, and to no other.
LEMMA GenerateMemory ==
  ASSUME MemoryOK, NEW t \in Turns, UpdateWorkingMemory(t) \/ EndGenerate(t) \/ FailGenerate(t), NEW p \in Psids
  PROVE  /\ memory' \in [Psids -> [working : SUBSET Turns, thread : SUBSET Turns]]
         /\ p # PsidOf[t] => memory'[p] = memory[p]
         /\ memory'[p].working \subseteq memory[p].working \cup turn[t].recalled \cup {t}
         /\ memory'[p].thread \subseteq memory[p].thread \cup turn[t].recalled \cup {t}
<1>0. PsidOf[t] \in Psids /\ turn[t].recalled \subseteq Turns
  BY DEF Psids, MemoryOK
<1>1. ASSUME NEW learnt \in SUBSET (memory[PsidOf[t]].working \cup turn[t].recalled \cup {t}),
             memory' = [memory EXCEPT ![PsidOf[t]].working = learnt]
      PROVE  /\ memory' \in [Psids -> [working : SUBSET Turns, thread : SUBSET Turns]]
             /\ p # PsidOf[t] => memory'[p] = memory[p]
             /\ memory'[p].working \subseteq memory[p].working \cup turn[t].recalled \cup {t}
             /\ memory'[p].thread \subseteq memory[p].thread \cup turn[t].recalled \cup {t}
  <2>1. learnt \subseteq Turns
    BY <1>0 DEF MemoryOK
  <2>2. memory'[PsidOf[t]] = [working |-> learnt, thread |-> memory[PsidOf[t]].thread]
        /\ \A q \in Psids : q # PsidOf[t] => memory'[q] = memory[q]
    BY <1>0, <1>1 DEF MemoryOK
  <2> QED BY <1>0, <1>1, <2>1, <2>2 DEF MemoryOK
<1>2. ASSUME NEW said \in SUBSET (turn[t].recalled \cup {t}), Remember(t, said)
      PROVE  /\ memory' \in [Psids -> [working : SUBSET Turns, thread : SUBSET Turns]]
             /\ p # PsidOf[t] => memory'[p] = memory[p]
             /\ memory'[p].working \subseteq memory[p].working \cup turn[t].recalled \cup {t}
             /\ memory'[p].thread \subseteq memory[p].thread \cup turn[t].recalled \cup {t}
  <2>1. said \subseteq Turns
    BY <1>0
  <2>2. memory'[PsidOf[t]] = [working |-> memory[PsidOf[t]].working, thread |-> memory[PsidOf[t]].thread \cup said]
        /\ \A q \in Psids : q # PsidOf[t] => memory'[q] = memory[q]
    BY <1>0, <1>2 DEF MemoryOK, Remember
  <2> QED BY <1>0, <1>2, <2>1, <2>2 DEF MemoryOK, Remember
<1>3. CASE UpdateWorkingMemory(t)
  BY <1>1, <1>3 DEF UpdateWorkingMemory
<1>4. CASE EndGenerate(t)
  <2>1. PICK said \in SUBSET turn[t].recalled : Remember(t, said \cup {t})
    BY <1>4 DEF EndGenerate
  <2> QED BY <1>2, <2>1
<1>5. CASE FailGenerate(t)
  <2>1. PICK said \in {{}, {t}} : Remember(t, said)
    BY <1>5 DEF FailGenerate
  <2> QED BY <1>2, <2>1
<1> QED BY <1>3, <1>4, <1>5

LEMMA MemoryStep ==
  ASSUME RowsOK, Shaped, MemoryOK, [Next]_vars
  PROVE  MemoryOK'
<1> DEFINE Kinds == [Psids -> [working : SUBSET Turns, thread : SUBSET Turns]]
<1>1. ASSUME NEW t \in Turns, UpdateWorkingMemory(t) \/ EndGenerate(t) \/ FailGenerate(t) PROVE memory' \in Kinds
  <2>1. PsidOf[t] \in Psids
    BY DEF Psids
  <2> QED BY <1>1, <2>1, GenerateMemory
<1>2. ASSUME NEW w \in Wipes, WipeWorking(w) \/ WipeThread(w) PROVE memory' \in Kinds
  <2> DEFINE p == wipe[w].psid
  <2>1. \/ UNCHANGED memory
        \/ memory' = [memory EXCEPT ![p].working = {}]
        \/ memory' = [memory EXCEPT ![p].thread = {}]
    BY <1>2 DEF WipeWorking, WipeThread
  <2>2. \A q \in Psids : memory'[q] \in [working : SUBSET Turns, thread : SUBSET Turns]
    BY <2>1 DEF MemoryOK
  <2> QED BY <2>1, <2>2 DEF MemoryOK
<1>3. UNCHANGED memory => memory' \in Kinds
  BY DEF MemoryOK
<1>4. memory' \in Kinds
  BY <1>1, <1>2, <1>3, MemoryUntouched
<1>5. ASSUME NEW t \in Turns PROVE turn'[t].recalled \subseteq Turns
  <2>1. CASE BeginGenerate(t)
    <3>1. PsidOf[t] \in Psids /\ turn'[t].recalled = memory[PsidOf[t]].working \cup memory[PsidOf[t]].thread
      BY <1>5, <2>1 DEF BeginGenerate, Psids, Shaped
    <3> QED BY <3>1 DEF MemoryOK
  <2>2. CASE ~BeginGenerate(t)
    BY <2>2, RecallStep DEF MemoryOK
  <2> QED BY <2>1, <2>2
<1> QED BY <1>4, <1>5 DEF MemoryOK

LEMMA TurnsStep ==
  ASSUME RowsOK, Shaped, TurnsOK, [Next]_vars
  PROVE  TurnsOK'
<1>0. born \in Nat /\ born' \in Nat /\ born <= born'
  BY RowsStep, ThreadsAssumption DEF Grown, RowsOK
<1>1. ASSUME NEW t \in Turns, FindThread(t) PROVE TurnsOK'
  <2>1. FindByPsid(PsidOf[t]) # None => FindByPsid(PsidOf[t]) \in 1..born
    BY FoundIsNewest, ThreadsAssumption DEF OfPsid, Existing, RowsOK, Ids
  <2>2. UNCHANGED <<born, shown>> /\ turn[t].pc = "new"
    BY <1>1 DEF FindThread
  <2> QED BY <1>1, <2>1, <2>2 DEF FindThread, Enter, TurnsOK, Shaped, Referral
<1>2. ASSUME NEW t \in Turns, CreateThread(t) PROVE TurnsOK'
  BY <1>0, <1>2 DEF CreateThread, Enter, TurnsOK, Shaped, Referral
<1>3. ASSUME NEW t \in Turns, Lookup(t) \/ LogSilent(t) \/ LogInbound(t) \/ Generate(t) \/ LogReply(t)
      PROVE  TurnsOK'
  BY <1>3 DEF Lookup, LogSilent, LogInbound, Generate, BeginGenerate, UpdateWorkingMemory, EndGenerate, FailGenerate, Generating, LogReply, TurnsOK, Shaped
<1>4. ASSUME NEW t \in Turns, MergeShown(t) \/ RecordFirstTouch(t) \/ MergeAdProduct(t)
      PROVE  TurnsOK'
  BY <1>4 DEF MergeShown, RecordFirstTouch, MergeAdProduct, TurnsOK, Shaped
<1>5. ASSUME UNCHANGED <<turn, touch, shown>> PROVE TurnsOK'
  BY <1>0, <1>5 DEF TurnsOK
<1>6. ASSUME NEW k \in Clicks, Attribute(k) PROVE UNCHANGED <<turn, touch, shown>>
  BY <1>6 DEF Attribute, OpenClick, CreateForClick, RecordClick
<1>7. ASSUME NEW s \in Sends, Dispatch(s) PROVE UNCHANGED <<turn, touch, shown>>
  BY <1>7 DEF Dispatch, AskSend, LookupKey, PersistHuman, SendText, RecordSent, turnVars
<1>8. ASSUME NEW w \in Wipes, Wipe(w) PROVE UNCHANGED <<turn, touch, shown>>
  BY <1>8 DEF Wipe, AskReset, AskDelete, AskWipe, WipeWorking, WipeThread, ClearState, DeleteMessages,
     RecordReset, DeleteConversation, turnVars
<1>9. NextWindow \/ Panel \/ UNCHANGED vars => UNCHANGED <<turn, touch, shown>>
  BY DEF NextWindow, Panel, SetPinned, SetAiState, vars, turnVars
<1> QED BY <1>1, <1>2, <1>3, <1>4, <1>5, <1>6, <1>7, <1>8, <1>9 DEF Next, Handle

\* What happens to the log: entries go with their conversation or by a wipe, and one that
\* comes does not take a key that is taken.
LEMMA Shrinks ==
  ASSUME LogOK, log' \subseteq log, \A m \in log' : m.conv \in Existing'
  PROVE  LogOK'
BY DEF LogOK

LEMMA Added ==
  ASSUME LogOK, NEW m, Insertable(m), m.role \in {"customer", "agent", "human"},
         log' = log \cup {m}, UNCHANGED rows
  PROVE  LogOK'
BY DEF LogOK, Insertable, KeyTaken, Existing

LEMMA LogRowStep ==
  ASSUME LogOK, NEW m, m.role \in {"customer", "agent", "human"}, LogRow(m), UNCHANGED rows
  PROVE  LogOK'
<1>1. CASE Insertable(m)
  BY <1>1, Added DEF LogRow
<1>2. CASE ~Insertable(m)
  BY <1>2 DEF LogRow, LogOK, Existing
<1> QED BY <1>1, <1>2

LEMMA LogStep ==
  ASSUME RowsOK, LogOK, [Next]_vars
  PROVE  LogOK'
<1>0. RowsKept /\ log' \subseteq log => LogOK'
  BY Shrinks DEF RowsKept, LogOK
<1>1. ASSUME NEW t \in Turns, LogSilent(t) \/ LogInbound(t) PROVE LogOK'
  <2>1. Message(turn[t].conv, turn[t].key, "customer", t).role = "customer"
    BY DEF Message
  <2> QED BY <1>1, <2>1, LogRowStep DEF LogSilent, LogInbound
<1>2. ASSUME NEW t \in Turns, LogReply(t) PROVE LogOK'
  <2>1. Message(turn[t].conv, None, "agent", t).role = "agent"
    BY DEF Message
  <2> QED BY <1>2, <2>1, LogRowStep DEF LogReply
<1>3. ASSUME NEW s \in Sends, PersistHuman(s) PROVE LogOK'
  <2> DEFINE m == Message(send[s].conv, KeyOf[s], "human", s)
  <2>1. m.role = "human"
    BY DEF Message
  <2>2. UNCHANGED rows /\ (log' = log \/ (Insertable(m) /\ log' = log \cup {m}))
    <3>1. CASE Insertable(m)
      BY <1>3, <3>1 DEF PersistHuman
    <3>2. CASE ~Insertable(m)
      BY <1>3, <3>2 DEF PersistHuman
    <3> QED BY <3>1, <3>2
  <2>3. log' = log => LogOK'
    BY <2>2 DEF LogOK, Existing
  <2> HIDE DEF m
  <2> QED BY <2>1, <2>2, <2>3, Added
<1>4. ASSUME NEW w \in Wipes, DeleteConversation(w) PROVE LogOK'
  <2>1. Existing' = Existing \ {wipe[w].conv} /\ log' = log \ Thread(wipe[w].conv)
    BY <1>4, DeleteStep DEF DeleteConversation, DeleteRow
  <2> QED BY <2>1, Shrinks DEF Thread, LogOK
<1>5. ASSUME \A w \in Wipes : ~DeleteConversation(w), log' \subseteq log PROVE LogOK'
  BY <1>0, <1>5, RowsStep
<1>6. ASSUME NEW t \in Turns, Handle(t), ~(LogSilent(t) \/ LogInbound(t) \/ LogReply(t)) PROVE UNCHANGED log
  BY <1>6 DEF Handle, FindThread, CreateThread, Lookup, Generate, BeginGenerate, UpdateWorkingMemory, EndGenerate, FailGenerate, Generating, MergeShown, RecordFirstTouch, MergeAdProduct
<1>7. ASSUME NEW k \in Clicks, Attribute(k) PROVE UNCHANGED log
  BY <1>7 DEF Attribute, OpenClick, CreateForClick, RecordClick
<1>8. ASSUME NEW s \in Sends, Dispatch(s), ~PersistHuman(s) PROVE UNCHANGED log
  BY <1>8 DEF Dispatch, AskSend, LookupKey, SendText, RecordSent
<1>9. ASSUME NEW w \in Wipes, Wipe(w), ~DeleteConversation(w) PROVE log' \subseteq log
  BY <1>9 DEF Wipe, AskReset, AskDelete, AskWipe, WipeWorking, WipeThread, ClearState, DeleteMessages, RecordReset
<1>10. NextWindow \/ Panel \/ UNCHANGED vars => UNCHANGED log
  BY DEF NextWindow, Panel, SetPinned, SetAiState, vars
<1> QED BY <1>1, <1>2, <1>3, <1>4, <1>5, <1>6, <1>7, <1>8, <1>9, <1>10 DEF Next

LEMMA TypesStep == TInv /\ [Next]_vars => TInv'
  BY RowsStep, LogStep, MemoryStep, ShapedStep, TurnsStep DEF TInv

\* Every reachable state is well typed: a log entry has its conversation, no key is logged
\* twice in one, and a turn that went on has one of the conversations inserted so far.
THEOREM ThreadsTypeCorrect == Spec => []TypeOK
<1>1. TInv => TypeOK
  <2> SUFFICES ASSUME TInv PROVE TypeOK
    OBVIOUS
  <2>1. \A p \in Psids : memory[p].working \cup memory[p].thread \subseteq Turns
    BY DEF TInv, MemoryOK
  <2>2. \A t \in Turns : turn[t].recalled \subseteq Turns
    BY DEF TInv, MemoryOK
  <2> QED BY <2>1, <2>2 DEF TInv, RowsOK, LogOK, Shaped, TurnsOK, TypeOK
<1> QED BY <1>1, InitTypes, TypesStep, PTL DEF Spec

-----------------------------------------------------------------------------
(* One thread, unless first messages raced. *)

\* A turn that found no thread has missed none that was there.
MissedNone ==
    \A t \in Turns : turn[t].missed # None =>
        turn[t].missed \in 0..born /\ \A i \in OfPsid(PsidOf[t]) : i > turn[t].missed

LEMMA MissedNoneStep ==
  ASSUME TInv, MissedNone, [Next]_vars
  PROVE  MissedNone'
<1>0. /\ born \in Nat /\ born' \in Nat /\ born <= born'
      /\ \A p : \A i \in OfPsid(p)' : i \in Nat /\ (i <= born => i \in OfPsid(p))
  BY RowsStep, ThreadsAssumption DEF TInv, RowsOK, Grown, Follows, OfPsid, Existing, Ids
<1>1. ASSUME NEW t \in Turns, turn'[t].missed = turn[t].missed, turn'[t].missed # None
      PROVE  turn'[t].missed \in 0..born' /\ \A i \in OfPsid(PsidOf[t])' : i > turn'[t].missed
  BY <1>0, <1>1 DEF MissedNone
<1>2. ASSUME NEW t \in Turns, FindThread(t) PROVE MissedNone'
  <2>1. OfPsid(PsidOf[t])' = OfPsid(PsidOf[t]) /\ born' = born
    BY <1>2 DEF FindThread, OfPsid, Existing
  <2>2. CASE FindByPsid(PsidOf[t]) = None
    <3>1. OfPsid(PsidOf[t]) = {}
      BY <2>2, FoundIsNewest
    <3>2. turn' = [turn EXCEPT ![t].pc = "create", ![t].missed = born]
      BY <1>2, <2>2 DEF FindThread
    <3> QED BY <1>0, <1>1, <2>1, <3>1, <3>2 DEF MissedNone, TInv, Shaped
  <2>3. CASE FindByPsid(PsidOf[t]) # None
    BY <1>1, <1>2, <2>3 DEF FindThread, Enter, MissedNone, TInv, Shaped
  <2> QED BY <2>2, <2>3
<1>3. ASSUME NEW t \in Turns, Handle(t), ~FindThread(t) PROVE \A u \in Turns : turn'[u].missed = turn[u].missed
  BY <1>3 DEF Handle, CreateThread, Enter, Lookup, LogSilent, LogInbound, Generate, BeginGenerate, UpdateWorkingMemory, EndGenerate, FailGenerate, Generating, LogReply, MergeShown,
     RecordFirstTouch, MergeAdProduct, TInv, Shaped
<1>4. ASSUME NEW k \in Clicks, Attribute(k) PROVE UNCHANGED turn
  BY <1>4 DEF Attribute, OpenClick, CreateForClick, RecordClick
<1>5. ASSUME NEW s \in Sends, Dispatch(s) PROVE UNCHANGED turn
  BY <1>5 DEF Dispatch, AskSend, LookupKey, PersistHuman, SendText, RecordSent, turnVars
<1>6. ASSUME NEW w \in Wipes, Wipe(w) PROVE UNCHANGED turn
  BY <1>6 DEF Wipe, AskReset, AskDelete, AskWipe, WipeWorking, WipeThread, ClearState, DeleteMessages,
     RecordReset, DeleteConversation, turnVars
<1>7. NextWindow \/ Panel \/ UNCHANGED vars => UNCHANGED turn
  BY DEF NextWindow, Panel, SetPinned, SetAiState, vars, turnVars
<1>8. (\A t \in Turns : turn'[t].missed = turn[t].missed) => MissedNone'
  BY <1>1 DEF MissedNone
<1> QED BY <1>2, <1>3, <1>4, <1>5, <1>6, <1>7, <1>8 DEF Next

\* findOrCreateByPsid: a turn never opens a thread beside one that was there when it looked.
THEOREM NoNeedlessSplit == Spec => []SplitOnlyByRace
<1>1. Init => MissedNone
  BY DEF Init, MissedNone
<1>2. TInv /\ MissedNone => SplitOnlyByRace
  <2> SUFFICES ASSUME TInv, MissedNone, NEW t \in Turns, turn[t].missed # None,
                      NEW i \in OfPsid(PsidOf[t])
               PROVE  ~(i <= turn[t].missed)
    BY DEF SplitOnlyByRace
  <2>1. i \in Nat /\ turn[t].missed \in Nat /\ i > turn[t].missed
    BY ThreadsAssumption DEF MissedNone, OfPsid, Existing, Ids, TInv, RowsOK
  <2> QED BY <2>1
<1>3. TInv /\ MissedNone /\ [Next]_vars => MissedNone'
  BY MissedNoneStep
<1> QED BY <1>1, <1>2, <1>3, InitTypes, TypesStep, PTL DEF Spec

-----------------------------------------------------------------------------
(* The advertised product. *)

\* persistAttribution goes on to the product only for the ad it has just recorded.
MergesRecorded ==
    \A t \in Turns : touch[t] = "merge" /\ turn[t].conv \in Existing => rows[turn[t].conv].adId = ReferralOf[t]
AdInv == MergesRecorded /\ AdProductOfFirstTouch

\* What may happen beside the two: products are forgotten, turns end.
LEMMA AdKept ==
  ASSUME TInv, AdInv, [Next]_vars,
         \A i \in Existing' : rows'[i].state.adProduct = None
                              \/ (i <= born /\ rows'[i].state.adProduct = rows[i].state.adProduct),
         \A t \in Turns : touch'[t] = "merge" => touch[t] = "merge" /\ turn'[t].conv = turn[t].conv
  PROVE  AdInv'
<1>1. \A i \in Existing' : i <= born => i \in Existing /\ Follows(rows'[i], rows[i])
  BY RowsStep, ThreadsAssumption DEF TInv, RowsOK, Grown, Existing, Ids
<1>2. MergesRecorded'
  <2> SUFFICES ASSUME NEW t \in Turns, touch'[t] = "merge", turn'[t].conv \in Existing'
               PROVE  rows'[turn'[t].conv].adId = ReferralOf[t]
    BY DEF MergesRecorded
  <2>1. touch[t] = "merge" /\ turn'[t].conv = turn[t].conv
    OBVIOUS
  <2>2. turn[t].conv <= born /\ ReferralOf[t] # None
    BY <2>1, ThreadsAssumption DEF TInv, TurnsOK, RowsOK
  <2> QED BY <1>1, <2>1, <2>2 DEF AdInv, MergesRecorded, Follows
<1>3. AdProductOfFirstTouch'
  BY <1>1 DEF AdInv, AdProductOfFirstTouch, Follows
<1> QED BY <1>2, <1>3 DEF AdInv

LEMMA AdStep ==
  ASSUME TInv, AdInv, [Next]_vars
  PROVE  AdInv'
<1>0. /\ rows \in [Ids -> Row \cup {None}] /\ Existing \subseteq 1..born /\ born \in Nat
      /\ DOMAIN turn = Turns /\ DOMAIN touch = Turns
      /\ \A i \in Existing : rows[i] \in Row /\ i <= born
  BY ThreadsAssumption DEF TInv, RowsOK, Existing, Ids, Shaped
<1>1. ASSUME UNCHANGED rows,
             \A t \in Turns : touch'[t] = "merge" => touch[t] = "merge" /\ turn'[t].conv = turn[t].conv
      PROVE  AdInv'
  BY <1>0, <1>1, AdKept DEF Existing
<1>2. ASSUME NEW c, NEW r, Update(c, r), UNCHANGED turn,
             \A t \in Turns : touch'[t] = "merge" => touch[t] = "merge",
             c \in Existing => r.state.adProduct \in {None, rows[c].state.adProduct}
      PROVE  AdInv'
  <2>1. \A i \in Existing' : i \in Existing /\ rows'[i].state.adProduct \in {None, rows[i].state.adProduct}
    BY <1>0, <1>2 DEF Update, Existing
  <2> QED BY <1>0, <1>2, <2>1, AdKept
<1>3. ASSUME NEW p, rows' = [rows EXCEPT ![born + 1] = NewRow(p)],
             \A t \in Turns : touch'[t] = "merge" => touch[t] = "merge" /\ turn'[t].conv = turn[t].conv
      PROVE  AdInv'
  <2>1. \A i \in Existing' : (i = born + 1 /\ rows'[i] = NewRow(p)) \/ (i \in Existing /\ rows'[i] = rows[i])
    BY <1>0, <1>3 DEF Existing
  <2>2. NewRow(p).state.adProduct = None
    BY DEF NewRow, EmptyState
  <2> QED BY <1>0, <1>3, <2>1, <2>2, AdKept
<1>4. ASSUME NEW t \in Turns, FindThread(t) PROVE AdInv'
  BY <1>0, <1>1, <1>4 DEF FindThread, Enter, TInv, Shaped, TurnsOK
<1>5. ASSUME NEW t \in Turns, CreateThread(t) PROVE AdInv'
  BY <1>0, <1>3, <1>5 DEF CreateThread, Enter, TInv, Shaped
<1>6. ASSUME NEW t \in Turns, Lookup(t) \/ LogSilent(t) \/ LogInbound(t) \/ Generate(t) \/ LogReply(t)
      PROVE  AdInv'
  BY <1>0, <1>1, <1>6 DEF Lookup, LogSilent, LogInbound, Generate, BeginGenerate, UpdateWorkingMemory, EndGenerate, FailGenerate, Generating, LogReply, TInv, Shaped
<1>7. ASSUME NEW t \in Turns, MergeShown(t) PROVE AdInv'
  <2> DEFINE c == turn[t].conv  r == [rows[c] EXCEPT !.state["lastProductIds"] = t]
  <2>1. c \in Existing => r.state.adProduct = rows[c].state.adProduct
    BY <1>0 DEF Row, State
  <2>2. Update(c, r) /\ UNCHANGED <<turn, touch>>
    BY <1>7 DEF MergeShown, MergeState
  <2> HIDE DEF c, r
  <2> QED BY <1>2, <2>1, <2>2
<1>8. ASSUME NEW t \in Turns, RecordFirstTouch(t) PROVE AdInv'
  <2> DEFINE c == turn[t].conv  r == [rows[c] EXCEPT !.adId = ReferralOf[t]]
  <2>1. CASE ~Attributable(c)
    BY <1>0, <1>1, <1>8, <2>1 DEF RecordFirstTouch
  <2>2. CASE Attributable(c)
    <3>1. c \in Existing /\ rows[c].adId = None
      BY <2>2 DEF Attributable
    <3>2. Update(c, r) /\ UNCHANGED turn
      BY <1>8, <2>2 DEF RecordFirstTouch
    <3>3. touch' = [touch EXCEPT ![t] = IF HasProduct(ReferralOf[t]) THEN "merge" ELSE "none"]
      BY <1>8, <2>2 DEF RecordFirstTouch
    <3>4. rows' = [rows EXCEPT ![c] = r] /\ r.adId = ReferralOf[t] /\ r.state = rows[c].state
      BY <1>0, <3>1, <3>2 DEF Update, Row
    <3>5. rows[c].state.adProduct = None
      BY <3>1 DEF AdInv, AdProductOfFirstTouch
    <3>6. \A u \in Turns : u # t /\ touch[u] = "merge" => turn[u].conv # c
      BY <3>1 DEF AdInv, MergesRecorded, TInv, TurnsOK
    <3> HIDE DEF c, r
    <3>7. AdProductOfFirstTouch'
      BY <1>0, <3>1, <3>4, <3>5 DEF AdInv, AdProductOfFirstTouch, Existing
    <3>8. MergesRecorded'
      <4>1. rows'[c].adId = ReferralOf[t] /\ \A i \in Existing' : i # c => i \in Existing /\ rows'[i] = rows[i]
        BY <1>0, <3>1, <3>4 DEF Existing
      <4> QED BY <1>0, <3>2, <3>3, <3>6, <4>1 DEF c, AdInv, MergesRecorded
    <3> QED BY <3>7, <3>8 DEF AdInv
  <2> QED BY <2>1, <2>2
<1>9. ASSUME NEW t \in Turns, MergeAdProduct(t) PROVE AdInv'
  <2> DEFINE c == turn[t].conv  r == [rows[c] EXCEPT !.state["adProduct"] = ReferralOf[t]]
  <2>1. Update(c, r) /\ UNCHANGED turn /\ touch' = [touch EXCEPT ![t] = "none"] /\ touch[t] = "merge"
    BY <1>9 DEF MergeAdProduct, MergeState
  <2>2. CASE c \notin Existing
    BY <1>0, <1>1, <2>1, <2>2 DEF Update
  <2>3. CASE c \in Existing
    <3>1. rows[c].adId = ReferralOf[t]
      BY <2>1, <2>3 DEF AdInv, MergesRecorded
    <3>2. r.adId = rows[c].adId /\ r.state.adProduct = ReferralOf[t] /\ rows' = [rows EXCEPT ![c] = r]
      BY <1>0, <2>1, <2>3 DEF Row, State, Update
    <3> HIDE DEF c, r
    <3>3. AdProductOfFirstTouch'
      BY <1>0, <2>3, <3>1, <3>2 DEF AdInv, AdProductOfFirstTouch, Existing
    <3>4. MergesRecorded'
      BY <1>0, <2>1, <2>3, <3>2 DEF AdInv, MergesRecorded, Existing
    <3> QED BY <3>3, <3>4 DEF AdInv
  <2> QED BY <2>2, <2>3
<1>10. ASSUME NEW k \in Clicks, CreateForClick(k) PROVE AdInv'
  BY <1>3, <1>10 DEF CreateForClick
<1>11. ASSUME NEW k \in Clicks, RecordClick(k) PROVE AdInv'
  <2> DEFINE c == click[k].conv  r == [rows[c] EXCEPT !.adId = ReferralOf[k]]
  <2>1. c \in Existing => r.state.adProduct = rows[c].state.adProduct
    BY <1>0 DEF Row
  <2>2. (Update(c, r) \/ UNCHANGED rows) /\ UNCHANGED <<turn, touch>>
    BY <1>11 DEF RecordClick
  <2> HIDE DEF c, r
  <2> QED BY <1>1, <1>2, <2>1, <2>2
<1>12. ASSUME NEW w \in Wipes, ClearState(w) PROVE AdInv'
  <2> DEFINE c == wipe[w].conv  r == [rows[c] EXCEPT !.state = EmptyState]
  <2>1. c \in Existing => r.state.adProduct = None
    BY <1>0 DEF Row, EmptyState
  <2>2. Update(c, r) /\ UNCHANGED <<turn, touch>>
    BY <1>12 DEF ClearState, turnVars
  <2> HIDE DEF c, r
  <2> QED BY <1>2, <2>1, <2>2
<1>13. ASSUME NEW w \in Wipes, DeleteConversation(w) PROVE AdInv'
  <2>1. \A i \in Existing' : i \in Existing /\ rows'[i] = rows[i]
    BY <1>0, <1>13 DEF DeleteConversation, DeleteRow, Existing
  <2>2. UNCHANGED <<turn, touch>>
    BY <1>13 DEF DeleteConversation, turnVars
  <2> QED BY <1>0, <2>1, <2>2, AdKept
<1>14. CASE Panel
  <2>1. PICK c \in Existing, b \in BOOLEAN : SetPinned(c, b) \/ SetAiState(c, b)
    BY <1>14 DEF Panel
  <2>2. UNCHANGED <<turn, touch>>
    BY <2>1 DEF SetPinned, SetAiState, turnVars
  <2>3. /\ [rows[c] EXCEPT !.pinned = b].state.adProduct = rows[c].state.adProduct
        /\ [rows[c] EXCEPT !.bot = b].state.adProduct = rows[c].state.adProduct
    BY <1>0 DEF Row
  <2>4. Update(c, [rows[c] EXCEPT !.pinned = b]) \/ Update(c, [rows[c] EXCEPT !.bot = b])
    BY <2>1 DEF SetPinned, SetAiState
  <2> QED BY <1>2, <2>2, <2>3, <2>4
<1>15. ASSUME NEW k \in Clicks, OpenClick(k) PROVE AdInv'
  BY <1>1, <1>15 DEF OpenClick
<1>16. ASSUME NEW s \in Sends, Dispatch(s) PROVE AdInv'
  BY <1>1, <1>16 DEF Dispatch, AskSend, LookupKey, PersistHuman, SendText, RecordSent, turnVars
<1>17. ASSUME NEW w \in Wipes,
              AskReset(w) \/ AskDelete(w) \/ WipeWorking(w) \/ WipeThread(w) \/ DeleteMessages(w) \/ RecordReset(w)
       PROVE  AdInv'
  BY <1>1, <1>17 DEF AskReset, AskDelete, AskWipe, WipeWorking, WipeThread, DeleteMessages, RecordReset, turnVars
<1>18. CASE NextWindow \/ UNCHANGED vars
  BY <1>1, <1>18 DEF NextWindow, vars, turnVars
<1> QED BY <1>4, <1>5, <1>6, <1>7, <1>8, <1>9, <1>10, <1>11, <1>12, <1>13, <1>14, <1>15, <1>16, <1>17, <1>18
        DEF Next, Handle, Attribute, Wipe

\* persistAttribution: the product the agent is told of is that of the ad on record, though
\* two statements write them and clicks, wipes and other turns come between.
THEOREM AdProductIsRecorded == Spec => []AdProductOfFirstTouch
<1>1. Init => AdInv
  BY DEF Init, AdInv, MergesRecorded, AdProductOfFirstTouch, Existing
<1>2. AdInv => AdProductOfFirstTouch
  BY DEF AdInv
<1>3. TInv /\ AdInv /\ [Next]_vars => AdInv'
  BY AdStep
<1> QED BY <1>1, <1>2, <1>3, InitTypes, TypesStep, PTL DEF Spec

-----------------------------------------------------------------------------
(* The human agent's messages. *)

\* A request has a conversation once it was asked for; only a reset clears messages and state.
RequestsOK ==
    /\ \A s \in Sends : send[s].pc # "new" => send[s].conv \in 1..born
    /\ \A w \in Wipes : wipe[w].pc \in {"state", "messages", "event"} => wipe[w].kind = "reset"
    /\ \A w \in Wipes : wipe[w].pc # "new" => wipe[w].conv \in 1..born /\ wipe[w].psid \in Psids

LEMMA RequestsStep ==
  ASSUME TInv, RequestsOK, [Next]_vars
  PROVE  RequestsOK'
<1>0. /\ born \in Nat /\ born' \in Nat /\ born <= born'
      /\ \A c \in Existing : c \in 1..born /\ rows[c].psid \in Psids
  BY RowsStep, ThreadsAssumption DEF TInv, RowsOK, Grown, Existing, Ids, Row
<1>1. ASSUME UNCHANGED <<send, wipe>> PROVE RequestsOK'
  BY <1>0, <1>1 DEF RequestsOK
<1>2. ASSUME NEW s \in Sends, Dispatch(s) PROVE RequestsOK'
  <2>1. UNCHANGED <<born, wipe>>
    BY <1>2 DEF Dispatch, AskSend, LookupKey, PersistHuman, SendText, RecordSent
  <2>2. CASE AskSend(s)
    BY <1>0, <2>1, <2>2 DEF AskSend, RequestsOK, TInv, Shaped
  <2>3. CASE ~AskSend(s)
    <3>1. \E to : send' = [send EXCEPT ![s].pc = to] /\ send[s].pc # "new"
      BY <1>2, <2>3 DEF Dispatch, LookupKey, PersistHuman, SendText, RecordSent, SendStep
    <3> QED BY <2>1, <3>1 DEF RequestsOK, TInv, Shaped
  <2> QED BY <2>2, <2>3
<1>3. ASSUME NEW w \in Wipes, AskReset(w) \/ AskDelete(w) PROVE RequestsOK'
  BY <1>0, <1>3 DEF AskReset, AskDelete, AskWipe, requests, RequestsOK, TInv, Shaped
<1>4. ASSUME NEW w \in Wipes, WipeWorking(w) \/ WipeThread(w) \/ ClearState(w) \/ DeleteMessages(w)
                               \/ RecordReset(w) \/ DeleteConversation(w)
      PROVE  RequestsOK'
  <2>1. UNCHANGED <<born, send>>
    BY <1>4 DEF WipeWorking, WipeThread, ClearState, DeleteMessages, RecordReset, DeleteConversation, requests
  <2>2. wipe[w].pc # "new" /\ \E to, bad : \/ wipe' = [wipe EXCEPT ![w].pc = to]
                                           \/ wipe' = [wipe EXCEPT ![w].pc = to, ![w].failed = bad]
    BY <1>4, Zenon DEF WipeWorking, WipeThread, ClearState, DeleteMessages, RecordReset, DeleteConversation
  <2>3. /\ \A v \in Wipes \ {w} : wipe'[v] = wipe[v]
        /\ wipe'[w].conv = wipe[w].conv /\ wipe'[w].psid = wipe[w].psid /\ wipe'[w].kind = wipe[w].kind
    BY <2>2 DEF TInv, Shaped
  <2>4. wipe'[w].pc \in {"state", "messages", "event"} =>
          wipe[w].kind = "reset" \/ wipe[w].pc \in {"state", "messages", "event"}
    <3>1. CASE WipeWorking(w)
      <4>1. PICK ok \in BOOLEAN : wipe' = [wipe EXCEPT ![w].pc = "thread", ![w].failed = ~ok]
        BY <3>1 DEF WipeWorking
      <4>2. wipe'[w].pc = "thread"
        BY <4>1 DEF TInv, Shaped
      <4> QED BY <4>2
    <3>2. CASE WipeThread(w)
      <4>1. PICK ok \in BOOLEAN : wipe' = [wipe EXCEPT ![w].pc = AfterMemory(w, ok), ![w].failed = FALSE]
        BY <3>2 DEF WipeThread
      <4>2. wipe'[w].pc = AfterMemory(w, ok)
        BY <4>1 DEF TInv, Shaped
      <4> QED BY <4>2 DEF AfterMemory
    <3>3. CASE ClearState(w) \/ DeleteMessages(w) \/ RecordReset(w) \/ DeleteConversation(w)
      BY <3>3 DEF ClearState, DeleteMessages, RecordReset, DeleteConversation, TInv, Shaped
    <3> QED BY <1>4, <3>1, <3>2, <3>3
  <2> QED BY <2>1, <2>2, <2>3, <2>4 DEF RequestsOK
<1>5. ASSUME NEW t \in Turns, Handle(t) PROVE UNCHANGED <<send, wipe>>
  BY <1>5 DEF Handle, FindThread, CreateThread, Lookup, LogSilent, LogInbound, Generate, BeginGenerate, UpdateWorkingMemory, EndGenerate, FailGenerate, Generating, LogReply, MergeShown,
     RecordFirstTouch, MergeAdProduct, requests
<1>6. ASSUME NEW k \in Clicks, Attribute(k) PROVE UNCHANGED <<send, wipe>>
  BY <1>6 DEF Attribute, OpenClick, CreateForClick, RecordClick, requests
<1>7. NextWindow \/ Panel \/ UNCHANGED vars => UNCHANGED <<send, wipe>>
  BY DEF NextWindow, Panel, SetPinned, SetAiState, vars, requests
<1> QED BY <1>1, <1>2, <1>3, <1>4, <1>5, <1>6, <1>7 DEF Next, Wipe

\* sendHumanMessage calls Messenger only with its own entry in the log.
HumanMessage(s) == Message(send[s].conv, KeyOf[s], "human", s)
SentIsLogged ==
    /\ sent \subseteq {s \in Sends : send[s].pc # "new"}
    /\ \A s \in Sends : send[s].pc = "send" \/ s \in sent => LogWiped(send[s].conv) \/ HumanMessage(s) \in log

\* A log that was wiped stays one that was.
LEMMA WipedStays ==
  ASSUME TInv, RequestsOK, [Next]_vars, NEW c \in 1..born, LogWiped(c)
  PROVE  LogWiped(c)'
<1>1. CASE c \notin Existing
  <2>1. c \in Ids /\ rows[c] = None
    BY <1>1, ThreadsAssumption DEF TInv, RowsOK, Existing, Ids
  <2> QED BY <2>1, RowsStep DEF TInv, LogWiped, Grown, Existing
<1>2. ASSUME NEW w \in Wipes, wipe[w].conv = c, wipe[w].kind = "reset", wipe[w].pc \in {"event", "ok", "failed"}
      PROVE  LogWiped(c)'
  <2>1. ASSUME NEW v \in Wipes, Wipe(v)
        PROVE  wipe'[w].conv = c /\ wipe'[w].kind = "reset" /\ wipe'[w].pc \in {"event", "ok", "failed"}
    <3>1. v # w => wipe'[w] = wipe[w]
      BY <2>1 DEF Wipe, AskReset, AskDelete, AskWipe, WipeWorking, WipeThread, ClearState, DeleteMessages,
         RecordReset, DeleteConversation, TInv, Shaped
    <3>2. v = w => RecordReset(w)
      BY <1>2, <2>1 DEF Wipe, AskReset, AskDelete, AskWipe, WipeWorking, WipeThread, ClearState, DeleteMessages,
         DeleteConversation
    <3>3. RecordReset(w) => wipe'[w].conv = c /\ wipe'[w].kind = "reset" /\ wipe'[w].pc \in {"ok", "failed"}
      BY <1>2 DEF RecordReset, TInv, Shaped
    <3> QED BY <1>2, <3>1, <3>2, <3>3
  <2>2. ASSUME UNCHANGED wipe
        PROVE  wipe'[w].conv = c /\ wipe'[w].kind = "reset" /\ wipe'[w].pc \in {"event", "ok", "failed"}
    BY <1>2, <2>2
  <2>3. ASSUME NEW t \in Turns, Handle(t) PROVE UNCHANGED wipe
    BY <2>3 DEF Handle, FindThread, CreateThread, Lookup, LogSilent, LogInbound, Generate, BeginGenerate, UpdateWorkingMemory, EndGenerate, FailGenerate, Generating, LogReply, MergeShown,
       RecordFirstTouch, MergeAdProduct
  <2>4. ASSUME NEW k \in Clicks, Attribute(k) PROVE UNCHANGED wipe
    BY <2>4 DEF Attribute, OpenClick, CreateForClick, RecordClick
  <2>5. ASSUME NEW s \in Sends, Dispatch(s) PROVE UNCHANGED wipe
    BY <2>5 DEF Dispatch, AskSend, LookupKey, PersistHuman, SendText, RecordSent
  <2>6. NextWindow \/ Panel \/ UNCHANGED vars => UNCHANGED wipe
    BY DEF NextWindow, Panel, SetPinned, SetAiState, vars
  <2>7. wipe'[w].conv = c /\ wipe'[w].kind = "reset" /\ wipe'[w].pc \in {"event", "ok", "failed"}
    BY <2>1, <2>2, <2>3, <2>4, <2>5, <2>6 DEF Next
  <2> QED BY <2>7 DEF LogWiped
<1> QED BY <1>1, <1>2 DEF LogWiped

\* An entry leaves the log only with its conversation or by a reset, which then is past it.
LEMMA LogLoses ==
  ASSUME TInv, RequestsOK, [Next]_vars, NEW m \in log
  PROVE  m \in log' \/ LogWiped(m.conv)'
<1>1. ASSUME NEW w \in Wipes, DeleteMessages(w) PROVE m \in log' \/ LogWiped(m.conv)'
  <2>1. log' = log \ Thread(wipe[w].conv) /\ wipe' = [wipe EXCEPT ![w].pc = "event"] /\ wipe[w].kind = "reset"
    BY <1>1 DEF DeleteMessages, RequestsOK
  <2>2. wipe'[w].pc = "event" /\ wipe'[w].kind = "reset" /\ wipe'[w].conv = wipe[w].conv
    BY <2>1 DEF TInv, Shaped
  <2> QED BY <2>1, <2>2 DEF Thread, LogWiped
<1>2. ASSUME NEW w \in Wipes, DeleteConversation(w) PROVE m \in log' \/ LogWiped(m.conv)'
  <2>1. Existing' = Existing \ {wipe[w].conv} /\ log' = log \ Thread(wipe[w].conv)
    BY <1>2, DeleteStep DEF DeleteConversation, DeleteRow, TInv
  <2> QED BY <2>1 DEF Thread, LogWiped
<1>3. ASSUME NEW w \in Wipes, Wipe(w), ~DeleteMessages(w), ~DeleteConversation(w) PROVE UNCHANGED log
  BY <1>3 DEF Wipe, AskReset, AskDelete, AskWipe, WipeWorking, WipeThread, ClearState, RecordReset
<1>4. ASSUME NEW t \in Turns, Handle(t) PROVE log \subseteq log'
  BY <1>4 DEF Handle, FindThread, CreateThread, Lookup, LogSilent, LogInbound, LogRow, Generate, BeginGenerate, UpdateWorkingMemory, EndGenerate, FailGenerate, Generating, LogReply, MergeShown,
     RecordFirstTouch, MergeAdProduct
<1>5. ASSUME NEW k \in Clicks, Attribute(k) PROVE UNCHANGED log
  BY <1>5 DEF Attribute, OpenClick, CreateForClick, RecordClick
<1>6. ASSUME NEW s \in Sends, Dispatch(s) PROVE log \subseteq log'
  BY <1>6 DEF Dispatch, AskSend, LookupKey, PersistHuman, SendText, RecordSent
<1>7. NextWindow \/ Panel \/ UNCHANGED vars => UNCHANGED log
  BY DEF NextWindow, Panel, SetPinned, SetAiState, vars
<1> QED BY <1>1, <1>2, <1>3, <1>4, <1>5, <1>6, <1>7 DEF Next

LEMMA SentIsLoggedStep ==
  ASSUME TInv, RequestsOK, SentIsLogged, [Next]_vars
  PROVE  SentIsLogged'
<1>1. ASSUME NEW s \in Sends, send[s].pc = "send" \/ s \in sent, send'[s].conv = send[s].conv
      PROVE  (LogWiped(send[s].conv) \/ HumanMessage(s) \in log)'
  <2>1. send[s].conv \in 1..born /\ HumanMessage(s)' = HumanMessage(s) /\ HumanMessage(s).conv = send[s].conv
    BY <1>1 DEF SentIsLogged, RequestsOK, HumanMessage, Message
  <2>2. LogWiped(send[s].conv) => LogWiped(send[s].conv)'
    BY <1>1, <2>1, WipedStays DEF LogWiped
  <2>3. HumanMessage(s) \in log => HumanMessage(s) \in log' \/ LogWiped(send[s].conv)'
    BY <1>1, <2>1, LogLoses DEF LogWiped
  <2> QED BY <1>1, <2>1, <2>2, <2>3 DEF SentIsLogged
<1>2. ASSUME UNCHANGED <<send, sent>> PROVE SentIsLogged'
  <2>1. \A s \in Sends : HumanMessage(s)' = HumanMessage(s)
    BY <1>2 DEF HumanMessage, Message
  <2>2. sent' \subseteq {s \in Sends : send'[s].pc # "new"}
    BY <1>2 DEF SentIsLogged
  <2>3. ASSUME NEW s \in Sends, send'[s].pc = "send" \/ s \in sent'
        PROVE  (LogWiped(send[s].conv) \/ HumanMessage(s) \in log)'
    BY <1>1, <1>2, <2>3
  <2> QED BY <2>2, <2>3 DEF SentIsLogged
<1>3. ASSUME NEW s \in Sends, Dispatch(s) PROVE SentIsLogged'
  <2>1. CASE AskSend(s)
    <3>1. /\ send[s].pc = "new" /\ send'[s].pc \in {"refused", "lookup"} /\ UNCHANGED sent
          /\ \A r \in Sends \ {s} : send'[r] = send[r]
      BY <2>1 DEF AskSend, TInv, Shaped
    <3> QED BY <1>1, <3>1 DEF SentIsLogged
  <2>2. CASE PersistHuman(s)
    <3>1. /\ send[s].pc = "insert" /\ UNCHANGED sent
          /\ send'[s].conv = send[s].conv /\ send'[s].pc \in {"send", "error"}
          /\ \A r \in Sends \ {s} : send'[r] = send[r]
      BY <2>2 DEF PersistHuman, SendStep, TInv, Shaped
    <3>2. send'[s].pc = "send" => HumanMessage(s) \in log'
      BY <2>2 DEF PersistHuman, SendStep, HumanMessage, TInv, Shaped
    <3>3. HumanMessage(s)' = HumanMessage(s)
      BY <3>1 DEF HumanMessage, Message
    <3> QED BY <1>1, <3>1, <3>2, <3>3 DEF SentIsLogged
  <2>3. CASE LookupKey(s) \/ SendText(s) \/ RecordSent(s)
    <3>1. /\ send'[s].conv = send[s].conv /\ send[s].pc # "new" /\ send'[s].pc \notin {"send", "new"}
          /\ \A r \in Sends \ {s} : send'[r] = send[r]
          /\ sent' = sent \/ (send[s].pc = "send" /\ sent' = sent \cup {s})
      BY <2>3 DEF LookupKey, SendText, RecordSent, SendStep, TInv, Shaped
    <3> QED BY <1>1, <3>1 DEF SentIsLogged
  <2> QED BY <1>3, <2>1, <2>2, <2>3 DEF Dispatch
<1>4. ASSUME NEW t \in Turns, Handle(t) PROVE UNCHANGED <<send, sent>>
  BY <1>4 DEF Handle, FindThread, CreateThread, Lookup, LogSilent, LogInbound, Generate, BeginGenerate, UpdateWorkingMemory, EndGenerate, FailGenerate, Generating, LogReply, MergeShown,
     RecordFirstTouch, MergeAdProduct, requests
<1>5. ASSUME NEW k \in Clicks, Attribute(k) PROVE UNCHANGED <<send, sent>>
  BY <1>5 DEF Attribute, OpenClick, CreateForClick, RecordClick, requests
<1>6. ASSUME NEW w \in Wipes, Wipe(w) PROVE UNCHANGED <<send, sent>>
  BY <1>6 DEF Wipe, AskReset, AskDelete, AskWipe, WipeWorking, WipeThread, ClearState, DeleteMessages,
     RecordReset, DeleteConversation, requests
<1>7. NextWindow \/ Panel \/ UNCHANGED vars => UNCHANGED <<send, sent>>
  BY DEF NextWindow, Panel, SetPinned, SetAiState, vars, requests
<1> QED BY <1>2, <1>3, <1>4, <1>5, <1>6, <1>7 DEF Next

LEMMA SentIsLoggedAlways == Spec => [](TInv /\ RequestsOK /\ SentIsLogged)
<1>1. Init => RequestsOK /\ SentIsLogged
  BY DEF Init, RequestsOK, SentIsLogged
<1>2. TInv /\ RequestsOK /\ SentIsLogged /\ [Next]_vars => (RequestsOK /\ SentIsLogged)'
  BY RequestsStep, SentIsLoggedStep
<1> QED BY <1>1, <1>2, InitTypes, TypesStep, PTL DEF Spec

\* sendHumanMessage writes its row before the send: what reached the customer is in the
\* thread the panel shows, unless the thread was wiped.
THEOREM HumanWordIsKept == Spec => []HumanWordKept
<1>1. SentIsLogged => HumanWordKept
  <2> SUFFICES ASSUME SentIsLogged, NEW s \in sent, ~LogWiped(send[s].conv)
               PROVE  \E m \in Thread(send[s].conv) : m.by = s
    BY DEF HumanWordKept
  <2>1. HumanMessage(s) \in log
    BY DEF SentIsLogged
  <2>2. HumanMessage(s).conv = send[s].conv /\ HumanMessage(s).by = s
    BY DEF HumanMessage, Message
  <2> QED BY <2>1, <2>2 DEF Thread
<1> QED BY <1>1, SentIsLoggedAlways, PTL

\* Two requests with one key, however they interleave, send once: the loser of the insert
\* never gets to the send.
THEOREM HumanIsSentOnce == Spec => []HumanSentOnce
<1>1. TInv /\ SentIsLogged => HumanSentOnce
  <2> SUFFICES ASSUME TInv, SentIsLogged, NEW s \in sent, NEW r \in sent, KeyOf[s] = KeyOf[r],
                      send[s].conv = send[r].conv, ~LogWiped(send[s].conv)
               PROVE  s = r
    BY DEF HumanSentOnce
  <2>1. s \in Sends /\ r \in Sends /\ HumanMessage(s) \in log /\ HumanMessage(r) \in log
    BY DEF SentIsLogged, LogWiped
  <2>2. HumanMessage(s) = HumanMessage(r)
    BY <2>1, ThreadsAssumption DEF TInv, LogOK, HumanMessage, Message
  <2> QED BY <2>2 DEF HumanMessage, Message
<1> QED BY <1>1, SentIsLoggedAlways, PTL

-----------------------------------------------------------------------------
(* The wipes. *)

\* What a turn that is over can no longer do: leave a trace where there was none.
NoTrace(t) ==
    /\ Over(t)'
    /\ \A m \in log' : m.by = t => m \in log
    /\ \A c \in Existing' : c <= born /\ rows'[c].state.lastProductIds = t => rows[c].state.lastProductIds = t

LEMMA OverLeavesNoTrace ==
  ASSUME TInv, [Next]_vars, NEW t \in Turns, Over(t)
  PROVE  NoTrace(t)
<1>0. /\ \A c \in Existing : rows[c] \in Row /\ c \in Ids /\ c <= born
      /\ DOMAIN rows = Ids /\ born \in Nat /\ t # None
      /\ \A c \in Existing' : c <= born => c \in Existing
  BY RowsStep, ThreadsAssumption DEF TInv, RowsOK, Grown, Existing, Ids
<1>1. Over(t)'
  <2>1. ASSUME NEW u \in Turns, Handle(u) PROVE u # t
    BY <2>1 DEF Over, Handle, FindThread, CreateThread, Lookup, LogSilent, LogInbound, Generate, BeginGenerate, UpdateWorkingMemory, EndGenerate, FailGenerate, Generating, LogReply,
       MergeShown, RecordFirstTouch, MergeAdProduct
  <2>2. ASSUME NEW u \in Turns, u # t, Handle(u)
        PROVE  turn'[t] = turn[t] /\ touch'[t] = touch[t] /\ shown'[t] = shown[t]
    BY <2>2 DEF Handle, FindThread, CreateThread, Enter, Lookup, LogSilent, LogInbound, Generate, BeginGenerate, UpdateWorkingMemory, EndGenerate, FailGenerate, Generating, LogReply,
       MergeShown, RecordFirstTouch, MergeAdProduct, TInv, Shaped
  <2>3. (\E k \in Clicks : Attribute(k)) \/ (\E s \in Sends : Dispatch(s)) \/ (\E w \in Wipes : Wipe(w))
        \/ NextWindow \/ Panel \/ UNCHANGED vars => UNCHANGED <<turn, touch, shown>>
    BY DEF Attribute, OpenClick, CreateForClick, RecordClick, Dispatch, AskSend, LookupKey, PersistHuman, SendText,
       RecordSent, Wipe, AskReset, AskDelete, AskWipe, WipeWorking, WipeThread, ClearState, DeleteMessages,
       RecordReset, DeleteConversation, NextWindow, Panel, SetPinned, SetAiState, vars, turnVars
  <2> QED BY <2>1, <2>2, <2>3 DEF Next, Over
<1>2. ASSUME NEW u \in Turns, Handle(u) PROVE u # t
  BY <1>2 DEF Over, Handle, FindThread, CreateThread, Lookup, LogSilent, LogInbound, Generate, BeginGenerate, UpdateWorkingMemory, EndGenerate, FailGenerate, Generating, LogReply,
     MergeShown, RecordFirstTouch, MergeAdProduct
<1>4. ASSUME NEW m \in log', m \notin log PROVE m.by # t
  <2>1. ASSUME NEW u \in Turns, Handle(u) PROVE m.by = u
    <3>1. m \in {Message(turn[u].conv, turn[u].key, "customer", u), Message(turn[u].conv, None, "agent", u)}
      BY <1>4, <2>1 DEF Handle, FindThread, CreateThread, Lookup, LogSilent, LogInbound, LogRow, Generate, BeginGenerate, UpdateWorkingMemory, EndGenerate, FailGenerate, Generating, LogReply,
         MergeShown, RecordFirstTouch, MergeAdProduct
    <3> QED BY <3>1 DEF Message
  <2>2. ASSUME NEW s \in Sends, Dispatch(s) PROVE m.by = s
    <3>1. m = Message(send[s].conv, KeyOf[s], "human", s)
      BY <1>4, <2>2 DEF Dispatch, AskSend, LookupKey, PersistHuman, SendText, RecordSent
    <3> QED BY <3>1 DEF Message
  <2>3. (\E k \in Clicks : Attribute(k)) \/ (\E w \in Wipes : Wipe(w)) \/ NextWindow \/ Panel \/ UNCHANGED vars
        => log' \subseteq log
    BY DEF Attribute, OpenClick, CreateForClick, RecordClick, Wipe, AskReset, AskDelete, AskWipe, WipeWorking,
       WipeThread, ClearState, DeleteMessages, RecordReset, DeleteConversation, DeleteRow, NextWindow, Panel,
       SetPinned, SetAiState, vars
  <2> QED BY <1>2, <1>4, <2>1, <2>2, <2>3, ThreadsAssumption DEF Next
<1>5. ASSUME NEW c \in Existing', c <= born
      PROVE  rows'[c].state.lastProductIds = t => rows[c].state.lastProductIds = t
  <2>0. c \in Existing /\ rows[c] \in Row
    BY <1>0, <1>5
  <2>1. ASSUME NEW d, NEW r, Update(d, r), d \in Existing => r.state.lastProductIds \in {rows[d].state.lastProductIds, None}
        PROVE  rows'[c].state.lastProductIds = t => rows[c].state.lastProductIds = t
    BY <1>0, <2>0, <2>1 DEF Update
  <2>2. ASSUME NEW u \in Turns, MergeShown(u) PROVE rows'[c].state.lastProductIds = t => rows[c].state.lastProductIds = t
    <3> DEFINE d == turn[u].conv  r == [rows[d] EXCEPT !.state["lastProductIds"] = u]
    <3>1. d \in Existing => r.state.lastProductIds = u
      BY <1>0 DEF Row, State
    <3>2. Update(d, r) /\ u # t
      BY <1>2, <2>2 DEF MergeShown, MergeState, Handle
    <3> HIDE DEF d, r
    <3> QED BY <1>0, <2>0, <3>1, <3>2 DEF Update
  <2>3. ASSUME NEW d \in Existing, NEW x
        PROVE  /\ [rows[d] EXCEPT !.state["adProduct"] = x].state.lastProductIds = rows[d].state.lastProductIds
               /\ [rows[d] EXCEPT !.adId = x].state.lastProductIds = rows[d].state.lastProductIds
               /\ [rows[d] EXCEPT !.pinned = x].state.lastProductIds = rows[d].state.lastProductIds
               /\ [rows[d] EXCEPT !.bot = x].state.lastProductIds = rows[d].state.lastProductIds
               /\ [rows[d] EXCEPT !.state = EmptyState].state.lastProductIds = None
    BY <1>0 DEF Row, State, EmptyState
  <2>4. ASSUME NEW u \in Turns, MergeAdProduct(u) \/ RecordFirstTouch(u)
        PROVE  rows'[c].state.lastProductIds = t => rows[c].state.lastProductIds = t
    <3>1. \/ UNCHANGED rows
          \/ Update(turn[u].conv, [rows[turn[u].conv] EXCEPT !.state["adProduct"] = ReferralOf[u]])
          \/ Update(turn[u].conv, [rows[turn[u].conv] EXCEPT !.adId = ReferralOf[u]])
      BY <2>4 DEF MergeAdProduct, MergeState, RecordFirstTouch
    <3> QED BY <2>1, <2>3, <3>1
  <2>5. ASSUME NEW k \in Clicks, RecordClick(k)
        PROVE  rows'[c].state.lastProductIds = t => rows[c].state.lastProductIds = t
    <3>1. UNCHANGED rows \/ Update(click[k].conv, [rows[click[k].conv] EXCEPT !.adId = ReferralOf[k]])
      BY <2>5 DEF RecordClick
    <3> QED BY <2>1, <2>3, <3>1
  <2>6. ASSUME NEW w \in Wipes, ClearState(w)
        PROVE  rows'[c].state.lastProductIds = t => rows[c].state.lastProductIds = t
    <3>1. Update(wipe[w].conv, [rows[wipe[w].conv] EXCEPT !.state = EmptyState])
      BY <2>6 DEF ClearState
    <3> QED BY <2>1, <2>3, <3>1
  <2>7. ASSUME Panel PROVE rows'[c].state.lastProductIds = t => rows[c].state.lastProductIds = t
    <3>1. PICK d \in Existing, b \in BOOLEAN : SetPinned(d, b) \/ SetAiState(d, b)
      BY <2>7 DEF Panel
    <3>2. Update(d, [rows[d] EXCEPT !.pinned = b]) \/ Update(d, [rows[d] EXCEPT !.bot = b])
      BY <3>1 DEF SetPinned, SetAiState
    <3> QED BY <2>1, <2>3, <3>2
  <2>8. ASSUME NEW u \in Turns, Handle(u), ~(MergeShown(u) \/ MergeAdProduct(u) \/ RecordFirstTouch(u))
        PROVE  rows'[c] = rows[c]
    <3>1. CASE CreateThread(u)
      BY <1>0, <1>5, <2>0, <3>1 DEF CreateThread
    <3>2. CASE ~CreateThread(u)
      BY <2>8, <3>2 DEF Handle, FindThread, Lookup, LogSilent, LogInbound, Generate, BeginGenerate, UpdateWorkingMemory, EndGenerate, FailGenerate, Generating, LogReply
    <3> QED BY <3>1, <3>2
  <2>9. ASSUME NEW k \in Clicks, Attribute(k), ~RecordClick(k) PROVE rows'[c] = rows[c]
    BY <1>0, <1>5, <2>0, <2>9 DEF Attribute, OpenClick, CreateForClick
  <2>10. ASSUME NEW w \in Wipes, Wipe(w), ~ClearState(w) PROVE rows'[c] = rows[c] \/ rows'[c] = None
    BY <1>0, <2>0, <2>10 DEF Wipe, AskReset, AskDelete, AskWipe, WipeWorking, WipeThread, DeleteMessages, RecordReset,
       DeleteConversation, DeleteRow
  <2>11. (\E s \in Sends : Dispatch(s)) \/ NextWindow \/ UNCHANGED vars => UNCHANGED rows
    BY DEF Dispatch, AskSend, LookupKey, PersistHuman, SendText, RecordSent, NextWindow, vars
  <2>12. rows'[c] # None
    BY DEF Existing
  <2> QED BY <2>2, <2>4, <2>5, <2>6, <2>7, <2>8, <2>9, <2>10, <2>11, <2>12 DEF Next
<1> QED BY <1>1, <1>4, <1>5 DEF NoTrace

\* A turn past its generation never gets back to one.
LEMMA AnsweredStays ==
  ASSUME Shaped, [Next]_vars, NEW t \in Turns, Answered(t)
  PROVE  Answered(t)'
<1> USE DEF Shaped, Answered
<1>1. ASSUME NEW u \in Turns, FindThread(u) \/ CreateThread(u) PROVE Answered(t)'
  BY <1>1 DEF FindThread, CreateThread, Enter
<1>2. ASSUME NEW u \in Turns, Lookup(u) \/ LogSilent(u) \/ LogInbound(u) \/ LogReply(u) PROVE Answered(t)'
  BY <1>2 DEF Lookup, LogSilent, LogInbound, LogReply
<1>3. ASSUME NEW u \in Turns, Generate(u) PROVE Answered(t)'
  BY <1>3 DEF Generate, BeginGenerate, UpdateWorkingMemory, EndGenerate, FailGenerate, Generating
<1>4. ASSUME NEW u \in Turns, MergeShown(u) \/ RecordFirstTouch(u) \/ MergeAdProduct(u) PROVE UNCHANGED turn
  BY <1>4 DEF MergeShown, RecordFirstTouch, MergeAdProduct
<1>5. (\E k \in Clicks : Attribute(k)) \/ (\E s \in Sends : Dispatch(s)) \/ (\E w \in Wipes : Wipe(w))
      \/ NextWindow \/ Panel \/ UNCHANGED vars => UNCHANGED turn
  BY DEF Attribute, OpenClick, CreateForClick, RecordClick, Dispatch, AskSend, LookupKey, PersistHuman, SendText,
     RecordSent, Wipe, AskReset, AskDelete, AskWipe, WipeWorking, WipeThread, ClearState, DeleteMessages,
     RecordReset, DeleteConversation, NextWindow, Panel, SetPinned, SetAiState, vars, turnVars
<1> QED BY <1>1, <1>2, <1>3, <1>4, <1>5 DEF Next, Handle

\* What turn t taught comes back to a memory it was wiped from only by a generation that had
\* recalled it, and such a generation was under way when the wipe was asked for or came later.
LEMMA OnlyCarriedBack ==
  ASSUME TInv, [Next]_vars, NEW w \in Wipes, NEW t \in Turns, Answered(t), wipe[w].psid \in Psids,
         wipe'[w].psid = wipe[w].psid, wipe'[w].past = wipe[w].past, \A u \in wipe[w].past : Answered(u)
  PROVE  /\ t \in memory'[wipe[w].psid].working /\ (t \in memory[wipe[w].psid].working => Carried(w, t))
              => Carried(w, t)'
         /\ t \in memory'[wipe[w].psid].thread /\ (t \in memory[wipe[w].psid].thread => Carried(w, t))
              => Carried(w, t)'
<1> DEFINE p == wipe[w].psid
<1>0. memory \in [Psids -> [working : SUBSET Turns, thread : SUBSET Turns]] /\ Shaped /\ MemoryOK
  BY DEF TInv, MemoryOK
<1>1. ASSUME NEW u \in Turns, BeginGenerate(u)
      PROVE  /\ memory' = memory
             /\ t \in memory[p].working \cup memory[p].thread /\ Carried(w, t) => Carried(w, t)'
  <2>1. memory' = memory /\ turn'[u].recalled = memory[PsidOf[u]].working \cup memory[PsidOf[u]].thread
        /\ \A v \in Turns \ {u} : turn'[v] = turn[v]
    BY <1>0, <1>1 DEF BeginGenerate, Shaped
  <2> QED BY <2>1 DEF Carried
<1>2. ASSUME \A u \in Turns : ~BeginGenerate(u), Carried(w, t) PROVE Carried(w, t)'
  BY <1>0, <1>2, RecallStep DEF Carried
<1>3. ASSUME NEW u \in Turns, UpdateWorkingMemory(u) \/ EndGenerate(u) \/ FailGenerate(u)
      PROVE  (t \in memory'[p].working \ memory[p].working) \/ (t \in memory'[p].thread \ memory[p].thread)
               => Carried(w, t)
  <2>1. ~Answered(u) /\ u # t /\ u \notin wipe[w].past
    BY <1>3 DEF UpdateWorkingMemory, EndGenerate, FailGenerate, Generating, Answered
  <2>2. /\ p # PsidOf[u] => memory'[p] = memory[p]
        /\ memory'[p].working \subseteq memory[p].working \cup turn[u].recalled \cup {u}
        /\ memory'[p].thread \subseteq memory[p].thread \cup turn[u].recalled \cup {u}
    BY <1>0, <1>3, GenerateMemory
  <2> QED BY <2>1, <2>2 DEF Carried
<1>4. ASSUME NEW v \in Wipes, WipeWorking(v) \/ WipeThread(v)
      PROVE  memory'[p].working \subseteq memory[p].working /\ memory'[p].thread \subseteq memory[p].thread
  <2>1. \/ UNCHANGED memory
        \/ memory' = [memory EXCEPT ![wipe[v].psid].working = {}]
        \/ memory' = [memory EXCEPT ![wipe[v].psid].thread = {}]
    BY <1>4 DEF WipeWorking, WipeThread
  <2> QED BY <1>0, <2>1
<1>5. /\ t \in memory'[p].working \ memory[p].working => Carried(w, t)
      /\ t \in memory'[p].thread \ memory[p].thread => Carried(w, t)
  BY <1>3, <1>4, MemoryUntouched
<1>6. CASE \A u \in Turns : ~BeginGenerate(u)
  BY <1>2, <1>5, <1>6
<1>7. CASE \E u \in Turns : BeginGenerate(u)
  BY <1>1, <1>7
<1> QED BY <1>6, <1>7

\* A wipe is moved on by itself alone.
LEMMA OthersKeepTheWipe ==
  ASSUME TInv, [Next]_vars, NEW w \in Wipes
  PROVE  wipe'[w] = wipe[w] \/ Wipe(w)
<1>1. ASSUME NEW v \in Wipes, Wipe(v), v # w PROVE wipe'[w] = wipe[w]
  BY <1>1 DEF Wipe, AskReset, AskDelete, AskWipe, WipeWorking, WipeThread, ClearState, DeleteMessages,
     RecordReset, DeleteConversation, TInv, Shaped
<1>2. ASSUME NEW u \in Turns, Handle(u) PROVE UNCHANGED wipe
  BY <1>2 DEF Handle, FindThread, CreateThread, Lookup, LogSilent, LogInbound, Generate, BeginGenerate, UpdateWorkingMemory, EndGenerate, FailGenerate, Generating, LogReply, MergeShown,
     RecordFirstTouch, MergeAdProduct
<1>3. (\E k \in Clicks : Attribute(k)) \/ (\E s \in Sends : Dispatch(s)) \/ NextWindow \/ Panel \/ UNCHANGED vars
       => UNCHANGED wipe
  BY DEF Attribute, OpenClick, CreateForClick, RecordClick, Dispatch, AskSend, LookupKey, PersistHuman, SendText,
     RecordSent, NextWindow, Panel, SetPinned, SetAiState, vars
<1> QED BY <1>1, <1>2, <1>3 DEF Next

\* What the agent remembers, by now, of turn t, past its generation when wipe w was asked for.
Forgets(w, t) ==
    /\ t \in Turns /\ Answered(t)
    /\ wipe[w].pc = "thread" /\ ~wipe[w].failed /\ t \in memory[wipe[w].psid].working => Carried(w, t)
    /\ wipe[w].pc \in {"state", "row", "messages", "event", "ok"}
         /\ t \in memory[wipe[w].psid].working \cup memory[wipe[w].psid].thread => Carried(w, t)
MemoryInv == \A w \in Wipes : wipe[w].pc = "new" \/ \A t \in wipe[w].past : Forgets(w, t)

LEMMA MemoryInvStep ==
  ASSUME TInv, RequestsOK, MemoryInv, [Next]_vars
  PROVE  MemoryInv'
<1> SUFFICES ASSUME NEW w \in Wipes, wipe'[w].pc # "new", NEW t \in wipe'[w].past
             PROVE  Forgets(w, t)'
  BY DEF MemoryInv
<1> DEFINE p == wipe[w].psid
           Kept == /\ wipe[w].pc # "new" /\ wipe'[w].psid = p /\ wipe'[w].past = wipe[w].past
<1>a. ASSUME Kept
      PROVE  /\ t \in Turns /\ Answered(t)' /\ Forgets(w, t) /\ p \in Psids
             /\ t \in memory'[p].working /\ (t \in memory[p].working => Carried(w, t)) => Carried(w, t)'
             /\ t \in memory'[p].thread /\ (t \in memory[p].thread => Carried(w, t)) => Carried(w, t)'
  <2>1. p \in Psids /\ t \in Turns /\ Answered(t) /\ Forgets(w, t) /\ \A u \in wipe[w].past : Answered(u)
    BY <1>a DEF MemoryInv, RequestsOK, Forgets
  <2>2. Answered(t)'
    BY <2>1, AnsweredStays DEF TInv
  <2> QED BY <1>a, <2>1, <2>2, OnlyCarriedBack
<1>1. CASE wipe'[w] = wipe[w]
  <2>1. Kept
    BY <1>1
  <2> HIDE DEF Kept
  <2> QED BY <1>1, <1>a, <2>1 DEF Forgets
<1>2. CASE AskWipe(w, "reset") \/ AskWipe(w, "delete")
  <2>1. wipe'[w].pc = "working" /\ wipe'[w].past = {u \in Turns : Answered(u)} /\ UNCHANGED turn
    BY <1>2 DEF AskWipe, TInv, Shaped, turnVars
  <2>2. t \in Turns /\ Answered(t)'
    BY <2>1 DEF Answered
  <2> QED BY <2>1, <2>2 DEF Forgets
<1>3. CASE WipeWorking(w)
  <2>1. PICK ok \in BOOLEAN :
          /\ wipe' = [wipe EXCEPT ![w].pc = "thread", ![w].failed = ~ok]
          /\ memory' = IF ok THEN [memory EXCEPT ![p].working = {}] ELSE memory
    BY <1>3 DEF WipeWorking
  <2>2. Kept /\ wipe'[w].pc = "thread" /\ wipe'[w].failed = ~ok
    BY <1>3, <2>1 DEF WipeWorking, TInv, Shaped
  <2>3. ok => memory'[p].working = {}
    <3>1. p \in Psids
      BY <1>a, <2>2
    <3> QED BY <2>1, <3>1 DEF TInv, MemoryOK
  <2> HIDE DEF Kept
  <2>4. t \in Turns /\ Answered(t)' /\ wipe'[w].psid = p
    BY <1>a, <2>2 DEF Kept
  <2> QED BY <2>2, <2>3, <2>4 DEF Forgets
<1>4. CASE WipeThread(w)
  <2>1. PICK ok \in BOOLEAN :
          /\ wipe' = [wipe EXCEPT ![w].pc = AfterMemory(w, ok), ![w].failed = FALSE]
          /\ memory' = IF ok THEN [memory EXCEPT ![p].thread = {}] ELSE memory
    BY <1>4 DEF WipeThread
  <2>2. wipe[w].pc = "thread" /\ Kept /\ wipe'[w].pc = AfterMemory(w, ok) /\ wipe'[w].psid = p
    BY <1>4, <2>1 DEF WipeThread, TInv, Shaped
  <2>3. wipe'[w].pc \in {"failed", "state", "row"} /\ (wipe'[w].pc # "failed" => ok /\ ~wipe[w].failed)
    BY <2>2 DEF AfterMemory
  <2>4. ok => memory'[p].thread = {}
    <3>1. p \in Psids
      BY <1>a, <2>2
    <3> QED BY <2>1, <3>1 DEF TInv, MemoryOK
  <2> HIDE DEF Kept
  <2> QED BY <1>a, <2>2, <2>3, <2>4 DEF Forgets
<1>5. CASE ClearState(w) \/ DeleteMessages(w) \/ RecordReset(w) \/ DeleteConversation(w)
  <2>1. /\ Kept /\ wipe[w].pc \in {"state", "messages", "event", "row"}
        /\ wipe'[w].pc \in {"messages", "event", "ok", "failed"} /\ wipe'[w].psid = p
    BY <1>5 DEF ClearState, DeleteMessages, RecordReset, DeleteConversation, TInv, Shaped
  <2> HIDE DEF Kept
  <2> QED BY <1>a, <2>1 DEF Forgets
<1>6. wipe'[w] = wipe[w] \/ Wipe(w)
  BY OthersKeepTheWipe
<1> QED BY <1>1, <1>2, <1>3, <1>4, <1>5, <1>6 DEF Wipe, AskReset, AskDelete

\* What wipe w has removed by now of turn t, which was over when it was asked for.
Forgotten(w, t) ==
    /\ t \in Turns /\ Over(t)
    /\ wipe[w].pc \in {"messages", "event", "ok"} /\ wipe[w].conv \in Existing =>
         rows[wipe[w].conv].state.lastProductIds # t
    /\ wipe[w].pc \in {"event", "ok"} => \A m \in log : m.conv = wipe[w].conv => m.by # t
WipeInv == \A w \in Wipes : wipe[w].pc = "new" \/ \A t \in wipe[w].over : Forgotten(w, t)

LEMMA WipeStep ==
  ASSUME TInv, RequestsOK, WipeInv, [Next]_vars
  PROVE  WipeInv'
<1> SUFFICES ASSUME NEW w \in Wipes, wipe'[w].pc # "new", NEW t \in wipe'[w].over
             PROVE  Forgotten(w, t)'
  BY DEF WipeInv
<1> DEFINE c == wipe[w].conv
<1>a. ASSUME wipe[w].pc # "new"
      PROVE  c <= born /\ c \in Nat
  BY <1>a, ThreadsAssumption DEF RequestsOK, TInv, RowsOK
<1>b. t \in Turns /\ Over(t) => NoTrace(t)
  BY OverLeavesNoTrace
<1>1. CASE wipe'[w] = wipe[w]
  <2>1. c <= born /\ Forgotten(w, t) /\ NoTrace(t)
    BY <1>1, <1>a, <1>b DEF WipeInv, Forgotten
  <2>2. c \in Existing' => c \in Existing
    BY <1>1, <1>a, RowsStep, ThreadsAssumption DEF TInv, RowsOK, Grown, Existing, Ids
  <2> QED BY <1>1, <2>1, <2>2 DEF NoTrace, Forgotten
<1>2. CASE AskWipe(w, "reset") \/ AskWipe(w, "delete")
  <2>1. wipe'[w].pc = "working" /\ wipe'[w].over = {u \in Turns : Over(u)}
    BY <1>2 DEF AskWipe, TInv, Shaped
  <2>2. t \in Turns /\ NoTrace(t)
    BY <1>b, <2>1
  <2> QED BY <2>1, <2>2 DEF Forgotten, NoTrace
<1>3. CASE WipeWorking(w)
  <2>1. PICK ok \in BOOLEAN : wipe' = [wipe EXCEPT ![w].pc = "thread", ![w].failed = ~ok]
    BY <1>3 DEF WipeWorking
  <2>2. wipe[w].pc # "new" /\ wipe'[w].pc = "thread" /\ wipe'[w].over = wipe[w].over
    BY <1>3, <2>1 DEF WipeWorking, TInv, Shaped
  <2>3. Forgotten(w, t) /\ NoTrace(t)
    BY <1>b, <2>2 DEF WipeInv, Forgotten
  <2> QED BY <2>2, <2>3 DEF Forgotten, NoTrace
<1>4. CASE WipeThread(w)
  <2>1. PICK ok \in BOOLEAN : wipe' = [wipe EXCEPT ![w].pc = AfterMemory(w, ok), ![w].failed = FALSE]
    BY <1>4 DEF WipeThread
  <2>2. wipe[w].pc = "thread" /\ wipe'[w].pc = AfterMemory(w, ok) /\ wipe'[w].over = wipe[w].over
    BY <1>4, <2>1 DEF WipeThread, TInv, Shaped
  <2>3. Forgotten(w, t) /\ NoTrace(t)
    BY <1>b, <2>2 DEF WipeInv, Forgotten
  <2>4. wipe'[w].pc \in {"failed", "state", "row"}
    BY <2>2 DEF AfterMemory
  <2> QED BY <2>2, <2>3, <2>4 DEF Forgotten, NoTrace
<1>5. CASE ClearState(w)
  <2> DEFINE r == [rows[c] EXCEPT !.state = EmptyState]
  <2>1. /\ wipe[w].pc = "state" /\ wipe'[w].conv = c /\ wipe'[w].over = wipe[w].over
        /\ wipe'[w].pc \in {"messages", "failed"} /\ Update(c, r)
    BY <1>5 DEF ClearState, TInv, Shaped
  <2>2. Forgotten(w, t) /\ NoTrace(t)
    BY <1>b, <2>1 DEF WipeInv, Forgotten
  <2>3. c \in Existing => r.state.lastProductIds = None
    BY DEF TInv, RowsOK, Existing, Row, EmptyState
  <2>4. c \in Existing' => rows'[c].state.lastProductIds = None
    <3> HIDE DEF r, c
    <3> QED BY <2>1, <2>3 DEF Update, TInv, RowsOK, Existing
  <2>5. t # None
    BY <2>2, ThreadsAssumption DEF Forgotten
  <2> QED BY <2>1, <2>2, <2>4, <2>5 DEF Forgotten, NoTrace
<1>6. CASE DeleteMessages(w)
  <2>1. /\ wipe[w].pc = "messages" /\ wipe'[w].conv = c /\ wipe'[w].over = wipe[w].over
        /\ wipe'[w].pc = "event" /\ log' = log \ Thread(c) /\ UNCHANGED rows
    BY <1>6 DEF DeleteMessages, TInv, Shaped
  <2>2. Forgotten(w, t) /\ NoTrace(t)
    BY <1>b, <2>1 DEF WipeInv, Forgotten
  <2>3. \A m \in log' : m.conv # c
    BY <2>1 DEF Thread
  <2> QED BY <2>1, <2>2, <2>3 DEF Forgotten, NoTrace, Existing
<1>7. CASE RecordReset(w)
  <2>1. /\ wipe[w].pc = "event" /\ wipe'[w].conv = c /\ wipe'[w].over = wipe[w].over
        /\ wipe'[w].pc \in {"ok", "failed"} /\ UNCHANGED <<rows, log>>
    BY <1>7 DEF RecordReset, TInv, Shaped
  <2>2. Forgotten(w, t) /\ NoTrace(t)
    BY <1>b, <2>1 DEF WipeInv, Forgotten
  <2> QED BY <2>1, <2>2 DEF Forgotten, NoTrace, Existing
<1>8. CASE DeleteConversation(w)
  <2>1. /\ wipe[w].pc = "row" /\ wipe'[w].conv = c /\ wipe'[w].over = wipe[w].over
        /\ wipe'[w].pc = "ok" /\ DeleteRow(c) /\ UNCHANGED born
    BY <1>8 DEF DeleteConversation, TInv, Shaped
  <2>2. Forgotten(w, t) /\ NoTrace(t)
    BY <1>b, <2>1 DEF WipeInv, Forgotten
  <2>3. c \notin Existing' /\ \A m \in log' : m.conv # c
    BY <2>1, DeleteStep DEF DeleteRow, Thread, TInv
  <2> QED BY <2>1, <2>2, <2>3 DEF Forgotten, NoTrace
<1>9. wipe'[w] = wipe[w] \/ Wipe(w)
  BY OthersKeepTheWipe
<1> QED BY <1>1, <1>2, <1>3, <1>4, <1>5, <1>6, <1>7, <1>8, <1>9 DEF Wipe, AskReset, AskDelete

\* resetMemory and deleteConversation: one that reports success has removed, for good, the
\* messages and products of the turns that were over when it was asked for, and what the agent
\* remembers of those past their generation, but for what a generation beside it had recalled.
THEOREM WipesForget == Spec => []WipedForgets
<1>1. Init => WipeInv /\ MemoryInv /\ RequestsOK
  BY DEF Init, WipeInv, MemoryInv, RequestsOK
<1>2. WipeInv /\ MemoryInv => WipedForgets
  BY DEF WipeInv, MemoryInv, WipedForgets, Forgotten, Forgets, Thread
<1>3. TInv /\ RequestsOK /\ WipeInv /\ MemoryInv /\ [Next]_vars => WipeInv' /\ MemoryInv' /\ RequestsOK'
  BY WipeStep, MemoryInvStep, RequestsStep
<1> QED BY <1>1, <1>2, <1>3, InitTypes, TypesStep, PTL DEF Spec
=============================================================================
