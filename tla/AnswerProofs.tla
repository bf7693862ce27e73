---------------------------- MODULE AnswerProofs ----------------------------
(***************************************************************************)
(* Proofs about Answer's turns, for any constants.  The persona: no step   *)
(* leaves two active, a switch shows all of itself or nothing, and no turn *)
(* speaks with one that is long past.  The turns: what each variable can   *)
(* be at each stage, what she has got of the reply, and that the agent     *)
(* never works on a voice note nobody could hear.                          *)
(***************************************************************************)
EXTENDS Answer, ListFacts, FiniteSetTheorems, TLAPS

\* At most one persona is active; that the index and the locks see to it needs to be known
\* of the state before a step, and with it that an open switch has a row as its target.
AtMostOne == \A p, q \in Active : p = q
OpenHasTarget == \A s \in Switches : spc[s] = "deactivated" => target[s] \in Personas
Keyed == DOMAIN persona = Personas /\ DOMAIN spc = Switches /\ DOMAIN target = Switches
Sole == AtMostOne /\ OpenHasTarget /\ Keyed
PInv == Sole /\ scenario \in DOMAIN Scenarios

\* What a step may do to the personas.
Switched(s) ==
    CASE spc'[s] = "switched" -> Active' = {target[s]}
      [] spc'[s] = "missing" -> TRUE
      [] OTHER -> Active' = Active

LEMMA InitPInv ==
  ASSUME Init
  PROVE  PInv
BY DEF Init, InitPersona, PInv, Sole, AtMostOne, OpenHasTarget, Keyed, Active

\* UPDATE ... is_active = false, in a transaction that is still open.
LEMMA DeactivateStep ==
  ASSUME Sole, NEW s \in Switches, NEW p \in Personas, Deactivate(s, p)
  PROVE  Sole' /\ \A r \in Switches : spc'[r] # spc[r] => Switched(r)
<1> USE DEF Sole, Keyed
<1>1. Active' = Active
  BY DEF Deactivate, Active
<1>2. AtMostOne'
  BY <1>1 DEF AtMostOne
<1>3. OpenHasTarget' /\ Keyed'
  BY DEF Deactivate, OpenHasTarget
<1>4. \A r \in Switches : spc'[r] # spc[r] => r = s /\ spc'[r] = "deactivated"
  BY DEF Deactivate
<1> QED BY <1>1, <1>2, <1>3, <1>4 DEF Switched

\* The commit: the target alone is active, or nothing when it is gone.
LEMMA ActivateStep ==
  ASSUME Sole, NEW s \in Switches, Activate(s)
  PROVE  Sole' /\ \A r \in Switches : spc'[r] # spc[r] => Switched(r)
<1> USE DEF Sole, Keyed
<1>1. target[s] \in Personas
  BY DEF Activate, OpenHasTarget
<1>2. CASE persona[target[s]] = "gone"
  <2>1. Active' = {}
    BY <1>1, <1>2 DEF Activate, Active
  <2>2. \A r \in Switches : spc'[r] # spc[r] => r = s /\ spc'[r] = "missing"
    BY <1>2 DEF Activate
  <2> QED BY <2>1, <2>2 DEF Activate, AtMostOne, OpenHasTarget, Switched
<1>3. CASE persona[target[s]] # "gone"
  <2>1. Active' = {target[s]}
    BY <1>1, <1>3 DEF Activate, Active
  <2>2. \A r \in Switches : spc'[r] # spc[r] => r = s /\ spc'[r] = "switched"
    BY <1>3 DEF Activate
  <2> QED BY <2>1, <2>2 DEF Activate, AtMostOne, OpenHasTarget, Switched
<1> QED BY <1>2, <1>3

LEMMA AbortStep ==
  ASSUME Sole, NEW s \in Switches, Abort(s)
  PROVE  Sole' /\ \A r \in Switches : spc'[r] # spc[r] => Switched(r)
<1> USE DEF Sole, Keyed
<1>1. Active' = Active
  BY DEF Abort, Active
<1>2. \A r \in Switches : spc'[r] # spc[r] => r = s /\ spc'[r] = "failed"
  BY DEF Abort
<1> QED BY <1>1, <1>2 DEF Abort, AtMostOne, OpenHasTarget, Switched

\* create, update and delete never make a second row active: a new row is idle, and the
\* index refuses an update that would.
LEMMA EditStep ==
  ASSUME Sole, EditPersona
  PROVE  Sole' /\ UNCHANGED spc
<1> USE DEF Sole, Keyed
<1>1. PICK p \in Personas : Create(p) \/ Erase(p)
                            \/ \E to \in {"active", "idle"}, empty \in BOOLEAN : Update(p, to, empty)
  BY DEF EditPersona
<1>2. UNCHANGED <<spc, target>> /\ DOMAIN persona' = Personas
  BY <1>1 DEF Create, Erase, Update
<1>3. OpenHasTarget' /\ Keyed'
  BY <1>2 DEF OpenHasTarget
<1>4. CASE Create(p) \/ Erase(p)
  <2>1. Active' \subseteq Active
    BY <1>4 DEF Create, Erase, Active
  <2> QED BY <1>2, <1>3, <2>1 DEF AtMostOne
<1>5. ASSUME NEW to \in {"active", "idle"}, NEW empty \in BOOLEAN, Update(p, to, empty)
      PROVE  AtMostOne'
  <2>1. CASE to = "active"
    <3>1. Active' \subseteq {p}
      BY <1>5, <2>1 DEF Update, Active
    <3> QED BY <3>1 DEF AtMostOne
  <2>2. CASE to = "idle"
    <3>1. Active' \subseteq Active
      BY <1>5, <2>2 DEF Update, Active
    <3> QED BY <3>1 DEF AtMostOne
  <2> QED BY <2>1, <2>2
<1> QED BY <1>1, <1>2, <1>3, <1>4, <1>5

\* Turns and the panel read the personas and change the cached prompt at most.
LEMMA OtherStep ==
  ASSUME Sole, UNCHANGED <<persona, spc, target>>
  PROVE  Sole'
BY DEF Sole, AtMostOne, OpenHasTarget, Keyed, Active

LEMMA GenerateReadsOnly ==
  ASSUME NEW t \in Turns, Generate(t)
  PROVE  UNCHANGED <<persona, spc, target>>
BY DEF Generate, AskActive, ReadActive, Cached, ReadFails, Fill, personaVars, switchVars

\* Each step of the specification, at the personas.
LEMMA StepPInv ==
  ASSUME PInv, [Next]_vars
  PROVE  PInv' /\ \A s \in Switches : spc'[s] # spc[s] => Switched(s)
<1> SUFFICES Sole' /\ \A s \in Switches : spc'[s] # spc[s] => Switched(s)
  <2>1. UNCHANGED scenario
    BY DEF Next, Begin, Proceed, Panel, Personnel, vars, answerVars
  <2> QED BY <2>1 DEF PInv
<1>0. Sole /\ Setting.switches \subseteq Switches
  BY SwitchesAreNamed DEF PInv, Setting
<1>1. CASE UNCHANGED vars
  BY <1>0, <1>1, OtherStep DEF vars, personaVars, switchVars
<1>2. ASSUME NEW t \in Turns, Begin(t) \/ Proceed(t)
      PROVE  UNCHANGED <<persona, spc, target>>
  BY <1>2, GenerateReadsOnly DEF Begin, Proceed, personaVars, switchVars
<1>3. CASE Panel
  BY <1>0, <1>3, OtherStep DEF Panel, personaVars, switchVars
<1>4. CASE Personnel
  <2>1. ASSUME NEW s \in Switches, Switch(s)
        PROVE  Sole' /\ \A r \in Switches : spc'[r] # spc[r] => Switched(r)
    BY <1>0, <2>1, DeactivateStep, ActivateStep, AbortStep DEF Switch
  <2>2. CASE Expire
    BY <1>0, <2>2, OtherStep DEF Expire, switchVars
  <2>3. CASE EditPersona
    BY <1>0, <2>3, EditStep
  <2> QED BY <1>0, <1>4, <2>1, <2>2, <2>3 DEF Personnel
<1> QED BY <1>0, <1>1, <1>2, <1>3, <1>4, OtherStep DEF Next

\* At most one element means a cardinality of at most one.
LEMMA AtMostOneCounted ==
  ASSUME NEW S, \A x, y \in S : x = y
  PROVE  Cardinality(S) <= 1
<1>1. CASE S = {}
  BY <1>1, FS_EmptySet
<1>2. ASSUME NEW x \in S
      PROVE  Cardinality(S) <= 1
  <2>1. S = {x}
    OBVIOUS
  <2>2. Cardinality({x}) = 1
    BY FS_Singleton
  <2> QED BY <2>1, <2>2
<1> QED BY <1>1, <1>2

\* The invariant of the personas, for any personas, switches, turns and scenarios whose
\* switches are among them.
THEOREM PersonaInvariance == Spec => []PInv
<1>1. Init => PInv
  BY InitPInv
<1>2. PInv /\ [Next]_vars => PInv'
  BY StepPInv
<1> QED BY <1>1, <1>2, PTL DEF Spec

\* setActive, create, update and delete in any interleaving never leave two personas
\* active, and a switch leaves its target alone active at its commit, unless that is gone, and
\* changes nothing before.
THEOREM OnePersonaAtATime == Spec => OnePersona
<1>1. PInv /\ PInv' /\ [Next]_vars =>
        [/\ Cardinality(Active') <= 1
         /\ \A s \in Switches : spc'[s] # spc[s] =>
              CASE spc'[s] = "switched" -> Active' = {target[s]}
                [] spc'[s] = "missing" -> TRUE
                [] OTHER -> Active' = Active]_personaVars
  <2> SUFFICES ASSUME PInv, PInv', [Next]_vars
               PROVE  /\ Cardinality(Active') <= 1
                      /\ \A s \in Switches : spc'[s] # spc[s] => Switched(s)
    BY DEF Switched
  <2>1. \A p, q \in Active' : p = q
    BY DEF PInv, Sole, AtMostOne
  <2> QED BY <2>1, AtMostOneCounted, StepPInv
<1> QED BY <1>1, PersonaInvariance, PTL DEF Spec, OnePersona

-----------------------------------------------------------------------------
(* The cached prompt. *)

\* What the active row's block is now is recent, too.
Fresh == /\ Block \in recent
         /\ cache \in recent \cup {NoCache}
         /\ DOMAIN fill = Turns /\ \A t \in Turns : fill[t] \in recent \cup {NoCache}

\* A request about the rows makes its outcome recent and forgets nothing.
LEMMA RowsStayFresh ==
  ASSUME Fresh, EditPersona \/ \E s \in Switches : Switch(s)
  PROVE  Fresh'
<1>1. Rows
  BY DEF EditPersona, Create, Erase, Update, Switch, Deactivate, Activate, Abort
<1>2. Block' \in recent' /\ recent \subseteq recent'
  BY <1>1 DEF Rows
<1> QED BY <1>1, <1>2 DEF Rows, Fresh

\* The block is the rows'.
LEMMA BlockOfRows ==
  ASSUME UNCHANGED <<persona, blank>>
  PROVE  Block' = Block
BY DEF Block, Active

\* When the minute is over only what may still be written is kept, or the present block.
LEMMA ExpiryStaysFresh ==
  ASSUME Fresh, Expire
  PROVE  Fresh'
<1>1. Block' = Block /\ cache' = NoCache /\ fill' = fill
  BY BlockOfRows DEF Expire, switchVars
<1>2. CASE \A t \in Turns : fill[t] = NoCache
  BY <1>1, <1>2 DEF Expire, Fresh
<1>3. CASE recent' = recent
  BY <1>1, <1>3 DEF Fresh
<1> QED BY <1>2, <1>3 DEF Expire

\* A turn reads the block as it is, and caches what it has read.
LEMMA PromptStaysFresh ==
  ASSUME Fresh, NEW t \in Turns,
         AskActive(t) \/ ReadActive(t) \/ Cached(t) \/ ReadFails(t) \/ Fill(t)
  PROVE  Fresh'
<1>1. Block' = Block /\ recent' = recent
  BY BlockOfRows DEF AskActive, ReadActive, Cached, ReadFails, Fill, personaVars, switchVars
<1>2. CASE ReadActive(t)
  BY <1>1, <1>2 DEF ReadActive, Fresh
<1>3. CASE Fill(t)
  BY <1>1, <1>3 DEF Fill, Fresh
<1>4. CASE AskActive(t) \/ Cached(t) \/ ReadFails(t)
  BY <1>1, <1>4 DEF AskActive, Cached, ReadFails, personaVars, Fresh
<1> QED BY <1>2, <1>3, <1>4

\* Each step of the specification, at the cached prompt.
LEMMA StepFresh ==
  ASSUME PInv, Fresh, [Next]_vars
  PROVE  Fresh'
<1>1. Setting.switches \subseteq Switches
  BY SwitchesAreNamed DEF PInv, Setting
<1>2. CASE UNCHANGED personaVars
  BY <1>2, BlockOfRows DEF personaVars, switchVars, Fresh
<1>3. ASSUME NEW t \in Turns, Generate(t)
      PROVE  Fresh'
  BY <1>3, PromptStaysFresh DEF Generate
<1>4. CASE Personnel
  BY <1>1, <1>4, RowsStayFresh, ExpiryStaysFresh DEF Personnel
<1>5. [Next]_vars => UNCHANGED personaVars \/ Personnel \/ \E t \in Turns : Generate(t)
  BY DEF Next, Begin, Proceed, Panel, vars
<1> QED BY <1>2, <1>3, <1>4, <1>5

\* However turns of any customers fill the cached prompt, and the personas are edited and
\* switched meanwhile, no prompt is cached or about to be that the active row did not have
\* since the cache last expired with nobody filling it: a newer prompt may be overwritten by
\* an older one, a failed read's default never is cached.
THEOREM PromptIsRecent == Spec => []PersonaIsRecent
<1>1. Init => Fresh
  BY DEF Init, InitPersona, Fresh
<1>2. PInv /\ Fresh /\ [Next]_vars => Fresh'
  BY StepFresh
<1>3. Fresh => PersonaIsRecent
  BY DEF Fresh, PersonaIsRecent
<1> QED BY <1>1, <1>2, <1>3, PersonaInvariance, PTL DEF Spec

-----------------------------------------------------------------------------
(* The turns and their variables. *)

\* The turns keep their variables, and what they remember of products are products.
Fielded(r) ==
    /\ DOMAIN r = DOMAIN Idle
    /\ r.state \subseteq Products /\ r.ids \subseteq Products
    /\ r.media \subseteq Products /\ r.matched \subseteq Products
Shape == DOMAIN turn = Turns /\ last \subseteq Products /\ \A t \in Turns : Fielded(turn[t])

\* A step of t that leaves the other turns alone.
Only(t) == turn' \in {turn, [turn EXCEPT ![t] = turn'[t]]} /\ Fielded(turn'[t])
LEMMA DeliverKeeps ==
  ASSUME Shape, NEW t \in Turns, NEW parts, NEW photos, NEW ids \in SUBSET Products, Deliver(t, parts, photos, ids)
  PROVE  Only(t)
BY DEF Shape, Fielded, Deliver, Idle, Only

\* Before retrieval.
LEMMA IntakeKeeps ==
  ASSUME Shape, NEW t \in Turns,
         (\E posts : Arrive(t, posts)) \/ Hear(t) \/ Gate(t) \/ Throw(t) \/ Triage(t) \/ Degrade(t) \/ See(t)
  PROVE  Only(t)
<1> USE DEF Shape, Fielded, Only, Idle
<1>1. CASE \E posts : Arrive(t, posts)
  <2>0. PICK posts : Arrive(t, posts)
    BY <1>1
  <2> DEFINE m == MergeTurns(Batch(posts))
             msg == [typed |-> Kind(m.text), photo |-> m.lastImageUrl, voice |-> m.lastAudioUrl,
                     ad |-> m.adRef # Missing]
  <2>1. turn' = [turn EXCEPT ![t].pc = "hear", ![t].state = last, ![t].msg = msg]
    BY <2>0 DEF Arrive
  <2> HIDE DEF msg
  <2> QED BY <2>1
<1>2. CASE Hear(t)
  BY <1>2 DEF Hear
<1>3. CASE Gate(t) \/ Throw(t)
  BY <1>3 DEF Gate, Throw
<1>4. CASE Triage(t)
  BY <1>4, DeliverKeeps DEF Triage
<1>5. CASE Degrade(t)
  BY <1>5, DeliverKeeps DEF Degrade
<1>6. CASE See(t)
  <2>1. PICK put :
          turn' = [turn EXCEPT ![t].pc = "context", ![t].msg.voice = Missing, ![t].says = Missing, ![t].put = put]
    BY <1>6 DEF See
  <2> QED BY <2>1
<1> QED BY <1>1, <1>2, <1>3, <1>4, <1>5, <1>6

\* A retrieval starts and ends.
LEMMA RetrieveKeeps ==
  ASSUME Shape, NEW t \in Turns, NEW products, NEW asked, NEW for,
         turn' = [turn EXCEPT ![t] = Retrieve(t, products, asked, for)]
  PROVE  Only(t)
BY DEF Shape, Fielded, Only, Idle, Retrieve

LEMMA RetrievedKeeps ==
  ASSUME Shape, NEW t \in Turns, NEW found, turn' = [turn EXCEPT ![t] = Retrieved(t, found)]
  PROVE  Only(t)
BY DEF Shape, Fielded, Only, Idle, Retrieved

\* The pre-fetch, the tool's retrieval, and one that fails.
LEMMA RetrievalKeeps ==
  ASSUME Shape, NEW t \in Turns,
         SkipPrefetch(t) \/ Prefetch(t) \/ RetrievalFails(t) \/ LookUp(t)
  PROVE  Only(t)
<1> USE DEF Shape, Fielded, Only, Idle
<1>1. CASE SkipPrefetch(t)
  BY <1>1 DEF SkipPrefetch
<1>2. CASE Prefetch(t)
  <2>1. PICK products, asked :
          \/ turn' = [turn EXCEPT ![t] = Retrieve(t, products, asked, "note")]
          \/ turn' = [turn EXCEPT ![t].pc = "recap"]
    BY <1>2 DEF Prefetch
  <2>2. CASE turn' = [turn EXCEPT ![t].pc = "recap"]
    BY <2>2
  <2> QED BY <2>1, <2>2, RetrieveKeeps
<1>3. CASE RetrievalFails(t)
  BY <1>3, RetrievedKeeps DEF RetrievalFails
<1>4. CASE LookUp(t)
  <2>1. PICK products, asked : turn' = [turn EXCEPT ![t] = [Retrieve(t, products, asked, "tool") EXCEPT !.calls = @ + 1]]
    BY <1>4 DEF LookUp
  <2> QED BY <2>1 DEF Retrieve
<1> QED BY <1>1, <1>2, <1>3, <1>4

\* Only products are remembered as shown.
LEMMA ShownAreProducts ==
  ASSUME Shape, NEW t \in Turns
  PROVE  ShownIds(turn[t]) \subseteq SUBSET Products
BY DEF Shape, Fielded, ShownIds

\* The generation and the delivery.
LEMMA DeliveryKeeps ==
  ASSUME Shape, NEW t \in Turns,
         \/ Generate(t) \/ (\E p \in Products : ShowMedia(t, p))
         \/ RecapMisses(t) \/ RecapEnds(t)
         \/ Respond(t) \/ RespondEmpty(t) \/ GenerateThrows(t)
         \/ Send(t) \/ SendPhoto(t) \/ Complete(t) \/ Fallback(t) \/ Return(t) \/ Remember(t)
  PROVE  Only(t)
<1> USE DEF Shape, Fielded, Only, Idle
<1>1. CASE Generate(t)
  <2>1. CASE UNCHANGED turn
    BY <2>1
  <2>2. CASE turn' = [turn EXCEPT ![t].pc = "think", ![t].tries = @ + 1, ![t].calls = 0,
                                  ![t].cards = {}, ![t].matched = {}, ![t].media = {}]
    <3>1. turn'[t] = [turn[t] EXCEPT !.pc = "think", !.tries = @ + 1, !.calls = 0,
                                     !.cards = {}, !.matched = {}, !.media = {}]
      BY <2>2
    <3>2. Fielded(turn'[t])
      BY <3>1
    <3>3. turn' = [turn EXCEPT ![t] = turn'[t]]
      BY <2>2, <3>1
    <3> QED BY <3>2, <3>3
  <2> QED BY <1>1, <2>1, <2>2 DEF Generate
<1>2. ASSUME NEW p \in Products, ShowMedia(t, p)
      PROVE  Only(t)
  <2>1. PICK sink : turn' = [turn EXCEPT ![t].calls = @ + 1, ![t].media = @ \cup {p}, ![t].sink = sink]
    BY <1>2 DEF ShowMedia
  <2> QED BY <2>1
<1>3. CASE RecapMisses(t)
  BY <1>3 DEF RecapMisses
<1>4. CASE RecapEnds(t)
  BY <1>4 DEF RecapEnds
<1>5. CASE Respond(t)
  BY <1>5, DeliverKeeps, ShownAreProducts DEF Respond
<1>6. CASE RespondEmpty(t)
  <2>1. CASE turn' = [turn EXCEPT ![t].pc = "generate"]
    BY <2>1
  <2> QED BY <1>6, <2>1, DeliverKeeps, ShownAreProducts DEF RespondEmpty
<1>7. CASE GenerateThrows(t)
  BY <1>7, DeliverKeeps DEF GenerateThrows
<1>8. ASSUME NEW got, Onward(t, got) \/ SendFails(t, got)
      PROVE  Only(t)
  BY <1>8 DEF Onward, SendFails
<1>9. CASE Send(t)
  BY <1>8, <1>9 DEF Send
<1>10. CASE SendPhoto(t)
  BY <1>8, <1>10 DEF SendPhoto
<1>11. CASE Complete(t)
  BY <1>11 DEF Complete
<1>12. CASE Fallback(t)
  <2>1. PICK got, pc : \/ turn' = [turn EXCEPT ![t].got = got, ![t].pc = pc]
                      \/ turn' = [turn EXCEPT ![t].pc = pc]
    BY <1>12 DEF Fallback
  <2> QED BY <2>1
<1>13. CASE Return(t)
  BY <1>13 DEF Return
<1>14. CASE Remember(t)
  BY <1>14 DEF Remember
<1> QED BY <1>1, <1>2, <1>3, <1>4, <1>5, <1>6, <1>7, <1>9, <1>10, <1>11, <1>12, <1>13, <1>14

\* A tier is read.
LEMMA ReadKeeps ==
  ASSUME Shape, NEW t \in Turns, ReadSpecific(t) \/ ReadGlobal(t)
  PROVE  Only(t)
<1>1. CASE ReadSpecific(t)
  <2>1. PICK told, n : \/ turn' = [turn EXCEPT ![t] = Retrieved(t, told)]
                      \/ turn' = [turn EXCEPT ![t] = ThenGlobal(t, told, n)]
    BY <1>1 DEF ReadSpecific
  <2>2. CASE turn' = [turn EXCEPT ![t] = ThenGlobal(t, told, n)]
    BY <2>2 DEF Shape, Fielded, Only, Idle, ThenGlobal
  <2> QED BY <2>1, <2>2, RetrievedKeeps
<1>2. CASE ReadGlobal(t)
  <2>1. PICK found : \/ turn' = [turn EXCEPT ![t] = Retrieve(t, {}, TRUE, "note")]
                     \/ turn' = [turn EXCEPT ![t] = Retrieved(t, found)]
    BY <1>2 DEF ReadGlobal
  <2> QED BY <2>1, RetrieveKeeps, RetrievedKeeps
<1> QED BY <1>1, <1>2

\* The recap of what an earlier turn showed, and the cards of a search.
LEMMA ShownKeeps ==
  ASSUME Shape, NEW t \in Turns, Recap(t) \/ Search(t)
  PROVE  Only(t)
<1> USE DEF Shape, Fielded, Only, Idle
<1>1. CASE Recap(t)
  <2>1. PICK p, recap : turn' = [turn EXCEPT ![t].state = @ \ {p}, ![t].recap = recap]
    BY <1>1 DEF Recap
  <2> QED BY <2>1
<1>2. CASE Search(t)
  <2>1. PICK ps \in SUBSET Products, listed \in BOOLEAN :
          turn' = [turn EXCEPT ![t].calls = @ + 1, ![t].cards = @ \cup ps,
                               ![t].matched = IF listed THEN @ ELSE @ \cup ps]
    BY <1>2 DEF Search
  <2> QED BY <2>1
<1> QED BY <1>1, <1>2

\* Each step of a turn keeps its variables, and the other turns.
LEMMA TurnStep ==
  ASSUME Shape, NEW t \in Turns, Begin(t) \/ Proceed(t)
  PROVE  Only(t)
<1>1. CASE Begin(t)
  <2>1. \E posts : Arrive(t, posts)
    BY <1>1 DEF Begin
  <2> QED BY <2>1, IntakeKeeps
<1>2. CASE Proceed(t)
  BY <1>2, IntakeKeeps, RetrievalKeeps, DeliveryKeeps, ReadKeeps, ShownKeeps DEF Proceed, Talk
<1> QED BY <1>1, <1>2

\* What lands in lastProductIds was shown.
LEMMA LastStep ==
  ASSUME Shape, NEW t \in Turns, Begin(t) \/ Proceed(t)
  PROVE  last' \subseteq Products
<1>1. CASE Remember(t)
  BY <1>1 DEF Remember, Shape, Fielded
<1>2. CASE ~Remember(t)
  <2>1. UNCHANGED last
    BY <1>2 DEF Begin, Arrive, Proceed, Talk, Hear, Gate, Throw, Triage, Degrade, See, SkipPrefetch,
       Prefetch, RetrievalFails, ReadSpecific, ReadGlobal, Recap, RecapMisses, RecapEnds, Generate,
       Search, LookUp, ShowMedia, Respond, RespondEmpty, GenerateThrows, Send, SendPhoto, Complete,
       Fallback, Return
  <2> QED BY <2>1 DEF Shape
<1> QED BY <1>1, <1>2

\* Each step of the specification, at the turns' variables.
LEMMA StepShape ==
  ASSUME Shape, [Next]_vars
  PROVE  Shape'
<1>1. CASE UNCHANGED <<turn, last>>
  BY <1>1 DEF Shape, Fielded
<1>2. ASSUME NEW t \in Turns, Begin(t) \/ Proceed(t)
      PROVE  Shape'
  <2>1. Only(t) /\ last' \subseteq Products
    BY <1>2, TurnStep, LastStep
  <2>2. DOMAIN turn' = Turns /\ \A u \in Turns \ {t} : turn'[u] = turn[u]
    BY <2>1 DEF Only, Shape
  <2>3. \A u \in Turns : Fielded(turn'[u])
    BY <2>1, <2>2 DEF Only, Shape
  <2> QED BY <2>1, <2>2, <2>3 DEF Shape
<1>3. Next => UNCHANGED <<turn, last>> \/ \E t \in Turns : Begin(t) \/ Proceed(t)
  BY DEF Next, Panel, Personnel, answerVars
<1> QED BY <1>1, <1>2, <1>3 DEF vars, answerVars

\* Turns remember products only, for any messages, replies, tools and panel requests.
THEOREM ShapeInvariance == Spec => []Shape
<1>1. Init => Shape
  BY LastIsProducts DEF Init, Shape, Fielded, Idle, Setting
<1>2. Shape /\ [Next]_vars => Shape'
  BY StepShape
<1> QED BY <1>1, <1>2, PTL DEF Spec

-----------------------------------------------------------------------------
(* The message: what a post's events and a batch's items come to. *)

\* An item with something in it.
Item == {x \in [text : Seq(Lines), lastImageUrl : Files \cup {Missing}, lastAudioUrl : Files \cup {Missing},
                externalMessageId : STRING \cup {Missing}, adRef : {"ref", Missing}] :
            x.text # <<>> \/ x.lastImageUrl # Missing \/ x.lastAudioUrl # Missing}

\* The last value of a list is one of them, and is there if any is.
LEMMA LastOfThem ==
  ASSUME NEW V, NEW values \in Seq(V)
  PROVE  /\ LastOf(values) \in V \cup {Missing}
         /\ (\E i \in DOMAIN values : values[i] # Missing) => LastOf(values) # Missing
<1> DEFINE P == Present(values)
<1>1. P \subseteq 1..Len(values) /\ Len(values) \in Nat /\ \A i \in P : values[i] \in V /\ values[i] # Missing
  BY DEF Present
<1>2. P # {} <=> \E i \in DOMAIN values : values[i] # Missing
  BY DEF Present
<1> HIDE DEF P
<1>3. P # {} => Max(P) \in P
  BY <1>1, GreatestIn
<1>4. LastOf(values) = IF P = {} THEN Missing ELSE values[Max(P)]
  BY DEF LastOf, P
<1> QED BY <1>1, <1>2, <1>3, <1>4

\* The same of the first.
LEMMA FirstOfThem ==
  ASSUME NEW V, NEW values \in Seq(V)
  PROVE  /\ FirstOf(values) \in V \cup {Missing}
         /\ (\E i \in DOMAIN values : values[i] # Missing) => FirstOf(values) # Missing
<1> DEFINE P == Present(values)
<1>1. P \subseteq 1..Len(values) /\ Len(values) \in Nat /\ \A i \in P : values[i] \in V /\ values[i] # Missing
  BY DEF Present
<1>2. P # {} <=> \E i \in DOMAIN values : values[i] # Missing
  BY DEF Present
<1> HIDE DEF P
<1>3. P # {} => Min(P) \in P
  <2>1. P \subseteq Nat
    BY <1>1
  <2> QED BY <2>1, LeastIn
<1>4. FirstOf(values) = IF P = {} THEN Missing ELSE values[Min(P)]
  BY DEF FirstOf, P
<1> QED BY <1>1, <1>2, <1>3, <1>4

\* An attachment's url is a file or nothing.
LEMMA UrlsAreFiles ==
  ASSUME NEW event \in Event(Lines, Files), NEW type
  PROVE  FirstUrl(event, type) \in Files \cup {Missing}
<1> DEFINE A == [type : {"image", "audio", "video"}, url : Files \cup {Missing}]
           list == event.attachments
           P == {i \in DOMAIN list : list[i].type = type}
<1>1. list \in Seq(A)
  BY DEF Event
<1>2. P \subseteq Nat /\ \A i \in P : list[i] \in A
  <2> HIDE DEF A
  <2> QED BY <1>1
<1>3. \A i \in P : list[i].url \in Files \cup {Missing}
  BY <1>2
<1>4. FirstUrl(event, type) = IF P = {} THEN Missing ELSE list[Min(P)].url
  BY DEF FirstUrl
<1> HIDE DEF P, list, A
<1>5. P # {} => Min(P) \in P
  BY <1>2, LeastIn
<1> QED BY <1>3, <1>4, <1>5

\* The text of an event is a text, be it empty.
LEMMA TextIsText ==
  ASSUME NEW event \in Event(Lines, Files), Missing # <<>>
  PROVE  ExtractText(event) \in Seq(Lines)
<1> DEFINE text == Seq(Lines) \cup {Missing}
           empty == <<>>
<1>1. /\ {event.text, event.title, event.payload} \subseteq text /\ empty \in Seq(Lines)
      /\ event.quick # Missing => event.quick.payload \in text /\ event.quick.title \in text
  BY DEF Event
<1>2. CASE event.quick # Missing
  <2> DEFINE values == <<event.quick.payload, event.quick.title, event.text, empty>>
  <2>1. values \in Seq(text) /\ 4 \in DOMAIN values /\ values[4] = empty
    <3> HIDE DEF text, empty
    <3>1. event.quick.payload \in text /\ event.quick.title \in text /\ event.text \in text /\ empty \in text
      BY <1>1, <1>2 DEF text
    <3> QED BY <3>1
  <2>2. FirstOf(values) \in text \cup {Missing} /\ FirstOf(values) # Missing
    <3> HIDE DEF text, values
    <3> QED BY <2>1, FirstOfThem
  <2>3. ExtractText(event) = FirstOf(values)
    BY <1>2 DEF ExtractText
  <2> QED BY <2>2, <2>3
<1>3. CASE event.quick = Missing /\ event.text \notin {Missing, <<>>}
  <2>1. ExtractText(event) = event.text
    BY <1>3 DEF ExtractText
  <2> QED BY <1>1, <1>3, <2>1
<1>4. CASE event.quick = Missing /\ event.text \in {Missing, <<>>}
  <2>1. ExtractText(event) = OrEmpty(event.title) \o OrEmpty(event.payload)
    BY <1>4 DEF ExtractText
  <2>2. OrEmpty(event.title) \in Seq(Lines) /\ OrEmpty(event.payload) \in Seq(Lines)
    BY <1>1 DEF OrEmpty
  <2> QED BY <2>1, <2>2
<1> QED BY <1>2, <1>3, <1>4

\* What an event that is not dropped puts into the batch has something in it.
LEMMA HeardIsItem ==
  ASSUME NEW event \in Event(Lines, Files), Missing # <<>>, NEW hears,
         FilterAudio(hears, NormalizeEvent(event)) # Missing
  PROVE  ToIncoming(FilterAudio(hears, NormalizeEvent(event))) \in Item
<1> DEFINE m == [text |-> ExtractText(event), image |-> ImageUrl(event), audio |-> AudioUrl(event), mid |-> event.mid,
                 referral |-> IF Referred(event) THEN ExtractReferral(event) ELSE Missing]
           h == FilterAudio(hears, NormalizeEvent(event))
<1>1. m.text \in Seq(Lines) /\ m.image \in Files \cup {Missing} /\ m.audio \in Files \cup {Missing}
  BY TextIsText, UrlsAreFiles DEF ImageUrl, AudioUrl
<1>2. m.mid \in STRING \cup {Missing}
  BY DEF Event
<1>3. NormalizeEvent(event) \in {m, Missing}
      /\ (NormalizeEvent(event) # Missing => m.text # <<>> \/ m.image # Missing \/ m.audio # Missing)
  BY DEF NormalizeEvent
<1>4. NormalizeEvent(event) # Missing /\ h \in {m, [m EXCEPT !.audio = Missing]}
      /\ (h # m => m.text # <<>> \/ m.image # Missing)
  <2>1. NormalizeEvent(event) # Missing
    BY DEF FilterAudio
  <2>2. NormalizeEvent(event) = m
    BY <2>1, <1>3
  <2>3. h = IF m = Missing \/ hears THEN m ELSE IF m.text = <<>> /\ m.image = Missing THEN Missing ELSE [m EXCEPT !.audio = Missing]
    BY <2>2 DEF FilterAudio
  <2> QED BY <2>1, <2>3
<1> HIDE DEF h
<1>5. /\ h.text = m.text /\ h.image = m.image /\ h.audio \in {m.audio, Missing} /\ h.mid = m.mid
      /\ h.audio # m.audio => m.text # <<>> \/ m.image # Missing
  BY <1>4
<1>6. ToIncoming(h) = [text |-> h.text, lastImageUrl |-> h.image, lastAudioUrl |-> h.audio, externalMessageId |-> h.mid,
                       adRef |-> IF h.referral # Missing /\ h.referral.ref THEN "ref" ELSE Missing]
  BY DEF ToIncoming
<1>7. m.text # <<>> \/ m.image # Missing \/ m.audio # Missing
  BY <1>3, <1>4
<1> HIDE DEF m
<1> QED BY <1>1, <1>2, <1>5, <1>6, <1>7 DEF Item, h

Repeats(kept, item) ==
    /\ item.externalMessageId # Missing
    /\ \E i \in DOMAIN kept : kept[i].externalMessageId = item.externalMessageId
Dedups(g, items) ==
    g = [i \in 0..Len(items) |->
           IF i = 0 THEN <<>> ELSE IF Repeats(g[i-1], items[i]) THEN g[i-1] ELSE Append(g[i-1], items[i])]

\* The function behind Deduped exists.
LEMMA DedupsExist ==
  ASSUME NEW S, NEW items, NEW N \in Nat, Len(items) = N, \A i \in 1..N : items[i] \in S
  PROVE  \E g : Dedups(g, items)
<1> DEFINE Y == Seq(S)
           none == <<>>
           step == [i \in 1..N |-> [t \in Y |-> IF Repeats(t, items[i]) THEN t ELSE Append(t, items[i])]]
<1>1. none \in Y
  OBVIOUS
<1>2. ASSUME NEW i \in 1..N, NEW t \in Y
      PROVE (IF Repeats(t, items[i]) THEN t ELSE Append(t, items[i])) \in Y
  OBVIOUS
<1>3. Steps(step, N, Y)
  BY <1>2 DEF Steps
<1>4. \A i \in 1..N : \A t \in Y : step[i][t] = IF Repeats(t, items[i]) THEN t ELSE Append(t, items[i])
  OBVIOUS
<1> HIDE DEF step, none, Y
<1>5. PICK f : Recurses(f, none, step, N, Y)
  BY <1>1, <1>3, Recursion
<1> USE DEF Recurses
<1>6. \A i \in 1..N : f[i] = IF Repeats(f[i-1], items[i]) THEN f[i-1] ELSE Append(f[i-1], items[i])
  <2> TAKE i \in 1..N
  <2>1. f[i-1] \in Y
    BY <1>1, <1>5
  <2> QED BY <2>1, <1>4, <1>5
<1>7. ASSUME NEW i \in 0..N
      PROVE  f[i] = IF i = 0 THEN none ELSE IF Repeats(f[i-1], items[i]) THEN f[i-1] ELSE Append(f[i-1], items[i])
  <2>1. i # 0 => i \in 1..N
    BY <1>1
  <2> QED BY <2>1, <1>5, <1>6
<1>8. f = [i \in 0..N |-> f[i]]
  BY <1>5
<1>9. Dedups(f, items)
  BY <1>1, <1>7, <1>8 DEF Dedups, none
<1> QED BY <1>9

\* Deduped keeps items of the list, and the first of it.
LEMMA DedupedKeeps ==
  ASSUME NEW S, NEW items \in Seq(S)
  PROVE  Deduped(items) \in Seq(S) /\ (items # <<>> => Deduped(items) # <<>>)
<1> DEFINE N == Len(items)
           g == CHOOSE h : Dedups(h, items)
           T == {i \in Nat : i <= N => g[i] \in Seq(S) /\ (i # 0 => g[i] # <<>>)}
<1>1. Dedups(g, items)
  <2>1. N \in Nat /\ Len(items) = N /\ \A i \in 1..N : items[i] \in S
    OBVIOUS
  <2>2. \E h : Dedups(h, items)
    <3> HIDE DEF N
    <3> QED BY <2>1, DedupsExist
  <2> QED BY <2>2
<1>2. Deduped(items) = g[N]
  BY DEF Deduped, Dedups, Repeats
<1>3. N \in Nat /\ Len(items) = N /\ (\A i \in 1..N : items[i] \in S) /\ (items # <<>> => N # 0)
  OBVIOUS
<1> HIDE DEF g, N
<1>5. /\ g[0] = <<>>
      /\ \A i \in 0..N : i # 0 => g[i] = IF Repeats(g[i-1], items[i]) THEN g[i-1] ELSE Append(g[i-1], items[i])
  <2>1. \A i \in 0..N : g[i] = IF i = 0 THEN <<>>
                              ELSE IF Repeats(g[i-1], items[i]) THEN g[i-1] ELSE Append(g[i-1], items[i])
    BY <1>1, <1>3 DEF Dedups
  <2>2. 0 \in 0..N
    BY <1>3
  <2> QED BY <2>1, <2>2
<1>6. 0 \in T
  <2>1. <<>> \in Seq(S)
    OBVIOUS
  <2> QED BY <2>1, <1>5
<1>7. ASSUME NEW i \in Nat, i \in T PROVE i + 1 \in T
  <2> SUFFICES ASSUME i + 1 <= N
               PROVE  g[i+1] \in Seq(S) /\ g[i+1] # <<>>
    OBVIOUS
  <2>1. g[i] \in Seq(S)
    BY <1>3, <1>7
  <2>2. i + 1 \in 0..N /\ i + 1 # 0 /\ (i + 1) - 1 = i /\ i + 1 \in 1..N
    BY <1>3
  <2>3. g[i+1] = IF Repeats(g[i], items[i+1]) THEN g[i] ELSE Append(g[i], items[i+1])
    BY <2>2, <1>5
  <2>4. items[i+1] \in S
    BY <1>3, <2>2
  <2>5. Append(g[i], items[i+1]) \in Seq(S) /\ Append(g[i], items[i+1]) # <<>>
    BY <2>1, <2>4
  <2>6. Repeats(g[i], items[i+1]) => g[i] # <<>>
    <3>1. DOMAIN <<>> = {}
      OBVIOUS
    <3> QED BY <3>1 DEF Repeats
  <2> QED BY <2>1, <2>3, <2>5, <2>6
<1> HIDE DEF T
<1>8. N \in T
  BY <1>3, <1>6, <1>7, Induction
<1> QED BY <1>2, <1>3, <1>8 DEF T

\* A post puts items into the buffer.
LEMMA EnqueuedItems ==
  ASSUME NEW post \in Post(Lines, Files), Missing # <<>>, NEW guard, NEW hears
  PROVE  Enqueued(guard, hears, post) \in Seq(Item)
<1> DEFINE heard(i) == FilterAudio(hears, NormalizeEvent(post.events[i]))
           incoming(i) == IF heard(i) = Missing THEN <<>> ELSE <<ToIncoming(heard(i))>>
           list == [i \in DOMAIN post.events |-> incoming(i)]
           none == <<>>
<1>1. post.events \in Seq(Event(Lines, Files))
  BY DEF Post
<1>2. DOMAIN post.events = 1..Len(post.events) /\ Len(post.events) \in Nat
      /\ \A i \in DOMAIN post.events : post.events[i] \in Event(Lines, Files)
  BY <1>1
<1>3. none \in Seq(Item)
  OBVIOUS
<1>4. \A i \in DOMAIN post.events : incoming(i) \in Seq(Item)
  <2> TAKE i \in DOMAIN post.events
  <2>1. post.events[i] \in Event(Lines, Files)
    BY <1>2
  <2>2. heard(i) # Missing => ToIncoming(heard(i)) \in Item
    <3> DEFINE e == post.events[i]
    <3>1. e \in Event(Lines, Files)
      BY <2>1
    <3> HIDE DEF e
    <3>2. FilterAudio(hears, NormalizeEvent(e)) # Missing => ToIncoming(FilterAudio(hears, NormalizeEvent(e))) \in Item
      BY <3>1, HeardIsItem
    <3> QED BY <3>2 DEF e
  <2> HIDE DEF heard
  <2> QED BY <2>2, <1>3
<1>5. list \in Seq(Seq(Item))
  <2> DEFINE Y == Seq(Item)
  <2>1. \A i \in DOMAIN post.events : incoming(i) \in Y
    BY <1>4
  <2> HIDE DEF incoming, Y
  <2>2. list \in Seq(Y)
    BY <1>2, <2>1
  <2> QED BY <2>2 DEF Y
<1>6. Deduped(FlattenSeq(list)) \in Seq(Item)
  <2> HIDE DEF list
  <2> QED BY <1>5, FlattenIsSeq, DedupedKeeps
<1>7. Enqueued(guard, hears, post) \in {none, Deduped(FlattenSeq(list))}
  BY DEF Enqueued
<1> HIDE DEF list, none
<1> QED BY <1>3, <1>6, <1>7

\* The batch of a window has items.
LEMMA BatchHasItems ==
  ASSUME NEW posts \in Seq(Post(Lines, Files)), Missing # <<>>
  PROVE  Batch(posts) \in Seq(Item)
<1> DEFINE Y == Seq(Item)
           list == [i \in DOMAIN posts |-> Enqueued(Setting.guard, Setting.hears, posts[i])]
<1>1. DOMAIN posts = 1..Len(posts) /\ Len(posts) \in Nat /\ \A i \in DOMAIN posts : posts[i] \in Post(Lines, Files)
  OBVIOUS
<1>2. \A i \in DOMAIN posts : Enqueued(Setting.guard, Setting.hears, posts[i]) \in Y
  BY <1>1, EnqueuedItems
<1> HIDE DEF Y
<1>3. list \in Seq(Y)
  BY <1>1, <1>2
<1> HIDE DEF list
<1>4. FlattenSeq(list) \in Seq(Item)
  BY <1>3, FlattenIsSeq DEF Y
<1> QED BY <1>4 DEF Batch, list

\* The merged message is of its items, and has something in it.
LEMMA MergedHasContent ==
  ASSUME NEW items \in Seq(Item), items # <<>>
  PROVE  LET m == MergeTurns(items) IN
         /\ m.lastImageUrl \in Files \cup {Missing} /\ m.lastAudioUrl \in Files \cup {Missing}
         /\ m.text # <<>> \/ m.lastImageUrl # Missing \/ m.lastAudioUrl # Missing
<1> DEFINE batch == Deduped(items)
           texts == [i \in DOMAIN batch |-> batch[i]["text"]]
           images == [i \in DOMAIN batch |-> batch[i]["lastImageUrl"]]
           audios == [i \in DOMAIN batch |-> batch[i]["lastAudioUrl"]]
           V == Files \cup {Missing}
           L == Seq(Lines)
<1>1. batch \in Seq(Item) /\ batch # <<>>
  BY DedupedKeeps
<1> HIDE DEF batch
<1>2. DOMAIN batch = 1..Len(batch) /\ Len(batch) \in Nat /\ 1 \in DOMAIN batch /\ \A i \in DOMAIN batch : batch[i] \in Item
  BY <1>1
<1>3. \A x \in Item : /\ x["text"] \in L /\ x["lastImageUrl"] \in V /\ x["lastAudioUrl"] \in V
                      /\ x["text"] # <<>> \/ x["lastImageUrl"] # Missing \/ x["lastAudioUrl"] # Missing
  BY DEF Item
<1> HIDE DEF L, V
<1>4. texts \in Seq(L) /\ images \in Seq(V) /\ audios \in Seq(V)
  BY <1>2, <1>3
<1>5. /\ DOMAIN texts = DOMAIN batch /\ DOMAIN images = DOMAIN batch /\ DOMAIN audios = DOMAIN batch
      /\ texts[1] # <<>> \/ images[1] # Missing \/ audios[1] # Missing
  BY <1>2, <1>3
<1> HIDE DEF texts, images, audios
<1>6. /\ LastOf(images) \in V \cup {Missing} /\ LastOf(audios) \in V \cup {Missing}
      /\ images[1] # Missing => LastOf(images) # Missing
      /\ audios[1] # Missing => LastOf(audios) # Missing
  BY <1>2, <1>4, <1>5, LastOfThem
<1>7. texts[1] # <<>> => FlattenSeq(texts) # <<>>
  <2> SUFFICES ASSUME texts[1] # <<>> PROVE FlattenSeq(texts) # <<>>
    OBVIOUS
  <2>1. texts[1] \in Seq(Lines) /\ texts \in Seq(Seq(Lines))
    BY <1>2, <1>4, <1>5 DEF L
  <2>2. ToSet(texts[1]) # {}
    BY <2>1, ToSetOfSeq
  <2>3. ToSet(FlattenSeq(texts)) = UNION {ToSet(texts[i]) : i \in DOMAIN texts}
    BY <2>1, FlattenElements
  <2>4. ToSet(FlattenSeq(texts)) # {}
    BY <1>2, <1>5, <2>2, <2>3
  <2>5. FlattenSeq(texts) \in Seq(Lines)
    BY <2>1, FlattenIsSeq
  <2> QED BY <2>4, <2>5, ToSetOfSeq
<1>8. MergeTurns(items) = [text |-> FlattenSeq(texts), lastImageUrl |-> LastOf(images), lastAudioUrl |-> LastOf(audios),
                           adRef |-> MergeTurns(items).adRef]
  BY DEF MergeTurns, texts, images, audios, batch
<1> QED BY <1>5, <1>6, <1>7, <1>8 DEF V

-----------------------------------------------------------------------------
(* What a turn's variables can be at each of its stages. *)

Phases == {"new", "hear", "gate", "on", "context", "specific", "global", "recap", "generate",
           "think", "send", "photos", "failed", "silent", "done", "missed",
           "answered", "unreached", "unanswered"}

\* Until it has been seen, the message has something in it, and a note was listened to
\* before the gate.
Heeds(r) ==
    /\ r.msg \in Messages /\ r.says \in Spoken \cup {Missing}
    /\ r.put \subseteq {"typed", "transcript", "unheard", "attributes", "confirm"}
    /\ r.pc \in {"hear", "gate", "on"} => r.msg.typed # "none" \/ r.msg.photo # Missing \/ r.msg.voice # Missing
    /\ r.pc \in {"gate", "on"} /\ r.msg.voice # Missing => r.says \in Spoken

\* What a tier has told leaves room for the next.
Retrieves(r) ==
    /\ DOMAIN r.query = DOMAIN NoQuery /\ r.query.products \subseteq Products /\ r.query.room \in 0..MaxEntries
    /\ r.found \subseteq Entries /\ Cardinality(r.found) <= MaxEntries /\ r.recap \subseteq Products
    /\ r.pc = "specific" => r.found = {} /\ r.query.room = MaxEntries
    /\ r.pc = "global" => IF r.query.for = "note" THEN Cardinality(r.found) <= MaxNote
                          ELSE Cardinality(r.found) + r.query.room <= MaxEntries

\* Photos are urls, each once, and not too many.
Tray(urls) == urls \in Seq(Web) /\ Len(urls) <= MaxImages /\ IsInjective(urls)

\* Two generations at most.
Generates(r) ==
    /\ r.tries \in 0..2 /\ r.calls \in 0..MaxCalls
    /\ r.pc \in {"new", "hear", "gate", "on", "context", "recap"} => r.tries = 0
    /\ r.pc \in {"specific", "global"} /\ r.query.for = "note" => r.tries = 0
    /\ r.pc = "generate" => r.tries <= 1
    /\ r.matched \subseteq r.cards /\ r.cards \subseteq Products
    /\ Cardinality(r.ids) <= MaxShown /\ Tray(r.sink)

Parts(plan) == plan \in Seq(Part) /\ \A i \in DOMAIN plan : plan[i].part \notin {"photo", "fallback"}
\* She has got the first n parts of the plan.
Reads(r, n) == n <= Len(r.plan) /\ \A i \in 1..n : r.got[i] = r.plan[i]
\* Then photos among the first m, in their order.
Looks(r, n, m) ==
    \E place \in [(n+1)..Len(r.got) -> 1..m] :
        /\ \A i \in (n+1)..Len(r.got) : r.got[i] = [part |-> "photo", of |-> r.photos[place[i]]]
        /\ \A i, j \in (n+1)..Len(r.got) : i < j => place[i] < place[j]
\* What InOrder says of what she got.
Gets(r) ==
    \E n \in 0..Len(r.got) :
        /\ Reads(r, n)
        /\ \/ n = Len(r.got)
           \/ n = Len(r.got) - 1 /\ r.got[Len(r.got)] = [part |-> "fallback", of |-> {}]
           \/ n = Len(r.plan) /\ Looks(r, n, Len(r.photos))

\* She has got what was dealt with, in the order of the plan and then of the photos.
Delivers(r) ==
    /\ Parts(r.plan) /\ Tray(r.photos) /\ r.got \in Seq(Part)
    /\ r.at \in 1..(Len(r.plan) + Len(r.photos) + 1)
    /\ r.pc = "send" => r.at <= Len(r.plan) /\ Len(r.got) = r.at - 1 /\ Reads(r, r.at - 1)
    /\ r.pc = "photos" => /\ r.at > Len(r.plan) /\ Len(r.plan) <= Len(r.got) /\ Reads(r, Len(r.plan))
                          /\ Looks(r, Len(r.plan), r.at - 1 - Len(r.plan))
    /\ r.pc = "failed" => Reads(r, Len(r.got))
    /\ r.pc \in {"done", "missed"} => Gets(r)
    /\ r.pc \notin {"send", "photos", "failed", "done", "missed"} =>
         r.plan = <<>> /\ r.photos = <<>> /\ r.got = <<>> /\ r.at = 1

Sound(r) == r.pc \in Phases /\ Heeds(r) /\ Retrieves(r) /\ Generates(r) /\ Delivers(r)

\* What the empty list is.
LEMMA EmptyFacts ==
  /\ <<>> \in Seq(Web) /\ <<>> \in Seq(Part) /\ Len(<<>>) = 0 /\ DOMAIN <<>> = {}
  /\ Tray(<<>>) /\ Parts(<<>>)
  /\ Cardinality({}) = 0
<1>1. MaxImages \in Nat
  BY AnswerBounds
<1> QED BY <1>1, FS_EmptySet DEF Tray, Parts, IsInjective

\* The bounds are numbers.
LEMMA BoundsAre ==
  /\ MaxCards \in Nat /\ MaxShown \in Nat /\ MaxImages \in Nat /\ MaxNote \in Nat /\ MaxBubbles \in Nat /\ MaxEntries \in Nat
  /\ MaxCards # 0 /\ MaxShown # 0 /\ MaxImages # 0 /\ MaxNote # 0 /\ MaxBubbles # 0 /\ MaxEntries # 0
  /\ MaxNote <= MaxEntries /\ MaxCalls \in Nat
BY AnswerBounds

\* A record with nothing in it but its stage, parts to send and products shown is sound.
LEMMA DeliverySound ==
  ASSUME NEW pc \in {"send", "failed", "silent", "answered", "unreached", "unanswered", "new"}, NEW parts, Parts(parts),
         NEW photos, Tray(photos),
         NEW ids \in SUBSET Products, Cardinality(ids) <= MaxShown,
         pc = "send" => parts # <<>>, pc # "send" => parts = <<>> /\ photos = <<>>
  PROVE  Sound([Idle EXCEPT !.pc = pc, !.plan = parts, !.photos = photos, !.ids = ids])
<1> DEFINE q == [Idle EXCEPT !.pc = pc, !.plan = parts, !.photos = photos, !.ids = ids]
<1>1. /\ q.pc = pc /\ q.msg = NoMessage /\ q.says = Missing /\ q.put = {} /\ q.query = NoQuery /\ q.found = {}
      /\ q.recap = {} /\ q.tries = 0 /\ q.calls = 0 /\ q.cards = {} /\ q.matched = {} /\ q.sink = <<>>
      /\ q.plan = parts /\ q.at = 1 /\ q.photos = photos /\ q.got = <<>> /\ q.ids = ids
  BY DEF Idle
<1> HIDE DEF q
<1>2. Heeds(q)
  BY <1>1 DEF Heeds, NoMessage, Messages
<1>3. Retrieves(q)
  BY <1>1, EmptyFacts, BoundsAre DEF Retrieves, NoQuery
<1>4. Generates(q)
  BY <1>1, EmptyFacts, BoundsAre DEF Generates
<1>5. Delivers(q)
  <2>1. Len(parts) \in Nat /\ Len(photos) \in Nat /\ (parts # <<>> => Len(parts) >= 1)
    BY DEF Parts, Tray
  <2>2. q.at \in 1..(Len(q.plan) + Len(q.photos) + 1)
    BY <1>1, <2>1
  <2>3. q.pc = "send" => q.at <= Len(q.plan) /\ Len(q.got) = q.at - 1 /\ Reads(q, q.at - 1)
    BY <1>1, <2>1, EmptyFacts DEF Reads
  <2>4. Len(q.got) = 0 /\ Reads(q, 0)
    BY <1>1, <2>1, EmptyFacts DEF Reads
  <2> QED BY <1>1, <2>1, <2>2, <2>3, <2>4, EmptyFacts DEF Delivers
<1>6. q.pc \in Phases
  BY <1>1 DEF Phases
<1> QED BY <1>2, <1>3, <1>4, <1>5, <1>6 DEF Sound, q

\* A turn starts with nothing, and one that falls silent or fails has nothing again.
LEMMA IdleSound ==
  ASSUME NEW pc \in {"failed", "silent", "new"}
  PROVE  Sound([Idle EXCEPT !.pc = pc])
<1> DEFINE none == <<>>
<1>1. none = Idle.plan /\ none = Idle.photos /\ Idle.ids = {} /\ DOMAIN Idle.plan = {}
  BY DEF Idle
<1>2. Parts(none) /\ Tray(none) /\ Cardinality({}) <= MaxShown
  BY EmptyFacts, BoundsAre
<1>3. [Idle EXCEPT !.pc = pc] = [Idle EXCEPT !.pc = pc, !.plan = none, !.photos = none, !.ids = {}]
  BY <1>1 DEF Idle
<1> HIDE DEF none
<1>4. Sound([Idle EXCEPT !.pc = pc, !.plan = none, !.photos = none, !.ids = {}])
  BY <1>2, DeliverySound DEF none
<1> QED BY <1>3, <1>4

-----------------------------------------------------------------------------
(* What the operators of a turn come to. *)

\* A transcription is usable exactly when the note was clear, and then it has words.
LEMMA UsableIsClear ==
  ASSUME NEW f \in Files, NEW says \in Spoken
  PROVE  LET heard == Transcription(TRUE, f, says) IN
         (heard.ok <=> Clear(f, says)) /\ (heard.ok => heard.words)
<1>1. /\ f.answered \in BOOLEAN /\ f.declared \in Nat /\ f.bytes \in Nat /\ MaxBytes \in Nat /\ Sure \in Nat
      /\ says # Missing => says.words \in BOOLEAN /\ says.intelligible \in BOOLEAN /\ says.confidence \in Nat
  BY FilesHaveSizes
<1>2. Downloaded(f) = "ok" <=> /\ PublicUrl(f.url) /\ f.answered /\ f.declared <= MaxBytes /\ f.bytes <= MaxBytes
                               /\ f.bytes # 0 /\ MediaType(f) # Missing
  BY <1>1 DEF Downloaded
<1>3. says # Missing => /\ Judged(says).ok <=> says.words /\ says.intelligible /\ says.confidence >= Sure
                        /\ Judged(says).ok => Judged(says).words
  BY <1>1 DEF Judged, Unusable
<1>4. \A reason, words : ~Unusable(reason, words).ok
  BY DEF Unusable
<1>5. Transcription(TRUE, f, says) =
        IF Downloaded(f) # "ok" THEN Unusable(Downloaded(f), FALSE)
        ELSE IF TooLong(f) THEN Unusable("too_long", FALSE)
        ELSE IF says = Missing THEN Unusable("model_failed", FALSE)
        ELSE Judged(says)
  BY DEF Transcription
<1>6. Clear(f, says) <=> Downloaded(f) = "ok" /\ ~TooLong(f) /\ says # Missing
                         /\ says.words /\ says.intelligible /\ says.confidence >= Sure
  BY <1>1, <1>2 DEF Clear
<1> QED BY <1>3, <1>4, <1>5, <1>6

\* What is typed has a kind, and none only when nothing is typed.
LEMMA KindOfText ==
  ASSUME NEW text
  PROVE  Kind(text) \in Lines \cup {"none"} /\ (Kind(text) = "none" <=> text = <<>>)
<1>1. ToSet(<<>>) = {}
  BY DEF ToSet
<1>2. text = <<>> => Kind(text) = "none"
  BY <1>1 DEF Kind
<1>3. text # <<>> => Kind(text) \in {"faq", "number", "greeting", "words"}
  BY DEF Kind
<1> QED BY <1>2, <1>3 DEF Lines

\* A finite set has subsets of each smaller size.
LEMMA SubsetOfSize ==
  ASSUME NEW S, IsFiniteSet(S), NEW k \in Nat, k <= Cardinality(S)
  PROVE  \E T \in SUBSET S : Cardinality(T) = k
<1> DEFINE N == Cardinality(S)
           I == {n \in Nat : n <= N => \E T \in SUBSET S : IsFiniteSet(T) /\ Cardinality(T) = n}
<1>1. 0 \in I
  BY FS_EmptySet
<1>2. ASSUME NEW n \in Nat, n \in I PROVE n + 1 \in I
  <2> SUFFICES ASSUME n + 1 <= N
               PROVE  \E T \in SUBSET S : IsFiniteSet(T) /\ Cardinality(T) = n + 1
    OBVIOUS
  <2>1. N \in Nat
    BY FS_CardinalityType
  <2>2. PICK T \in SUBSET S : IsFiniteSet(T) /\ Cardinality(T) = n
    BY <1>2, <2>1
  <2>3. T # S
    BY <2>1, <2>2
  <2>4. PICK x \in S : x \notin T
    BY <2>3
  <2>5. IsFiniteSet(T \cup {x}) /\ Cardinality(T \cup {x}) = n + 1
    BY <2>2, <2>4, FS_AddElement
  <2> QED BY <2>5, <2>4
<1> HIDE DEF I
<1>3. k \in I
  BY <1>1, <1>2, Induction
<1> QED BY <1>3 DEF I

\* So a cap is met by a choice among them.
LEMMA Capped ==
  ASSUME NEW S, IsFiniteSet(S), NEW cap \in Nat
  PROVE  /\ kSubset(Min({cap, Cardinality(S)}), S) # {}
         /\ \A T \in kSubset(Min({cap, Cardinality(S)}), S) :
              T \subseteq S /\ Cardinality(T) <= cap /\ Cardinality(T) <= Cardinality(S)
<1> DEFINE k == Min({cap, Cardinality(S)})
<1>1. Cardinality(S) \in Nat
  BY FS_CardinalityType
<1>2. k \in Nat /\ k <= cap /\ k <= Cardinality(S)
  BY <1>1, LeastOfTwo
<1> HIDE DEF k
<1>3. \E T \in SUBSET S : Cardinality(T) = k
  BY <1>2, SubsetOfSize
<1>4. \A T : T \in kSubset(k, S) <=> T \in SUBSET S /\ Cardinality(T) = k
  BY DEF kSubset
<1>5. kSubset(k, S) # {} /\ \A T \in kSubset(k, S) : T \subseteq S /\ Cardinality(T) <= cap /\ Cardinality(T) <= Cardinality(S)
  BY <1>2, <1>3, <1>4
<1> QED BY <1>5 DEF k

\* The bubbles of a text with words in it.
LEMMA TextInParts ==
  ASSUME NEW n \in Nat \ {0}
  PROVE  Parts(TextParts(n)) /\ TextParts(n) # <<>>
<1> DEFINE cap == IF Setting.paces THEN MaxBubbles ELSE 1
           k == Min({n, cap})
<1>1. cap \in Nat \ {0}
  BY BoundsAre
<1> HIDE DEF cap
<1>2. k \in Nat \ {0}
  BY <1>1, LeastOfTwo
<1> HIDE DEF k
<1> DEFINE bubble(i) == [part |-> "bubble", of |-> IF i = cap THEN i..n ELSE {i}]
           plan == [i \in 1..k |-> bubble(i)]
<1>3. TextParts(n) = plan
  BY DEF TextParts, Bubbles, cap, k
<1>4. \A i \in 1..k : bubble(i) \in Part /\ bubble(i).part = "bubble"
  <2> TAKE i \in 1..k
  <2>1. (IF i = cap THEN i..n ELSE {i}) \in SUBSET Nat
    BY <1>2
  <2> QED BY <2>1 DEF Part
<1> HIDE DEF bubble
<1>5. plan \in Seq(Part) /\ DOMAIN plan = 1..k /\ \A i \in DOMAIN plan : plan[i].part = "bubble"
  BY <1>2, <1>4
<1>6. plan # <<>>
  <2>1. 1 \in DOMAIN plan
    BY <1>2
  <2> QED BY <2>1, EmptyFacts
<1> HIDE DEF plan
<1> QED BY <1>3, <1>5, <1>6 DEF Parts

\* Two plans, one after the other.
LEMMA PartsJoined ==
  ASSUME NEW a, NEW b, Parts(a), Parts(b)
  PROVE  Parts(a \o b) /\ (a # <<>> => a \o b # <<>>)
<1>1. a \in Seq(Part) /\ b \in Seq(Part)
  BY DEF Parts
<1>2. /\ a \o b \in Seq(Part) /\ Len(a) \in Nat /\ Len(b) \in Nat
      /\ DOMAIN (a \o b) = 1..(Len(a) + Len(b)) /\ DOMAIN a = 1..Len(a) /\ DOMAIN b = 1..Len(b)
      /\ \A i \in 1..Len(a) : (a \o b)[i] = a[i]
      /\ \A i \in (Len(a) + 1)..(Len(a) + Len(b)) : (a \o b)[i] = b[i - Len(a)]
      /\ a # <<>> => Len(a) # 0
      /\ a \o b = <<>> => Len(a) + Len(b) = 0
  BY <1>1
<1>3. ASSUME NEW i \in DOMAIN (a \o b)
      PROVE  (a \o b)[i].part \notin {"photo", "fallback"}
  <2>1. CASE i <= Len(a)
    BY <1>2, <2>1 DEF Parts
  <2>2. CASE i > Len(a)
    <3>1. i - Len(a) \in DOMAIN b /\ (a \o b)[i] = b[i - Len(a)]
      BY <1>2, <2>2
    <3> QED BY <3>1 DEF Parts
  <2> QED BY <1>2, <2>1, <2>2
<1> QED BY <1>2, <1>3 DEF Parts

\* A part alone.
LEMMA OnePart ==
  ASSUME NEW x \in Part, x.part \notin {"photo", "fallback"}
  PROVE  Parts(<<x>>) /\ <<x>> # <<>>
<1>1. <<x>> \in Seq(Part) /\ DOMAIN <<x>> = {1} /\ <<x>>[1] = x /\ <<x>> # <<>>
  OBVIOUS
<1> QED BY <1>1 DEF Parts

\* The carousel and its note, if there are any.
LEMMA CardsInParts ==
  ASSUME NEW cs \in SUBSET Products
  PROVE  Parts(CardParts(cs))
<1> DEFINE K == kSubset(Min({MaxCards, Cardinality(cs)}), cs)
           kept == CHOOSE s \in K : TRUE
           cards == [part |-> "cards", of |-> kept]
           more == [part |-> "more", of |-> {}]
           none == <<>>
<1>1. IsFiniteSet(cs)
  BY StoreIsFinite, FS_Subset
<1>2. K # {} /\ \A T \in K : T \subseteq cs
  BY <1>1, BoundsAre, Capped
<1> HIDE DEF K
<1>3. kept \subseteq Products
  BY <1>2
<1>4. CardParts(cs) = IF cs = {} THEN none ELSE <<cards>> \o (IF Cardinality(cs) > MaxCards THEN <<more>> ELSE none)
  BY DEF CardParts, K
<1> HIDE DEF kept
<1>5. cards \in Part /\ more \in Part /\ cards.part = "cards" /\ more.part = "more"
  BY <1>3 DEF Part
<1> HIDE DEF cards, more
<1>6. Parts(<<cards>>) /\ Parts(<<more>>) /\ Parts(none)
  BY <1>5, OnePart, EmptyFacts
<1> HIDE DEF none
<1>7. Parts(<<cards>> \o <<more>>) /\ Parts(<<cards>> \o none)
  BY <1>6, PartsJoined
<1> QED BY <1>4, <1>6, <1>7

\* The fixed lines.
LEMMA LineInParts == Parts(AnswerLine) /\ AnswerLine # <<>>
<1>1. [part |-> "line", of |-> {}] \in Part
  BY DEF Part
<1> QED BY <1>1, OnePart DEF AnswerLine

\* The paragraphs with words can be counted.
LEMMA CleanCounts ==
  ASSUME NEW text \in Seq(Paragraphs)
  PROVE  Clean(text) \in Nat
<1>1. DOMAIN text = 1..Len(text) /\ Len(text) \in Nat
  OBVIOUS
<1>2. IsFiniteSet(1..Len(text))
  BY <1>1, FS_Interval
<1>3. IsFiniteSet({i \in DOMAIN text : text[i] = "words"})
  BY <1>1, <1>2, FS_Subset
<1> QED BY <1>3, FS_CardinalityType DEF Clean

\* A photo that is kept keeps the tray in order.
LEMMA UnseenKeepsTray ==
  ASSUME NEW urls, Tray(urls), NEW url
  PROVE  Tray(Unseen(urls, url))
<1>1. CASE ~(url \in Web /\ ~Contains(urls, url) /\ Len(urls) < MaxImages)
  BY <1>1 DEF Unseen
<1>2. CASE url \in Web /\ ~Contains(urls, url) /\ Len(urls) < MaxImages
  <2>1. urls \in Seq(Web) /\ IsInjective(urls) /\ MaxImages \in Nat /\ Len(urls) \in Nat
    BY BoundsAre DEF Tray
  <2> DEFINE more == Append(urls, url)
  <2>2. /\ more \in Seq(Web) /\ Len(more) = Len(urls) + 1
        /\ \A i \in 1..Len(urls) : more[i] = urls[i]
        /\ more[Len(urls) + 1] = url
    BY <1>2, <2>1, AppendFacts
  <2>3. DOMAIN more = 1..(Len(urls) + 1) /\ DOMAIN urls = 1..Len(urls)
    BY <2>1, <2>2
  <2> HIDE DEF more
  <2>4. \A i \in 1..Len(urls) : urls[i] # url
    BY <1>2 DEF Contains
  <2>5. \A a, b \in 1..Len(urls) : urls[a] = urls[b] => a = b
    BY <2>1, <2>3 DEF IsInjective
  <2>6. ASSUME NEW a \in DOMAIN more, NEW b \in DOMAIN more, more[a] = more[b]
        PROVE  a = b
    <3>1. a \in 1..Len(urls) \/ a = Len(urls) + 1
      BY <2>1, <2>3
    <3>2. b \in 1..Len(urls) \/ b = Len(urls) + 1
      BY <2>1, <2>3
    <3> QED BY <2>2, <2>4, <2>5, <2>6, <3>1, <3>2
  <2>7. IsInjective(more)
    BY <2>6 DEF IsInjective
  <2>8. Unseen(urls, url) = more
    BY <1>2 DEF Unseen, more
  <2> QED BY <1>2, <2>1, <2>2, <2>7, <2>8 DEF Tray
<1> QED BY <1>1, <1>2

\* So what is kept of a product's photos does too.
LEMMA SanitisedKeepsTray ==
  ASSUME NEW S, NEW urls \in Seq(S), NEW sink, Tray(sink)
  PROVE  Tray(Sanitised(sink, urls))
<1> DEFINE N == Len(urls)
           Y == {u \in Seq(Web) : Tray(u)}
           step == [i \in 1..N |-> [u \in Y |-> Unseen(u, urls[i])]]
           Fills(g) == g = [i \in 0..N |-> IF i = 0 THEN sink ELSE Unseen(g[i-1], urls[i])]
           upTo == CHOOSE g : Fills(g)
<1>1. N \in Nat
  OBVIOUS
<1>2. \A u \in Y : \A url : Unseen(u, url) \in Y
  <2> TAKE u \in Y
  <2> TAKE url
  <2>1. Tray(Unseen(u, url))
    BY UnseenKeepsTray
  <2> QED BY <2>1 DEF Tray
<1>3. sink \in Y
  BY DEF Tray
<1>4. Steps(step, N, Y)
  <2> HIDE DEF Y
  <2> QED BY <1>2 DEF Steps
<1>5. \A i \in 1..N : \A u \in Y : step[i][u] = Unseen(u, urls[i])
  <2> HIDE DEF Y
  <2> QED OBVIOUS
<1> HIDE DEF step, Y, N
<1>6. PICK f : Recurses(f, sink, step, N, Y)
  BY <1>1, <1>3, <1>4, Recursion
<1>7. f = [i \in 0..N |-> f[i]] /\ f[0] = sink /\ \A i \in 0..N : f[i] \in Y
  BY <1>6 DEF Recurses
<1>8. \A i \in 1..N : i - 1 \in 0..N /\ f[i] = Unseen(f[i-1], urls[i])
  <2> TAKE i \in 1..N
  <2>1. i - 1 \in 0..N
    BY <1>1
  <2>2. f[i] = step[i][f[i-1]] /\ f[i-1] \in Y
    BY <1>6, <1>7, <2>1 DEF Recurses
  <2> QED BY <1>5, <2>1, <2>2
<1>9. \A i \in 0..N : f[i] = IF i = 0 THEN sink ELSE Unseen(f[i-1], urls[i])
  <2> TAKE i \in 0..N
  <2>1. i # 0 => i \in 1..N
    BY <1>1
  <2> QED BY <1>7, <1>8, <2>1
<1>10. Fills(f)
  BY <1>7, <1>9
<1>11. Fills(upTo)
  BY <1>10
<1>12. Sanitised(sink, urls) = upTo[N]
  BY DEF Sanitised, N
<1> HIDE DEF upTo
<1>13. \A i \in 0..N : upTo[i] = IF i = 0 THEN sink ELSE Unseen(upTo[i-1], urls[i])
  BY <1>11
<1> HIDE DEF Fills
<1> DEFINE T == {i \in Nat : i <= N => upTo[i] \in Y}
<1>14. 0 \in T
  BY <1>1, <1>3, <1>13
<1>15. ASSUME NEW i \in Nat, i \in T PROVE i + 1 \in T
  <2> SUFFICES ASSUME i + 1 <= N PROVE upTo[i+1] \in Y
    OBVIOUS
  <2>1. upTo[i] \in Y
    BY <1>1, <1>15
  <2>2. i + 1 \in 0..N /\ i + 1 # 0 /\ (i + 1) - 1 = i
    BY <1>1
  <2>3. upTo[i+1] = Unseen(upTo[i], urls[i+1])
    BY <1>13, <2>2
  <2> QED BY <1>2, <2>1, <2>3
<1> HIDE DEF T
<1>16. N \in T
  BY <1>1, <1>14, <1>15, Induction
<1> QED BY <1>1, <1>12, <1>16 DEF T, Y

\* What is remembered as shown is not too much.
LEMMA ShownIsCapped ==
  ASSUME NEW r, r.media \subseteq Products, r.matched \subseteq Products, NEW ids \in ShownIds(r)
  PROVE  ids \subseteq Products /\ Cardinality(ids) <= MaxShown
<1> DEFINE S == r.media \cup r.matched
<1>1. S \subseteq Products /\ IsFiniteSet(S)
  BY StoreIsFinite, FS_Subset
<1>2. Cardinality(S) \in Nat
  BY <1>1, FS_CardinalityType
<1>3. ids \subseteq S /\ Cardinality(ids) = Min({MaxShown, Cardinality(S)})
  BY DEF ShownIds
<1> HIDE DEF S
<1> QED BY <1>1, <1>2, <1>3, LeastOfTwo, BoundsAre

\* A tier's read has no more entries than it asks for, and all are the store's.
LEMMA ReadIsCapped ==
  ASSUME NEW products, NEW asked, NEW n \in Nat, NEW read \in FindRelevant(products, asked, n)
  PROVE  read \subseteq Entries /\ IsFiniteSet(read) /\ Cardinality(read) \in Nat /\ Cardinality(read) <= n
<1> DEFINE es == Candidates(products, asked)
<1>1. es \subseteq Entries
  BY DEF Candidates, Kept
<1>2. IsFiniteSet(es)
  BY <1>1, StoreIsFinite, FS_Subset
<1>3. read \in kSubset(Min({n, Cardinality(es)}), es)
  BY DEF FindRelevant
<1> HIDE DEF es
<1>4. read \subseteq es /\ Cardinality(read) <= n
  BY <1>2, <1>3, Capped
<1>5. IsFiniteSet(read)
  BY <1>2, <1>4, FS_Subset
<1> QED BY <1>1, <1>4, <1>5, FS_CardinalityType

\* A note takes what it has room for, a tool all that was read.
LEMMA ToldIsCapped ==
  ASSUME NEW t, NEW read, IsFiniteSet(read), NEW told \in Told(t, read),
         IsFiniteSet(turn[t].found),
         turn[t].query.for = "note" => Cardinality(turn[t].found) <= MaxNote
  PROVE  /\ told \subseteq read /\ IsFiniteSet(told) /\ Cardinality(told) \in Nat
         /\ Cardinality(told) <= Cardinality(read)
         /\ turn[t].query.for = "note" => Cardinality(told) <= MaxNote - Cardinality(turn[t].found)
<1> DEFINE most == IF turn[t].query.for = "note" THEN MaxNote - Cardinality(turn[t].found) ELSE MaxEntries
<1>1. Cardinality(turn[t].found) \in Nat
  BY FS_CardinalityType
<1>2. most \in Nat
  BY <1>1, BoundsAre
<1>3. told \in kSubset(Min({most, Cardinality(read)}), read)
  BY DEF Told
<1>4. turn[t].query.for = "note" => most = MaxNote - Cardinality(turn[t].found)
  OBVIOUS
<1> HIDE DEF most
<1>5. told \subseteq read /\ Cardinality(told) <= most /\ Cardinality(told) <= Cardinality(read)
  BY <1>2, <1>3, Capped
<1>6. IsFiniteSet(told)
  BY <1>5, FS_Subset
<1> QED BY <1>4, <1>5, <1>6, FS_CardinalityType

-----------------------------------------------------------------------------
(* The steps of a turn, at its own variables. *)

SameMessage(r, q) == q.msg = r.msg /\ q.says = r.says /\ q.put = r.put
SameRead(r, q) == q.query = r.query /\ q.found = r.found /\ q.recap = r.recap
SameCalls(r, q) ==
    /\ q.tries = r.tries /\ q.calls = r.calls /\ q.cards = r.cards /\ q.matched = r.matched
    /\ q.sink = r.sink /\ q.ids = r.ids
SamePlan(r, q) == q.plan = r.plan /\ q.at = r.at /\ q.photos = r.photos /\ q.got = r.got

\* What a step leaves alone stays sound, but for what the new stage asks of it.
LEMMA Frame ==
  ASSUME NEW r, NEW q, Sound(r), q.pc \in Phases
  PROVE  /\ SameMessage(r, q) /\ (q.pc = r.pc \/ q.pc \notin {"hear", "gate", "on"}) => Heeds(q)
         /\ SameRead(r, q) /\ (q.pc = r.pc \/ q.pc \notin {"specific", "global"}) => Retrieves(q)
         /\ SameCalls(r, q) /\ q.pc \notin {"new", "hear", "gate", "on", "context", "specific", "global", "recap", "generate"}
              => Generates(q)
         /\ SameCalls(r, q) /\ q.tries = 0 => Generates(q)
         /\ SamePlan(r, q) /\ (\/ q.pc = r.pc
                               \/ {q.pc, r.pc} \cap {"send", "photos", "failed", "done", "missed"} = {}) => Delivers(q)
<1> USE DEF Sound
<1>1. SameMessage(r, q) /\ (q.pc = r.pc \/ q.pc \notin {"hear", "gate", "on"}) => Heeds(q)
  BY DEF SameMessage, Heeds
<1>2. SameRead(r, q) /\ (q.pc = r.pc \/ q.pc \notin {"specific", "global"}) => Retrieves(q)
  BY DEF SameRead, Retrieves
<1>3. SameCalls(r, q) /\ q.pc \notin {"new", "hear", "gate", "on", "context", "specific", "global", "recap", "generate"}
        => Generates(q)
  BY DEF SameCalls, Generates
<1>4. SameCalls(r, q) /\ q.tries = 0 => Generates(q)
  BY DEF SameCalls, Generates
<1>5. SamePlan(r, q) /\ q.pc = r.pc => Delivers(q)
  <2> SUFFICES ASSUME q.plan = r.plan, q.at = r.at, q.photos = r.photos, q.got = r.got, q.pc = r.pc
               PROVE  Delivers(q)
    BY DEF SamePlan
  <2>1. \A n : Reads(q, n) <=> Reads(r, n)
    BY DEF Reads
  <2>2. \A n : \A m : Looks(q, n, m) <=> Looks(r, n, m)
    BY DEF Looks
  <2>3. Gets(q) <=> Gets(r)
    BY <2>1, <2>2 DEF Gets
  <2> QED BY <2>1, <2>2, <2>3 DEF Delivers
<1>6. SamePlan(r, q) /\ {q.pc, r.pc} \cap {"send", "photos", "failed", "done", "missed"} = {} => Delivers(q)
  <2> SUFFICES ASSUME SamePlan(r, q), {q.pc, r.pc} \cap {"send", "photos", "failed", "done", "missed"} = {}
               PROVE  Delivers(q)
    OBVIOUS
  <2>1. r.plan = <<>> /\ r.photos = <<>> /\ r.got = <<>> /\ r.at = 1
    BY DEF Delivers
  <2>2. q.plan = <<>> /\ q.photos = <<>> /\ q.got = <<>> /\ q.at = 1
    BY <2>1 DEF SamePlan
  <2> QED BY <2>2, EmptyFacts DEF Delivers
<1> QED BY <1>1, <1>2, <1>3, <1>4, <1>5, <1>6

Known == scenario \in DOMAIN Scenarios /\ Cardinality(last) <= MaxShown

\* The reply and its photos are put into a record of their own.
LEMMA DeliverStep ==
  ASSUME Shape, NEW t \in Turns, NEW parts, Parts(parts), parts # <<>>, NEW photos, Tray(photos),
         NEW ids \in SUBSET Products, Cardinality(ids) <= MaxShown, Deliver(t, parts, photos, ids)
  PROVE  Sound(turn'[t])
<1>1. turn'[t] = [Idle EXCEPT !.pc = "send", !.plan = parts, !.photos = photos, !.ids = ids]
  BY DEF Deliver, Shape
<1>2. Sound([Idle EXCEPT !.pc = "send", !.plan = parts, !.photos = photos, !.ids = ids])
  BY DeliverySound
<1> QED BY <1>1, <1>2

\* A line alone.
LEMMA LineStep ==
  ASSUME Shape, NEW t \in Turns, Deliver(t, AnswerLine, <<>>, {})
  PROVE  Sound(turn'[t])
<1> DEFINE none == <<>>
<1>1. Parts(AnswerLine) /\ AnswerLine # <<>> /\ Tray(none) /\ Cardinality({}) <= MaxShown
  BY LineInParts, EmptyFacts, BoundsAre
<1>2. Deliver(t, AnswerLine, none, {})
  OBVIOUS
<1> HIDE DEF none
<1> QED BY <1>1, <1>2, DeliverStep

\* The turn is dropped.
LEMMA DropStep ==
  ASSUME Shape, NEW t \in Turns, NEW pc \in {"failed", "silent"}, turn' = [turn EXCEPT ![t] = [Idle EXCEPT !.pc = pc]]
  PROVE  Sound(turn'[t])
<1>1. turn'[t] = [Idle EXCEPT !.pc = pc]
  BY DEF Shape
<1> QED BY <1>1, IdleSound

\* The merged message.
LEMMA ArriveSound ==
  ASSUME Shape, Known, NEW t \in Turns, Sound(turn[t]), NEW posts \in Posts[scenario], Arrive(t, posts)
  PROVE  Sound(turn'[t])
<1> DEFINE r == turn[t]
           q == turn'[t]
           items == Batch(posts)
           m == MergeTurns(items)
           msg == [typed |-> Kind(m.text), photo |-> m.lastImageUrl, voice |-> m.lastAudioUrl, ad |-> m.adRef # Missing]
<1>1. items \in Seq(Item) /\ items # <<>>
  <2>1. posts \in Seq(Post(Lines, Files)) /\ Missing # <<>>
    BY PostsAreEvents DEF Known
  <2> QED BY <2>1, BatchHasItems DEF Arrive
<1> HIDE DEF items
<1>2. /\ m.lastImageUrl \in Files \cup {Missing} /\ m.lastAudioUrl \in Files \cup {Missing}
      /\ m.text # <<>> \/ m.lastImageUrl # Missing \/ m.lastAudioUrl # Missing
  BY <1>1, MergedHasContent
<1> HIDE DEF m
<1>3. Kind(m.text) \in Lines \cup {"none"} /\ (Kind(m.text) = "none" <=> m.text = <<>>)
  BY KindOfText
<1>4. msg \in Messages /\ (msg.typed # "none" \/ msg.photo # Missing \/ msg.voice # Missing)
  BY <1>2, <1>3 DEF Messages
<1>5. r.pc = "new" /\ turn' = [turn EXCEPT ![t].pc = "hear", ![t].state = last, ![t].msg = msg]
  BY DEF Arrive, m, items
<1> HIDE DEF msg
<1>6. /\ q.pc = "hear" /\ q.msg = msg /\ q.says = r.says /\ q.put = r.put
      /\ SameRead(r, q) /\ SameCalls(r, q) /\ SamePlan(r, q)
  BY <1>5 DEF Shape, Fielded, Idle, SameRead, SameCalls, SamePlan
<1> HIDE DEF q
<1>7. q.pc \in Phases /\ q.tries = 0
  BY <1>5, <1>6 DEF Phases, Sound, Generates, SameCalls
<1>8. Heeds(q)
  BY <1>4, <1>5, <1>6 DEF Sound, Heeds
<1>9. Retrieves(q) /\ Generates(q) /\ Delivers(q)
  BY <1>5, <1>6, <1>7, Frame
<1> QED BY <1>7, <1>8, <1>9 DEF Sound, q

\* The voice pre-step and the gate.
LEMMA HearSound ==
  ASSUME Shape, NEW t \in Turns, Sound(turn[t]), Hear(t) \/ Gate(t) \/ Throw(t)
  PROVE  Sound(turn'[t])
<1> DEFINE r == turn[t]
           q == turn'[t]
<1>1. CASE Throw(t)
  BY <1>1, DropStep DEF Throw
<1>2. CASE Gate(t) /\ turn' = [turn EXCEPT ![t] = [Idle EXCEPT !.pc = "silent"]]
  BY <1>2, DropStep
<1>3. CASE Gate(t) /\ turn' = [turn EXCEPT ![t].pc = "on"]
  <2>1. r.pc = "gate"
    BY <1>3 DEF Gate
  <2>2. q.pc = "on" /\ SameMessage(r, q) /\ SameRead(r, q) /\ SameCalls(r, q) /\ SamePlan(r, q)
    BY <1>3 DEF Shape, Fielded, Idle, SameMessage, SameRead, SameCalls, SamePlan
  <2> HIDE DEF q
  <2>3. q.pc \in Phases /\ q.tries = 0
    BY <2>1, <2>2 DEF Phases, Sound, Generates, SameCalls
  <2>4. Heeds(q)
    BY <2>1, <2>2 DEF Sound, Heeds, SameMessage
  <2>5. Retrieves(q) /\ Generates(q) /\ Delivers(q)
    BY <2>1, <2>2, <2>3, Frame
  <2> QED BY <2>3, <2>4, <2>5 DEF Sound, q
<1>4. CASE Hear(t)
  <2>1. PICK says : /\ r.pc = "hear"
                    /\ r.msg.voice # Missing => says \in Spoken
                    /\ turn' = IF r.msg.voice # Missing THEN [turn EXCEPT ![t].pc = "gate", ![t].says = says]
                               ELSE [turn EXCEPT ![t].pc = "gate"]
    BY <1>4 DEF Hear
  <2>2. /\ q.pc = "gate" /\ q.msg = r.msg /\ q.put = r.put /\ q.says = IF r.msg.voice # Missing THEN says ELSE r.says
        /\ SameRead(r, q) /\ SameCalls(r, q) /\ SamePlan(r, q)
    BY <2>1 DEF Shape, Fielded, Idle, SameRead, SameCalls, SamePlan
  <2> HIDE DEF q
  <2>3. q.pc \in Phases /\ q.tries = 0
    BY <2>1, <2>2 DEF Phases, Sound, Generates, SameCalls
  <2>4. Heeds(q)
    BY <2>1, <2>2 DEF Sound, Heeds
  <2>5. Retrieves(q) /\ Generates(q) /\ Delivers(q)
    BY <2>1, <2>2, <2>3, Frame
  <2> QED BY <2>3, <2>4, <2>5 DEF Sound, q
<1>5. Gate(t) => \/ turn' = [turn EXCEPT ![t].pc = "on"]
                 \/ turn' = [turn EXCEPT ![t] = [Idle EXCEPT !.pc = "silent"]]
  BY DEF Gate
<1> QED BY <1>1, <1>2, <1>3, <1>4, <1>5

\* What the agent's text is made of.
LEMMA SeeSound ==
  ASSUME Shape, NEW t \in Turns, Sound(turn[t]), Triage(t) \/ Degrade(t) \/ See(t)
  PROVE  Sound(turn'[t])
<1> DEFINE r == turn[t]
           q == turn'[t]
<1>1. CASE Triage(t)
  BY <1>1, LineStep DEF Triage, SocialLine
<1>2. CASE Degrade(t)
  BY <1>2, LineStep, DropStep DEF Degrade
<1>3. CASE See(t)
  <2>1. PICK notes \in SeenNotes(r.msg) :
          turn' = [turn EXCEPT ![t].pc = "context", ![t].msg.voice = Missing, ![t].says = Missing,
                               ![t].put = Compose(t) \cup VoiceNote(t) \cup notes]
    BY <1>3 DEF See
  <2>2. Compose(t) \cup VoiceNote(t) \cup notes \subseteq {"typed", "transcript", "unheard", "attributes", "confirm"}
    BY DEF Compose, VoiceNote, SeenNotes, VisionNote
  <2> DEFINE put == Compose(t) \cup VoiceNote(t) \cup notes
  <2>3. turn' = [turn EXCEPT ![t].pc = "context", ![t].msg.voice = Missing, ![t].says = Missing, ![t].put = put]
    BY <2>1
  <2> HIDE DEF put
  <2>4. r.pc = "on" /\ r.msg \in Messages
    BY <1>3 DEF See, Sound, Heeds
  <2>5. /\ q.pc = "context" /\ q.msg = [r.msg EXCEPT !.voice = Missing] /\ q.put = put /\ q.says = Missing
        /\ SameRead(r, q) /\ SameCalls(r, q) /\ SamePlan(r, q)
    BY <2>3 DEF Shape, Fielded, Idle, SameRead, SameCalls, SamePlan
  <2> HIDE DEF q
  <2>6. q.pc \in Phases /\ q.tries = 0
    BY <2>4, <2>5 DEF Phases, Sound, Generates, SameCalls
  <2>7. q.msg \in Messages
    BY <2>4, <2>5 DEF Messages
  <2>8. Heeds(q)
    BY <2>2, <2>5, <2>7 DEF Heeds, put
  <2>9. Retrieves(q) /\ Generates(q) /\ Delivers(q)
    BY <2>4, <2>5, <2>6, Frame
  <2> QED BY <2>6, <2>8, <2>9 DEF Sound, q
<1> QED BY <1>1, <1>2, <1>3

\* A retrieval begins, from a stage that may still generate.
LEMMA RetrieveSound ==
  ASSUME Shape, NEW t \in Turns, Sound(turn[t]), NEW products \in SUBSET Products, NEW asked, NEW for, NEW q,
         turn[t].pc \in {"context", "specific", "global"} => for = "note" /\ turn[t].tries = 0,
         turn[t].pc \notin {"context", "specific", "global"} => turn[t].pc = "think" /\ for = "tool",
         q = Retrieve(t, products, asked, for)
  PROVE  Sound(q)
<1> DEFINE r == turn[t]
<1>1. /\ q.pc \in {"specific", "global"} /\ q.found = {} /\ q.recap = r.recap
      /\ q.query = [products |-> products, asked |-> asked, for |-> for, room |-> MaxEntries]
      /\ SameMessage(r, q) /\ SameCalls(r, q) /\ SamePlan(r, q)
  BY DEF Shape, Fielded, Idle, Retrieve, SameMessage, SameCalls, SamePlan
<1> HIDE DEF r
<1>2. Sound(r) /\ r.pc \in {"context", "specific", "global", "think"}
      /\ (r.pc # "think" => for = "note" /\ r.tries = 0) /\ (r.pc = "think" => for = "tool")
  BY DEF r
<1>3. q.pc \in Phases
  BY <1>1 DEF Phases
<1>4. Retrieves(q)
  BY <1>1, <1>2, BoundsAre, EmptyFacts DEF Sound, Retrieves, NoQuery
<1>5. Generates(q)
  BY <1>1, <1>2 DEF Sound, Generates, SameCalls
<1>6. Heeds(q) /\ Delivers(q)
  BY <1>1, <1>2, <1>3, Frame
<1> QED BY <1>3, <1>4, <1>5, <1>6 DEF Sound

\* A retrieval ends.
LEMMA RetrievedSound ==
  ASSUME Shape, NEW t \in Turns, Sound(turn[t]), NEW found \in SUBSET Entries, Cardinality(found) <= MaxEntries, NEW q,
         turn[t].pc \in {"context", "specific", "global"},
         q = Retrieved(t, found)
  PROVE  Sound(q)
<1> DEFINE r == turn[t]
<1>1. /\ q.pc = (IF r.query.for = "note" THEN "recap" ELSE "think") /\ q.found = found /\ q.recap = r.recap
      /\ q.query = NoQuery
      /\ SameMessage(r, q) /\ SameCalls(r, q) /\ SamePlan(r, q)
  BY DEF Shape, Fielded, Idle, Retrieved, SameMessage, SameCalls, SamePlan
<1>2. Sound(r) /\ r.pc \in {"context", "specific", "global"}
  OBVIOUS
<1> HIDE DEF r
<1>3. q.pc \in Phases /\ (r.query.for = "note" => r.tries = 0)
  BY <1>1, <1>2 DEF Phases, Sound, Generates
<1>4. Retrieves(q)
  BY <1>1, <1>2, BoundsAre, EmptyFacts DEF Sound, Retrieves, NoQuery
<1>5. Generates(q)
  BY <1>1, <1>2, <1>3 DEF Sound, Generates, SameCalls
<1>6. Heeds(q) /\ Delivers(q)
  BY <1>1, <1>2, <1>3, Frame
<1> QED BY <1>3, <1>4, <1>5, <1>6 DEF Sound

\* Only its stage changes.
LEMMA StageSound ==
  ASSUME Shape, NEW t \in Turns, Sound(turn[t]), NEW q, NEW pc \in {"recap", "generate"},
         q = [turn[t] EXCEPT !.pc = pc],
         pc = "recap" => turn[t].pc = "context",
         pc = "generate" => turn[t].pc = "think" /\ turn[t].tries = 1
  PROVE  Sound(q)
<1> DEFINE r == turn[t]
<1>1. q.pc = pc /\ SameRead(r, q) /\ SameMessage(r, q) /\ SameCalls(r, q) /\ SamePlan(r, q)
  BY DEF Shape, Fielded, Idle, SameRead, SameMessage, SameCalls, SamePlan
<1>2. Sound(r) /\ (pc = "recap" => r.pc = "context") /\ (pc = "generate" => r.pc = "think" /\ r.tries = 1)
  OBVIOUS
<1> HIDE DEF r
<1>3. q.pc \in Phases
  BY <1>1 DEF Phases
<1>4. Generates(q)
  BY <1>1, <1>2 DEF Sound, Generates, SameCalls
<1>5. Heeds(q) /\ Retrieves(q) /\ Delivers(q)
  BY <1>1, <1>2, <1>3, Frame
<1> QED BY <1>3, <1>4, <1>5 DEF Sound

\* The pre-fetch, and the tool.
LEMMA PrefetchSound ==
  ASSUME Shape, Known, NEW t \in Turns, Sound(turn[t]), SkipPrefetch(t) \/ Prefetch(t) \/ RetrievalFails(t) \/ LookUp(t)
  PROVE  Sound(turn'[t])
<1> DEFINE r == turn[t]
           q == turn'[t]
<1>1. CASE SkipPrefetch(t)
  <2>1. r.pc = "context" /\ q = [r EXCEPT !.pc = "recap"]
    BY <1>1 DEF SkipPrefetch, Shape
  <2> QED BY <2>1, StageSound
<1>2. CASE RetrievalFails(t)
  <2>1. r.pc \in {"context", "specific", "global"} /\ q = Retrieved(t, {})
    BY <1>2 DEF RetrievalFails, Shape
  <2>2. Cardinality({}) <= MaxEntries
    BY BoundsAre, EmptyFacts
  <2> QED BY <2>1, <2>2, RetrievedSound
<1>3. CASE Prefetch(t)
  <2>1. r.pc = "context" /\ r.tries = 0
    BY <1>3 DEF Prefetch, Sound, Generates
  <2>2. PICK match \in Resembled(t) :
          LET products == InContext(t, match) IN
          turn' = [turn EXCEPT ![t] = IF products # {} THEN Retrieve(t, products, FALSE, "note")
                                        ELSE IF Informational(t) THEN Retrieve(t, {}, TRUE, "note")
                                        ELSE [@ EXCEPT !.pc = "recap"]]
    BY <1>3 DEF Prefetch
  <2> DEFINE products == InContext(t, match)
  <2>3. products \subseteq Products
    <3>1. match \subseteq Products
      BY DEF Resembled
    <3>2. r.state \subseteq Products
      BY DEF Shape, Fielded
    <3> QED BY <3>1, <3>2, AdIsProduct DEF InContext
  <2>4. q = IF products # {} THEN Retrieve(t, products, FALSE, "note")
            ELSE IF Informational(t) THEN Retrieve(t, {}, TRUE, "note")
            ELSE [r EXCEPT !.pc = "recap"]
    BY <2>2 DEF Shape
  <2> HIDE DEF products
  <2>5. CASE q = Retrieve(t, products, FALSE, "note")
    BY <2>1, <2>3, <2>5, RetrieveSound
  <2>6. CASE q = Retrieve(t, {}, TRUE, "note")
    BY <2>1, <2>6, RetrieveSound
  <2>7. CASE q = [r EXCEPT !.pc = "recap"]
    BY <2>1, <2>7, StageSound
  <2> QED BY <2>4, <2>5, <2>6, <2>7
<1>4. CASE LookUp(t)
  <2>1. PICK products \in {{}} \cup {{p} : p \in Products}, asked \in BOOLEAN :
          turn' = [turn EXCEPT ![t] = [Retrieve(t, products, asked, "tool") EXCEPT !.calls = @ + 1]]
    BY <1>4 DEF LookUp
  <2>2. r.pc = "think" /\ r.calls < Setting.calls /\ Setting.calls \in 0..MaxCalls /\ r.calls \in Nat
    BY <1>4, RepliesAreTexts DEF LookUp, CanCall, Known, Setting, Sound, Generates
  <2> DEFINE p == Retrieve(t, products, asked, "tool")
  <2>3. Sound(p)
    <3>1. p = Retrieve(t, products, asked, "tool") /\ products \subseteq Products
      BY <2>1
    <3> HIDE DEF p
    <3> QED BY <2>2, <3>1, RetrieveSound
  <2>4. DOMAIN p = DOMAIN Idle /\ p.calls = r.calls
    BY DEF Shape, Fielded, Idle, Retrieve
  <2>5. q = [p EXCEPT !.calls = @ + 1]
    BY <2>1 DEF Shape
  <2>6. p.pc \in {"specific", "global"} /\ p.query.for = "tool"
    BY DEF Shape, Fielded, Idle, Retrieve
  <2> HIDE DEF p
  <2>7. /\ q.pc = p.pc /\ SameRead(p, q) /\ SameMessage(p, q) /\ SamePlan(p, q)
        /\ q.calls = r.calls + 1 /\ q.tries = p.tries /\ q.cards = p.cards /\ q.matched = p.matched
        /\ q.sink = p.sink /\ q.ids = p.ids /\ q.query = p.query
    BY <2>4, <2>5 DEF Idle, SameRead, SameMessage, SamePlan
  <2> HIDE DEF q, r
  <2>8. r.calls + 1 \in 0..MaxCalls
    BY <2>2, BoundsAre
  <2>9. Generates(q)
    BY <2>3, <2>6, <2>7, <2>8 DEF Sound, Generates
  <2>10. q.pc \in Phases
    BY <2>3, <2>7 DEF Sound
  <2>11. Heeds(q) /\ Retrieves(q) /\ Delivers(q)
    <3>1. Retrieves(q)
      BY <2>3, <2>7, <2>10, Frame
    <3> QED BY <2>3, <2>7, <2>10, <3>1, Frame
  <2> QED BY <2>9, <2>10, <2>11 DEF Sound, q
<1> QED BY <1>1, <1>2, <1>3, <1>4

\* The product's tier: what is told of it leaves its room to the store's.
LEMMA ReadSpecificSound ==
  ASSUME Shape, NEW t \in Turns, Sound(turn[t]), ReadSpecific(t)
  PROVE  Sound(turn'[t])
<1> DEFINE r == turn[t]
           q == turn'[t]
<1>0. PICK read \in FindRelevant(r.query.products, r.query.asked, MaxEntries) :
        \E told \in Told(t, read) :
        turn' = [turn EXCEPT ![t] =
                   IF Cardinality(read) = MaxEntries THEN Retrieved(t, told)
                   ELSE ThenGlobal(t, told, Cardinality(read))]
  BY DEF ReadSpecific
<1>1. PICK told \in Told(t, read) :
        turn' = [turn EXCEPT ![t] =
                   IF Cardinality(read) = MaxEntries THEN Retrieved(t, told)
                   ELSE ThenGlobal(t, told, Cardinality(read))]
  BY <1>0
<1>2. r.pc = "specific" /\ r.found = {} /\ r.query.room = MaxEntries /\ Sound(r)
  BY DEF ReadSpecific, Sound, Retrieves
<1>3. read \subseteq Entries /\ IsFiniteSet(read) /\ Cardinality(read) \in Nat /\ Cardinality(read) <= MaxEntries
  BY ReadIsCapped, BoundsAre
<1>4. /\ told \subseteq Entries /\ Cardinality(told) \in Nat /\ Cardinality(told) <= Cardinality(read)
      /\ r.query.for = "note" => Cardinality(told) <= MaxNote
  <2>1. IsFiniteSet(turn[t].found) /\ Cardinality(turn[t].found) = 0
    BY <1>2, FS_EmptySet
  <2>2. turn[t].query.for = "note" => Cardinality(turn[t].found) <= MaxNote
    BY <2>1, BoundsAre
  <2>3. /\ told \subseteq read /\ Cardinality(told) \in Nat /\ Cardinality(told) <= Cardinality(read)
        /\ turn[t].query.for = "note" => Cardinality(told) <= MaxNote - Cardinality(turn[t].found)
    BY <1>3, <2>1, <2>2, ToldIsCapped
  <2> QED BY <1>3, <2>1, <2>3, BoundsAre
<1>5. CASE Cardinality(read) = MaxEntries
  <2>1. q = Retrieved(t, told)
    BY <1>1, <1>5 DEF Shape
  <2>2. Cardinality(told) <= MaxEntries
    BY <1>4, <1>5
  <2> QED BY <1>2, <1>4, <2>1, <2>2, RetrievedSound
<1>6. CASE Cardinality(read) # MaxEntries
  <2>2. DOMAIN r = DOMAIN Idle /\ DOMAIN r.query = DOMAIN NoQuery
    BY DEF Shape, Fielded, Sound, Retrieves
  <2>1. q = ThenGlobal(t, told, Cardinality(read))
    BY <1>1, <1>6 DEF Shape
  <2>3. /\ q.pc = "global" /\ q.found = told /\ q.recap = r.recap
        /\ q.query = [r.query EXCEPT !.room = @ - Cardinality(read)]
        /\ SameMessage(r, q) /\ SameCalls(r, q) /\ SamePlan(r, q)
    BY <2>1, <2>2 DEF ThenGlobal, Idle, SameMessage, SameCalls, SamePlan
  <2>4. /\ DOMAIN q.query = DOMAIN NoQuery /\ q.query.products = r.query.products /\ q.query.for = r.query.for
        /\ q.query.room = MaxEntries - Cardinality(read)
    BY <1>2, <2>2, <2>3 DEF NoQuery
  <2> HIDE DEF q, r
  <2>5. q.pc \in Phases
    BY <2>3 DEF Phases
  <2>6. Retrieves(q)
    <3>1. q.query.room \in 0..MaxEntries /\ Cardinality(told) + q.query.room <= MaxEntries /\ Cardinality(told) <= MaxEntries
      BY <1>3, <1>4, <2>4, BoundsAre
    <3>2. r.query.products \subseteq Products /\ r.recap \subseteq Products
      BY <1>2 DEF Sound, Retrieves
    <3> QED BY <1>4, <2>3, <2>4, <3>1, <3>2 DEF Retrieves
  <2>7. Generates(q)
    BY <1>2, <2>3, <2>4 DEF Sound, Generates, SameCalls
  <2>8. Heeds(q) /\ Delivers(q)
    BY <1>2, <2>3, <2>5, Frame
  <2> QED BY <2>5, <2>6, <2>7, <2>8 DEF Sound, q
<1> QED BY <1>5, <1>6

\* The store's tier, and the pre-fetch asked once more.
LEMMA ReadGlobalSound ==
  ASSUME Shape, NEW t \in Turns, Sound(turn[t]), ReadGlobal(t)
  PROVE  Sound(turn'[t])
<1> DEFINE r == turn[t]
           q == turn'[t]
<1>0. PICK read \in FindRelevant({None}, r.query.asked, r.query.room) :
        \E told \in Told(t, read) :
          \/ r.query.for = "note" /\ turn' = [turn EXCEPT ![t] = Retrieve(t, {}, TRUE, "note")]
          \/ turn' = [turn EXCEPT ![t] = Retrieved(t, turn[t].found \cup told)]
  BY DEF ReadGlobal
<1>1. PICK told \in Told(t, read) :
        \/ r.query.for = "note" /\ turn' = [turn EXCEPT ![t] = Retrieve(t, {}, TRUE, "note")]
        \/ turn' = [turn EXCEPT ![t] = Retrieved(t, turn[t].found \cup told)]
  BY <1>0
<1>2. /\ r.pc = "global" /\ r.query.room \in 0..MaxEntries /\ r.found \subseteq Entries
      /\ IF r.query.for = "note" THEN Cardinality(r.found) <= MaxNote ELSE Cardinality(r.found) + r.query.room <= MaxEntries
      /\ r.query.for = "note" => r.tries = 0
  BY DEF ReadGlobal, Sound, Retrieves, Generates
<1>3. read \subseteq Entries /\ IsFiniteSet(read) /\ Cardinality(read) \in Nat /\ Cardinality(read) <= r.query.room
  <2>1. r.query.room \in Nat
    BY <1>2
  <2> HIDE DEF r
  <2> QED BY <2>1, ReadIsCapped
<1>4. IsFiniteSet(r.found) /\ Cardinality(r.found) \in Nat
  BY <1>2, StoreIsFinite, FS_Subset, FS_CardinalityType
<1>5. /\ told \subseteq Entries /\ IsFiniteSet(told) /\ Cardinality(told) \in Nat /\ Cardinality(told) <= Cardinality(read)
      /\ r.query.for = "note" => Cardinality(told) <= MaxNote - Cardinality(r.found)
  BY <1>2, <1>3, <1>4, ToldIsCapped
<1>6. Cardinality(r.found \cup told) <= MaxEntries
  <2>1. Cardinality(r.found \cup told) = Cardinality(r.found) + Cardinality(told) - Cardinality(r.found \cap told)
    BY <1>4, <1>5, FS_Union
  <2>2. Cardinality(r.found \cap told) \in Nat
    BY <1>4, FS_Intersection, FS_CardinalityType
  <2>3. Cardinality(r.found) + Cardinality(told) <= MaxEntries
    BY <1>2, <1>3, <1>4, <1>5, BoundsAre
  <2> QED BY <1>4, <1>5, <2>1, <2>2, <2>3, BoundsAre
<1>7. CASE r.query.for = "note" /\ turn' = [turn EXCEPT ![t] = Retrieve(t, {}, TRUE, "note")]
  <2>1. q = Retrieve(t, {}, TRUE, "note")
    BY <1>7 DEF Shape
  <2> QED BY <1>2, <1>7, <2>1, RetrieveSound
<1>8. CASE turn' = [turn EXCEPT ![t] = Retrieved(t, turn[t].found \cup told)]
  <2>1. q = Retrieved(t, r.found \cup told)
    BY <1>8 DEF Shape
  <2>2. r.found \cup told \in SUBSET Entries
    BY <1>2, <1>5
  <2> QED BY <1>2, <1>6, <2>1, <2>2, RetrievedSound
<1> QED BY <1>1, <1>7, <1>8

\* The recap.
LEMMA RecapSound ==
  ASSUME Shape, NEW t \in Turns, Sound(turn[t]), Recap(t) \/ RecapMisses(t) \/ RecapEnds(t)
  PROVE  Sound(turn'[t])
<1> DEFINE r == turn[t]
           q == turn'[t]
<1>1. r.pc = "recap" /\ r.tries = 0
  BY DEF Recap, RecapMisses, RecapEnds, Sound, Generates
<1>2. PICK state, recap :
        /\ recap \subseteq r.recap \cup Products
        /\ \/ turn' = [turn EXCEPT ![t].state = state, ![t].recap = recap]
           \/ turn' = [turn EXCEPT ![t].state = state]
           \/ turn' = [turn EXCEPT ![t].pc = "generate", ![t].state = state]
  <2>1. CASE Recap(t)
    <3>1. PICK p \in r.state :
            turn' = [turn EXCEPT ![t].state = @ \ {p}, ![t].recap = IF Recallable(p) THEN @ \cup {p} ELSE @]
      BY <2>1 DEF Recap
    <3>2. turn' = [turn EXCEPT ![t].state = r.state \ {p}, ![t].recap = IF Recallable(p) THEN r.recap \cup {p} ELSE r.recap]
      BY <3>1 DEF Shape, Fielded, Idle
    <3>3. (IF Recallable(p) THEN r.recap \cup {p} ELSE r.recap) \subseteq r.recap \cup Products
      BY DEF Shape, Fielded
    <3> HIDE DEF r
    <3> QED BY <3>2, <3>3
  <2>2. CASE RecapMisses(t)
    <3>1. PICK p \in r.state : turn' = [turn EXCEPT ![t].state = @ \ {p}]
      BY <2>2 DEF RecapMisses
    <3>2. turn' = [turn EXCEPT ![t].state = r.state \ {p}]
      BY <3>1 DEF Shape
    <3> QED BY <3>2
  <2>3. CASE RecapEnds(t)
    BY <2>3 DEF RecapEnds
  <2> QED BY <2>1, <2>2, <2>3
<1>3. /\ q.pc \in {"recap", "generate"} /\ q.recap \in {r.recap, recap} /\ q.query = r.query /\ q.found = r.found
      /\ SameMessage(r, q) /\ SameCalls(r, q) /\ SamePlan(r, q)
  BY <1>1, <1>2 DEF Shape, Fielded, Idle, SameMessage, SameCalls, SamePlan
<1>4. Sound(r)
  OBVIOUS
<1> HIDE DEF q, r
<1>5. q.pc \in Phases
  BY <1>3 DEF Phases
<1>6. Retrieves(q)
  BY <1>1, <1>2, <1>3, <1>4 DEF Sound, Retrieves
<1>7. q.tries = 0
  BY <1>1, <1>3 DEF SameCalls
<1>8. Heeds(q) /\ Generates(q) /\ Delivers(q)
  BY <1>1, <1>3, <1>4, <1>5, <1>7, Frame
<1> QED BY <1>5, <1>6, <1>8 DEF Sound, q

\* A generation starts, and its tools that show products.
LEMMA GenerateSound ==
  ASSUME Shape, Known, NEW t \in Turns, Sound(turn[t]),
         Generate(t) \/ Search(t) \/ \E p \in Products : ShowMedia(t, p)
  PROVE  Sound(turn'[t])
<1> DEFINE r == turn[t]
           q == turn'[t]
<1>1. CanCall(t, "search") \/ CanCall(t, "media") =>
        r.pc = "think" /\ r.calls \in Nat /\ r.calls + 1 \in 0..MaxCalls
  <2> SUFFICES ASSUME CanCall(t, "search") \/ CanCall(t, "media")
               PROVE  r.pc = "think" /\ r.calls \in Nat /\ r.calls + 1 \in 0..MaxCalls
    OBVIOUS
  <2>1. r.pc = "think" /\ r.calls < Setting.calls /\ r.calls \in Nat
    BY DEF CanCall, Sound, Generates
  <2>2. Setting.calls \in 0..MaxCalls
    BY RepliesAreTexts DEF Known, Setting
  <2> QED BY <2>1, <2>2, BoundsAre
<1>2. /\ Tray(r.sink) /\ r.tries \in 0..2 /\ r.calls \in 0..MaxCalls /\ r.matched \subseteq r.cards /\ r.cards \subseteq Products
      /\ DOMAIN turn = Turns /\ DOMAIN r = DOMAIN Idle
  BY DEF Sound, Generates, Shape, Fielded
<1> DEFINE others == q.ids = r.ids /\ SameMessage(r, q) /\ SameRead(r, q) /\ SamePlan(r, q)
           sums == q.tries \in 0..2 /\ q.calls \in 0..MaxCalls /\ q.matched \subseteq q.cards /\ q.cards \subseteq Products
<1> SUFFICES ASSUME turn' # turn PROVE Sound(q)
  OBVIOUS
<1>3. q.pc = "think" /\ r.pc \in {"generate", "think"} /\ others /\ sums /\ Tray(q.sink)
  <2> USE DEF Idle, SameMessage, SameRead, SamePlan
  <2>1. CASE Generate(t)
    <3>1. r.pc = "generate" /\ r.tries + 1 \in 0..2
      BY <2>1 DEF Generate, Sound, Generates
    <3>2. turn' = [turn EXCEPT ![t].pc = "think", ![t].tries = @ + 1, ![t].calls = 0,
                               ![t].cards = {}, ![t].matched = {}, ![t].media = {}]
      BY <2>1 DEF Generate
    <3>3. q.pc = "think" /\ others
      BY <1>2, <3>2
    <3>4. q.tries = r.tries + 1 /\ q.calls = 0 /\ q.cards = {} /\ q.matched = {} /\ q.sink = r.sink
      BY <1>2, <3>2
    <3> HIDE DEF others, q, r
    <3>5. q.tries \in 0..2 /\ q.calls \in 0..MaxCalls /\ q.matched \subseteq q.cards /\ q.cards \subseteq Products
      BY <3>1, <3>4, BoundsAre
    <3> QED BY <1>2, <3>1, <3>3, <3>4, <3>5
  <2>2. CASE Search(t)
    <3>1. PICK ps \in SUBSET Products, listed \in BOOLEAN :
            turn' = [turn EXCEPT ![t].calls = @ + 1, ![t].cards = @ \cup ps,
                                 ![t].matched = IF listed THEN @ ELSE @ \cup ps]
      BY <2>2 DEF Search
    <3>2. r.pc = "think" /\ r.calls + 1 \in 0..MaxCalls
      BY <1>1, <2>2 DEF Search
    <3>3. q.pc = "think" /\ others
      BY <1>2, <3>1, <3>2
    <3>4. /\ q.tries = r.tries /\ q.calls = r.calls + 1 /\ q.cards = r.cards \cup ps /\ q.sink = r.sink
          /\ q.matched \in {r.matched, r.matched \cup ps}
      BY <1>2, <3>1
    <3> HIDE DEF others, q, r
    <3>6. q.tries \in 0..2 /\ q.calls \in 0..MaxCalls /\ q.matched \subseteq q.cards /\ q.cards \subseteq Products
      BY <1>2, <3>2, <3>4
    <3> QED BY <1>2, <3>2, <3>3, <3>4, <3>6
  <2>3. ASSUME NEW p \in Products, ShowMedia(t, p)
        PROVE  q.pc = "think" /\ r.pc \in {"generate", "think"} /\ others /\ sums /\ Tray(q.sink)
    <3> DEFINE sink == IF p \in OnSale THEN Sanitised(r.sink, Photos[p]) ELSE r.sink
    <3>1. turn' = [turn EXCEPT ![t].calls = @ + 1, ![t].media = @ \cup {p},
                               ![t].sink = IF p \in OnSale THEN Sanitised(@, Photos[p]) ELSE @]
      BY <2>3 DEF ShowMedia
    <3>2. r.pc = "think" /\ r.calls + 1 \in 0..MaxCalls
      BY <1>1, <2>3 DEF ShowMedia
    <3>3. Tray(sink)
      <4>1. Photos[p] \in Seq(ToSet(Photos[p]))
        BY StoreIsFinite
      <4>2. Tray(Sanitised(r.sink, Photos[p]))
        BY <1>2, <4>1, SanitisedKeepsTray
      <4> QED BY <1>2, <4>2
    <3>4. q.pc = "think" /\ others
      BY <1>2, <3>1, <3>2
    <3>5. q.tries = r.tries /\ q.calls = r.calls + 1 /\ q.cards = r.cards /\ q.matched = r.matched /\ q.sink = sink
      BY <1>2, <3>1
    <3> HIDE DEF others, q, r, sink
    <3>6. q.tries \in 0..2 /\ q.calls \in 0..MaxCalls /\ q.matched \subseteq q.cards /\ q.cards \subseteq Products
      BY <1>2, <3>2, <3>5
    <3> QED BY <3>2, <3>3, <3>4, <3>5, <3>6
  <2> HIDE DEF q, r, others, sums
  <2> QED BY <2>1, <2>2, <2>3
<1>4. Sound(r)
  OBVIOUS
<1> HIDE DEF q, r
<1>5. q.pc \in Phases
  BY <1>3 DEF Phases
<1>6. Generates(q)
  BY <1>3, <1>4 DEF Sound, Generates
<1>7. Heeds(q) /\ Retrieves(q) /\ Delivers(q)
  BY <1>3, <1>4, <1>5, Frame
<1> QED BY <1>5, <1>6, <1>7 DEF Sound, q

\* The generation ends in a reply.
LEMMA RespondSound ==
  ASSUME Shape, Known, NEW t \in Turns, Sound(turn[t]), Respond(t) \/ RespondEmpty(t) \/ GenerateThrows(t)
  PROVE  Sound(turn'[t])
<1> DEFINE r == turn[t]
<1>1. r.pc = "think" /\ Tray(r.sink) /\ r.cards \subseteq Products
  BY DEF Respond, RespondEmpty, GenerateThrows, Sound, Generates
<1>2. \A ids \in ShownIds(r) : ids \in SUBSET Products /\ Cardinality(ids) <= MaxShown
  <2>1. r.media \subseteq Products /\ r.matched \subseteq Products
    BY DEF Shape, Fielded
  <2> HIDE DEF r
  <2> QED BY <2>1, ShownIsCapped
<1>3. Parts(CardParts(r.cards))
  BY <1>1, CardsInParts
<1>4. CASE GenerateThrows(t)
  BY <1>4, LineStep DEF GenerateThrows
<1>5. CASE Respond(t)
  <2>1. PICK text \in Setting.replies, ids \in ShownIds(r) :
          /\ Clean(text) # 0
          /\ Deliver(t, TextParts(Clean(text)) \o CardParts(r.cards), r.sink, ids)
    BY <1>5 DEF Respond
  <2>2. Clean(text) \in Nat \ {0}
    <3>1. text \in Seq(Paragraphs)
      BY RepliesAreTexts DEF Known, Setting
    <3> QED BY <2>1, <3>1, CleanCounts
  <2>3. Parts(TextParts(Clean(text))) /\ TextParts(Clean(text)) # <<>>
    BY <2>2, TextInParts
  <2> DEFINE parts == TextParts(Clean(text)) \o CardParts(r.cards)
  <2>4. Parts(parts) /\ parts # <<>>
    BY <1>3, <2>3, PartsJoined
  <2>5. Deliver(t, parts, r.sink, ids) /\ ids \in SUBSET Products /\ Cardinality(ids) <= MaxShown
    BY <1>2, <2>1
  <2> HIDE DEF parts, r
  <2> QED BY <1>1, <2>4, <2>5, DeliverStep
<1>6. CASE RespondEmpty(t)
  <2>1. CASE r.tries = 1 /\ turn' = [turn EXCEPT ![t].pc = "generate"]
    <3>1. turn'[t] = [r EXCEPT !.pc = "generate"]
      BY <2>1 DEF Shape
    <3> QED BY <1>1, <2>1, <3>1, StageSound
  <2>2. CASE \E ids \in ShownIds(r) : Deliver(t, AnswerLine \o CardParts(r.cards), r.sink, ids)
    <3>1. PICK ids \in ShownIds(r) : Deliver(t, AnswerLine \o CardParts(r.cards), r.sink, ids)
      BY <2>2
    <3> DEFINE parts == AnswerLine \o CardParts(r.cards)
    <3>2. Parts(parts) /\ parts # <<>>
      BY <1>3, LineInParts, PartsJoined
    <3>3. Deliver(t, parts, r.sink, ids) /\ ids \in SUBSET Products /\ Cardinality(ids) <= MaxShown
      BY <1>2, <3>1
    <3> HIDE DEF parts, r
    <3> QED BY <1>1, <3>2, <3>3, DeliverStep
  <2> QED BY <1>6, <2>1, <2>2 DEF RespondEmpty
<1> QED BY <1>4, <1>5, <1>6

\* What a delivery step leaves alone.
LEMMA DeliveryFrame ==
  ASSUME NEW r, NEW q, Sound(r), SameMessage(r, q), SameRead(r, q), SameCalls(r, q), Delivers(q),
         q.pc \in {"send", "photos", "failed", "done", "missed"}
  PROVE  Sound(q)
<1>1. q.pc \in Phases
  BY DEF Phases
<1>2. Heeds(q) /\ Retrieves(q) /\ Generates(q)
  BY <1>1, Frame
<1> QED BY <1>1, <1>2 DEF Sound

\* She has got one part more.
LEMMA GotMore ==
  ASSUME NEW got \in Seq(Part), NEW x \in Part
  PROVE  /\ Append(got, x) \in Seq(Part) /\ Len(Append(got, x)) = Len(got) + 1 /\ Len(got) \in Nat
         /\ \A i \in 1..Len(got) : Append(got, x)[i] = got[i]
         /\ Append(got, x)[Len(got) + 1] = x
<1> DEFINE P == Part
<1>1. got \in Seq(P) /\ x \in P
  OBVIOUS
<1> HIDE DEF P
<1>2. /\ Append(got, x) \in Seq(P) /\ Len(Append(got, x)) = Len(got) + 1 /\ Len(got) \in Nat
      /\ \A i \in 1..Len(got) : Append(got, x)[i] = got[i]
      /\ Append(got, x)[Len(got) + 1] = x
  BY <1>1, AppendFacts
<1> QED BY <1>2 DEF P

\* A bubble, the carousel or the note.
LEMMA SendSound ==
  ASSUME Shape, NEW t \in Turns, Sound(turn[t]), Send(t)
  PROVE  Sound(turn'[t])
<1> DEFINE r == turn[t]
           q == turn'[t]
           part == r.plan[r.at]
           more == Append(r.got, part)
<1>1. /\ r.pc = "send" /\ Sound(r) /\ Parts(r.plan) /\ Tray(r.photos) /\ r.got \in Seq(Part)
      /\ r.at \in 1..(Len(r.plan) + Len(r.photos) + 1) /\ r.at <= Len(r.plan) /\ Len(r.got) = r.at - 1 /\ Reads(r, r.at - 1)
  BY DEF Send, Sound, Delivers
<1>2. DOMAIN turn = Turns /\ DOMAIN r = DOMAIN Idle
  BY DEF Shape, Fielded
<1>3. \/ turn' = [turn EXCEPT ![t].got = more, ![t].at = @ + 1, ![t].pc = IF r.at < Len(r.plan) THEN "send" ELSE "photos"]
      \/ turn' = [turn EXCEPT ![t].got = r.got, ![t].pc = "failed"]
      \/ turn' = [turn EXCEPT ![t].got = more, ![t].pc = "failed"]
  BY DEF Send, Onward, SendFails, Got
<1>4. SameMessage(r, q) /\ SameRead(r, q) /\ SameCalls(r, q) /\ q.plan = r.plan /\ q.photos = r.photos
  BY <1>2, <1>3 DEF Idle, SameMessage, SameRead, SameCalls
<1>5. \/ q.pc = (IF r.at < Len(r.plan) THEN "send" ELSE "photos") /\ q.got = more /\ q.at = r.at + 1
      \/ q.pc = "failed" /\ q.got = r.got /\ q.at = r.at
      \/ q.pc = "failed" /\ q.got = more /\ q.at = r.at
  BY <1>2, <1>3 DEF Idle
<1> HIDE DEF q, r
<1>6. Len(r.plan) \in Nat /\ Len(r.photos) \in Nat /\ DOMAIN r.plan = 1..Len(r.plan) /\ part \in Part /\ r.at \in Nat
  BY <1>1 DEF Parts, Tray
<1> HIDE DEF part
<1>7. /\ more \in Seq(Part) /\ Len(more) = r.at
      /\ \A i \in 1..(r.at - 1) : more[i] = r.got[i]
      /\ more[r.at] = part
  BY <1>1, <1>6, GotMore
<1> HIDE DEF more
<1>8. \A i \in 1..r.at : more[i] = r.plan[i]
  <2> TAKE i \in 1..r.at
  <2>1. CASE i = r.at
    BY <1>7, <2>1 DEF part
  <2>2. CASE i # r.at
    BY <1>1, <1>6, <1>7, <2>2 DEF Reads
  <2> QED BY <2>1, <2>2
<1>9. /\ Parts(q.plan) /\ Tray(q.photos) /\ q.got \in Seq(Part) /\ q.at \in 1..(Len(q.plan) + Len(q.photos) + 1)
  <2>1. Parts(q.plan) /\ Tray(q.photos)
    BY <1>1, <1>4
  <2>2. q.got \in Seq(Part)
    BY <1>1, <1>5, <1>7
  <2>3. q.at \in {r.at, r.at + 1}
    BY <1>5
  <2>4. q.at \in 1..(Len(r.plan) + Len(r.photos) + 1)
    <3>1. Len(r.plan) \in Nat /\ Len(r.photos) \in Nat /\ r.at \in Nat /\ 1 <= r.at /\ r.at <= Len(r.plan)
      BY <1>1, <1>6
    <3>2. \A a, n, m \in Nat : 1 <= a /\ a <= n => a \in 1..(n + m + 1) /\ a + 1 \in 1..(n + m + 1)
      OBVIOUS
    <3>3. r.at \in 1..(Len(r.plan) + Len(r.photos) + 1) /\ r.at + 1 \in 1..(Len(r.plan) + Len(r.photos) + 1)
      BY <3>1, <3>2
    <3> QED BY <2>3, <3>3
  <2> QED BY <1>4, <2>1, <2>2, <2>4
<1>10. q.pc = "failed" => Reads(q, Len(q.got))
  <2>1. q.pc = "failed" => q.got = r.got \/ q.got = more
    BY <1>5
  <2>2. q.got = r.got => Reads(q, Len(q.got))
    BY <1>1, <1>4, <1>6 DEF Reads
  <2>3. q.got = more => Reads(q, Len(q.got))
    BY <1>1, <1>4, <1>7, <1>8 DEF Reads
  <2> QED BY <2>1, <2>2, <2>3
<1>11. q.pc = "send" => q.at <= Len(q.plan) /\ Len(q.got) = q.at - 1 /\ Reads(q, q.at - 1)
  <2> SUFFICES ASSUME q.pc = "send"
               PROVE  q.at <= Len(q.plan) /\ Len(q.got) = q.at - 1 /\ Reads(q, q.at - 1)
    OBVIOUS
  <2>1. r.at < Len(r.plan) /\ q.got = more /\ q.at = r.at + 1
    BY <1>5
  <2>2. q.at - 1 = r.at /\ q.at <= Len(q.plan)
    BY <1>4, <1>6, <2>1
  <2> QED BY <1>1, <1>4, <1>7, <1>8, <2>1, <2>2 DEF Reads
<1>12. q.pc = "photos" => /\ q.at > Len(q.plan) /\ Len(q.plan) <= Len(q.got) /\ Reads(q, Len(q.plan))
                          /\ Looks(q, Len(q.plan), q.at - 1 - Len(q.plan))
  <2> SUFFICES ASSUME q.pc = "photos"
               PROVE  /\ q.at > Len(q.plan) /\ Len(q.plan) <= Len(q.got) /\ Reads(q, Len(q.plan))
                      /\ Looks(q, Len(q.plan), q.at - 1 - Len(q.plan))
    OBVIOUS
  <2>1. q.got = more /\ q.at = r.at + 1 /\ r.at = Len(r.plan)
    BY <1>1, <1>5, <1>6
  <2>2. q.at > Len(q.plan) /\ Len(q.got) = Len(q.plan)
    BY <1>4, <1>6, <1>7, <2>1
  <2>3. Reads(q, Len(q.plan))
    BY <1>4, <1>6, <1>8, <2>1 DEF Reads
  <2>4. Looks(q, Len(q.plan), q.at - 1 - Len(q.plan))
    <3> DEFINE m == q.at - 1 - Len(q.plan)
               none == [i \in {} |-> i]
    <3>1. (Len(q.plan) + 1)..Len(q.got) = {}
      BY <1>4, <1>6, <2>2
    <3>2. none \in [{} -> 1..m]
      OBVIOUS
    <3> HIDE DEF none, m
    <3>3. Looks(q, Len(q.plan), m)
      BY <3>1, <3>2 DEF Looks
    <3> QED BY <3>3 DEF m
  <2> QED BY <1>4, <1>6, <2>2, <2>3, <2>4
<1>13. q.pc \in {"send", "photos", "failed"}
  BY <1>5
<1>14. Delivers(q)
  BY <1>9, <1>10, <1>11, <1>12, <1>13 DEF Delivers
<1>15. Sound(q)
  BY <1>1, <1>4, <1>13, <1>14, DeliveryFrame
<1> QED BY <1>15 DEF q

\* One photo more, after those before it.
LEMMA LooksFurther ==
  ASSUME NEW r, NEW q, NEW n \in Nat, NEW m \in Nat, Looks(r, n, m), r.got \in Seq(Part), n <= Len(r.got),
         q.photos = r.photos
  PROVE  /\ q.got = r.got => Looks(q, n, m + 1)
         /\ \A x \in Part : x = [part |-> "photo", of |-> r.photos[m + 1]] /\ q.got = Append(r.got, x) => Looks(q, n, m + 1)
<1> DEFINE photo(i) == [part |-> "photo", of |-> r.photos[i]]
           N == Len(r.got)
<1>1. PICK place \in [(n+1)..N -> 1..m] :
        /\ \A i \in (n+1)..N : r.got[i] = photo(place[i])
        /\ \A i, j \in (n+1)..N : i < j => place[i] < place[j]
  BY DEF Looks
<1>2. N \in Nat /\ n <= N
  OBVIOUS
<1> HIDE DEF photo, N
<1>3. ASSUME q.got = r.got
      PROVE  Looks(q, n, m + 1)
  <2>1. 1..m \subseteq 1..(m + 1)
    OBVIOUS
  <2>2. place \in [(n+1)..N -> 1..(m + 1)]
    BY <1>1, <2>1
  <2> QED BY <1>1, <1>3, <2>2 DEF Looks, N, photo
<1>4. ASSUME NEW x \in Part, x = photo(m + 1), q.got = Append(r.got, x)
      PROVE  Looks(q, n, m + 1)
  <2>1. /\ Len(q.got) = N + 1
        /\ \A i \in 1..N : q.got[i] = r.got[i]
        /\ q.got[N + 1] = x
    BY <1>4, GotMore DEF N
  <2> DEFINE to == [i \in (n+1)..(N+1) |-> IF i = N + 1 THEN m + 1 ELSE place[i]]
  <2>2. \A i \in (n+1)..(N+1) : i # N + 1 => i \in (n+1)..N /\ i \in 1..N
    BY <1>2
  <2>3. \A i \in (n+1)..N : place[i] \in 1..m
    BY <1>1
  <2>4. to \in [(n+1)..(N+1) -> 1..(m + 1)]
    <3>1. \A i \in (n+1)..(N+1) : (IF i = N + 1 THEN m + 1 ELSE place[i]) \in 1..(m + 1)
      BY <2>2, <2>3
    <3> QED BY <3>1
  <2>5. \A i \in (n+1)..(N+1) : to[i] = IF i = N + 1 THEN m + 1 ELSE place[i]
    OBVIOUS
  <2> HIDE DEF to
  <2>6. ASSUME NEW i \in (n+1)..(N+1)
        PROVE  q.got[i] = photo(to[i])
    <3>1. CASE i = N + 1
      BY <1>4, <2>1, <2>5, <3>1
    <3>2. CASE i # N + 1
      BY <1>1, <2>1, <2>2, <2>5, <3>2
    <3> QED BY <3>1, <3>2
  <2>7. ASSUME NEW i \in (n+1)..(N+1), NEW j \in (n+1)..(N+1), i < j
        PROVE  to[i] < to[j]
    <3>1. i # N + 1 /\ i \in (n+1)..N /\ to[i] = place[i] /\ place[i] \in 1..m
      BY <1>2, <2>2, <2>3, <2>5, <2>7
    <3>2. CASE j = N + 1
      <4>1. to[j] = m + 1
        BY <2>5, <3>2
      <4> QED BY <3>1, <4>1
    <3>3. CASE j # N + 1
      BY <1>1, <2>2, <2>5, <2>7, <3>1, <3>3
    <3> QED BY <3>2, <3>3
  <2> QED BY <2>1, <2>4, <2>6, <2>7 DEF Looks, photo
<1> QED BY <1>3, <1>4 DEF photo

\* A photo, sent or not.
LEMMA SendPhotoSound ==
  ASSUME Shape, NEW t \in Turns, Sound(turn[t]), SendPhoto(t)
  PROVE  Sound(turn'[t])
<1> DEFINE r == turn[t]
           q == turn'[t]
           n == Len(r.plan)
           m == r.at - 1 - n
           photo == [part |-> "photo", of |-> r.photos[r.at - n]]
           more == Append(r.got, photo)
<1>1. /\ r.pc = "photos" /\ Sound(r) /\ Parts(r.plan) /\ Tray(r.photos) /\ r.got \in Seq(Part)
      /\ r.at \in 1..(n + Len(r.photos) + 1) /\ r.at > n /\ n <= Len(r.got) /\ Reads(r, n) /\ Looks(r, n, m)
      /\ r.at - n <= Len(r.photos)
  BY DEF SendPhoto, Sound, Delivers
<1>2. DOMAIN turn = Turns /\ DOMAIN r = DOMAIN Idle
  BY DEF Shape, Fielded
<1>3. \E got \in {r.got, more} :
        turn' = [turn EXCEPT ![t].got = got, ![t].at = @ + 1, ![t].pc = IF r.at < n THEN "send" ELSE "photos"]
  BY DEF SendPhoto, Onward, Got
<1>4. SameMessage(r, q) /\ SameRead(r, q) /\ SameCalls(r, q) /\ q.plan = r.plan /\ q.photos = r.photos
  BY <1>2, <1>3 DEF Idle, SameMessage, SameRead, SameCalls
<1>5. q.pc = (IF r.at < n THEN "send" ELSE "photos") /\ q.got \in {r.got, more} /\ q.at = r.at + 1
  BY <1>2, <1>3 DEF Idle
<1> HIDE DEF q, r
<1>6. /\ n \in Nat /\ Len(r.photos) \in Nat /\ r.photos \in Seq(Web)
      /\ r.at \in Nat /\ m \in Nat /\ r.at - n = m + 1 /\ m + 1 \in 1..Len(r.photos) /\ ~(r.at < n)
  <2>1. n \in Nat /\ Len(r.photos) \in Nat /\ r.photos \in Seq(Web)
    BY <1>1 DEF Parts, Tray
  <2> HIDE DEF n
  <2> QED BY <1>1, <2>1
<1>7. photo \in Part
  <2>1. r.photos[m + 1] \in Web
    <3> HIDE DEF m, n
    <3> QED BY <1>6
  <2> QED BY <1>6, <2>1 DEF Part
<1>8. photo = [part |-> "photo", of |-> r.photos[m + 1]]
  BY <1>6
<1> HIDE DEF photo, m, n
<1>9. /\ more \in Seq(Part) /\ Len(more) = Len(r.got) + 1 /\ Len(r.got) \in Nat
      /\ \A i \in 1..Len(r.got) : more[i] = r.got[i]
  BY <1>1, <1>7, GotMore
<1>10. Looks(q, n, m + 1)
  BY <1>1, <1>4, <1>5, <1>6, <1>7, <1>8, LooksFurther
<1> HIDE DEF more
<1>11. Reads(q, n)
  <2>1. \A i \in 1..n : i \in 1..Len(r.got) /\ r.got[i] = r.plan[i]
    BY <1>1, <1>6, <1>9 DEF Reads
  <2>2. \A i \in 1..n : q.got[i] = r.got[i]
    BY <1>5, <1>9, <2>1
  <2>3. n <= Len(q.plan)
    BY <1>1, <1>4 DEF Reads
  <2> QED BY <1>4, <2>1, <2>2, <2>3 DEF Reads
<1>12. q.pc = "photos" /\ q.at - 1 - n = m + 1 /\ q.at > n /\ n = Len(q.plan) /\ n <= Len(q.got) /\ q.got \in Seq(Part)
  <2>1. q.pc = "photos" /\ q.at = r.at + 1
    BY <1>5, <1>6
  <2>2. n = Len(q.plan)
    BY <1>4 DEF n
  <2>3. q.got \in Seq(Part) /\ n <= Len(q.got)
    BY <1>1, <1>5, <1>6, <1>9
  <2>4. r.at + 1 - 1 - n = m + 1 /\ r.at + 1 > n
    BY <1>1, <1>6
  <2>5. q.at - 1 - n = m + 1 /\ q.at > n
    <3>1. n \in Nat /\ m \in Nat /\ r.at \in Nat
      BY <1>6
    <3>2. q.at \in Nat
      BY <2>1, <3>1
    <3> QED BY <2>1, <2>4, <3>1, <3>2
  <2> QED BY <2>1, <2>2, <2>3, <2>5
<1>13. q.at \in 1..(Len(q.plan) + Len(q.photos) + 1)
  <2>1. r.at + 1 \in 1..(n + Len(r.photos) + 1)
    BY <1>6
  <2> QED BY <1>4, <1>5, <1>12, <2>1
<1>14. Delivers(q)
  <2>1. Parts(q.plan) /\ Tray(q.photos)
    BY <1>1, <1>4
  <2> QED BY <1>10, <1>11, <1>12, <1>13, <2>1 DEF Delivers
<1>15. Sound(q)
  BY <1>1, <1>4, <1>12, <1>14, DeliveryFrame
<1> QED BY <1>15 DEF q

\* The end of a delivery.
LEMMA EndSound ==
  ASSUME Shape, NEW t \in Turns, Sound(turn[t]), Complete(t) \/ Fallback(t)
  PROVE  Sound(turn'[t])
<1> DEFINE r == turn[t]
           q == turn'[t]
           fallback == [part |-> "fallback", of |-> {}]
           more == Append(r.got, fallback)
<1>1. /\ r.pc \in {"photos", "failed"} /\ Sound(r) /\ Parts(r.plan) /\ Tray(r.photos) /\ r.got \in Seq(Part)
      /\ r.at \in 1..(Len(r.plan) + Len(r.photos) + 1)
  BY DEF Complete, Fallback, Sound, Delivers
<1>2. DOMAIN turn = Turns /\ DOMAIN r = DOMAIN Idle
  BY DEF Shape, Fielded
<1>3. \/ Complete(t) /\ turn' = [turn EXCEPT ![t].pc = "done"]
      \/ Fallback(t) /\ turn' = [turn EXCEPT ![t].pc = "missed"]
      \/ \E pc \in {"done", "missed"} : Fallback(t) /\ turn' = [turn EXCEPT ![t].got = more, ![t].pc = pc]
  BY DEF Complete, Fallback, Got
<1>4. /\ SameMessage(r, q) /\ SameRead(r, q) /\ SameCalls(r, q)
      /\ q.plan = r.plan /\ q.photos = r.photos /\ q.at = r.at
  BY <1>2, <1>3 DEF Idle, SameMessage, SameRead, SameCalls
<1>5. q.pc \in {"done", "missed"} /\ (q.got = r.got \/ (Fallback(t) /\ q.got = more))
  BY <1>2, <1>3 DEF Idle
<1>6. fallback \in Part
  BY DEF Part
<1>7. Complete(t) => /\ Len(r.plan) <= Len(r.got) /\ Reads(r, Len(r.plan)) /\ Looks(r, Len(r.plan), r.at - 1 - Len(r.plan))
                     /\ r.at > Len(r.plan) + Len(r.photos)
  BY DEF Complete, Sound, Delivers
<1>8. Fallback(t) => Reads(r, Len(r.got))
  BY DEF Fallback, Sound, Delivers
<1>9. Complete(t) \/ Fallback(t)
  OBVIOUS
<1> HIDE DEF q, r, fallback
<1>10. Len(r.plan) \in Nat /\ Len(r.photos) \in Nat /\ Len(r.got) \in Nat
  BY <1>1 DEF Parts, Tray
<1>11. /\ more \in Seq(Part) /\ Len(more) = Len(r.got) + 1
       /\ \A i \in 1..Len(r.got) : more[i] = r.got[i]
       /\ more[Len(r.got) + 1] = fallback
  BY <1>1, <1>6, GotMore
<1> HIDE DEF more
<1>12. Complete(t) /\ q.got = r.got => Gets(q)
  <2> SUFFICES ASSUME Complete(t), q.got = r.got
               PROVE  Gets(q)
    OBVIOUS
  <2> DEFINE n == Len(r.plan)
             k == Len(r.photos)
  <2>1. r.at - 1 - n = k /\ n <= Len(r.got)
    <3>1. \A a, i, j \in Nat : a \in 1..(i + j + 1) /\ a > i + j => a - 1 - i = j
      OBVIOUS
    <3>2. r.at \in Nat
      BY <1>1, <1>10
    <3> QED BY <1>1, <1>7, <1>10, <3>1, <3>2
  <2>2. Looks(r, n, k) /\ Reads(r, n)
    BY <1>7, <2>1
  <2> HIDE DEF n, k
  <2>3. Reads(q, n)
    BY <1>4, <2>2 DEF Reads
  <2>4. Looks(q, n, k)
    BY <1>4, <2>2 DEF Looks
  <2>5. n \in 0..Len(q.got) /\ n = Len(q.plan) /\ k = Len(q.photos)
    BY <1>4, <1>10, <2>1 DEF n, k
  <2> QED BY <2>3, <2>4, <2>5 DEF Gets
<1>13. Fallback(t) /\ q.got = r.got => Gets(q)
  <2> SUFFICES ASSUME Fallback(t), q.got = r.got
               PROVE  Gets(q)
    OBVIOUS
  <2>1. Reads(q, Len(q.got))
    BY <1>4, <1>8 DEF Reads
  <2>2. Len(q.got) \in 0..Len(q.got)
    BY <1>10
  <2> QED BY <2>1, <2>2 DEF Gets
<1>14. Fallback(t) /\ q.got = more => Gets(q)
  <2> SUFFICES ASSUME Fallback(t), q.got = more
               PROVE  Gets(q)
    OBVIOUS
  <2> DEFINE n == Len(r.got)
  <2>1. n \in 0..Len(q.got) /\ n = Len(q.got) - 1 /\ Len(q.got) = n + 1
    BY <1>10, <1>11
  <2>2. q.got[Len(q.got)] = [part |-> "fallback", of |-> {}]
    BY <1>11, <2>1 DEF fallback
  <2>3. Reads(q, n)
    BY <1>4, <1>8, <1>11 DEF Reads
  <2> HIDE DEF n
  <2> QED BY <2>1, <2>2, <2>3 DEF Gets
<1>15. Gets(q)
  BY <1>5, <1>9, <1>12, <1>13, <1>14
<1>16. Delivers(q)
  <2>1. q.got \in Seq(Part) /\ Parts(q.plan) /\ Tray(q.photos)
    BY <1>1, <1>4, <1>5, <1>11
  <2>2. q.at \in 1..(Len(q.plan) + Len(q.photos) + 1)
    BY <1>1, <1>4
  <2> QED BY <1>5, <1>15, <2>1, <2>2 DEF Delivers
<1>17. Sound(q)
  BY <1>1, <1>4, <1>5, <1>16, DeliveryFrame
<1> QED BY <1>17 DEF q

\* processBatch returns; what it showed is remembered, or not.
LEMMA ReturnSound ==
  ASSUME Shape, NEW t \in Turns, Sound(turn[t]), Return(t) \/ Remember(t)
  PROVE  Sound(turn'[t])
<1> DEFINE r == turn[t]
           q == turn'[t]
<1>1. CASE Return(t)
  <2> DEFINE none == <<>>
             pc == IF r.pc = "missed" THEN "unreached" ELSE IF r.got # <<>> THEN "answered" ELSE "unanswered"
  <2>1. q = [Idle EXCEPT !.ids = r.ids, !.pc = pc]
    BY <1>1 DEF Return, Shape
  <2>2. pc \in {"unreached", "answered", "unanswered"}
    OBVIOUS
  <2> HIDE DEF pc
  <2>3. q = [Idle EXCEPT !.pc = pc, !.plan = none, !.photos = none, !.ids = r.ids]
    <3> DEFINE ids == r.ids
    <3>1. q = [Idle EXCEPT !.ids = ids, !.pc = pc]
      BY <2>1
    <3>2. none = Idle.plan /\ none = Idle.photos
      BY DEF Idle
    <3> HIDE DEF ids, none, q
    <3>3. [Idle EXCEPT !.ids = ids, !.pc = pc] = [Idle EXCEPT !.pc = pc, !.plan = none, !.photos = none, !.ids = ids]
      BY <3>2 DEF Idle
    <3> QED BY <3>1, <3>3 DEF ids
  <2>4. r.ids \in SUBSET Products /\ Cardinality(r.ids) <= MaxShown
    BY DEF Shape, Fielded, Sound, Generates
  <2>5. Parts(none) /\ Tray(none)
    BY EmptyFacts
  <2> HIDE DEF r, q
  <2>6. Sound([Idle EXCEPT !.pc = pc, !.plan = none, !.photos = none, !.ids = r.ids])
    <3>1. none = <<>>
      OBVIOUS
    <3> HIDE DEF none
    <3> QED BY <2>2, <2>4, <2>5, <3>1, DeliverySound
  <2>7. Sound(q)
    BY <2>3, <2>6
  <2> QED BY <2>7 DEF q
<1>2. CASE Remember(t)
  <2>1. /\ q.pc = r.pc /\ q.ids = {} /\ SameMessage(r, q) /\ SameRead(r, q) /\ SamePlan(r, q)
        /\ q.tries = r.tries /\ q.calls = r.calls /\ q.cards = r.cards /\ q.matched = r.matched /\ q.sink = r.sink
        /\ q.query = r.query
    BY <1>2 DEF Remember, Shape, Fielded, Idle, SameMessage, SameRead, SamePlan
  <2>2. Sound(r)
    OBVIOUS
  <2> HIDE DEF q, r
  <2>3. q.pc \in Phases
    BY <2>1, <2>2 DEF Sound
  <2>4. Generates(q)
    BY <2>1, <2>2, EmptyFacts, BoundsAre DEF Sound, Generates
  <2>5. Heeds(q) /\ Retrieves(q) /\ Delivers(q)
    BY <2>1, <2>2, <2>3, Frame
  <2> QED BY <2>3, <2>4, <2>5 DEF Sound, q
<1> QED BY <1>1, <1>2

-----------------------------------------------------------------------------
(* The panel's tables keep their types. *)

\* A row, or part of one, is written over what is there.
LEMMA WrittenEntry ==
  ASSUME NEW old \in Entry, NEW to \in Entry, NEW sets
  PROVE  [f \in Fields |-> IF f \in sets THEN to[f] ELSE old[f]] \in Entry
<1> DEFINE w == [f \in Fields |-> IF f \in sets THEN to[f] ELSE old[f]]
<1>1. /\ to["product"] \in Products \cup {None} /\ to["published"] \in BOOLEAN
      /\ old["product"] \in Products \cup {None} /\ old["published"] \in BOOLEAN
  BY DEF Entry
<1>2. w = [product |-> w["product"], published |-> w["published"]]
  BY DEF Fields
<1>3. w["product"] \in Products \cup {None} /\ w["published"] \in BOOLEAN
  BY <1>1 DEF Fields
<1> HIDE DEF w
<1>4. w \in Entry
  BY <1>2, <1>3 DEF Entry
<1> QED BY <1>4 DEF w

\* Each request of the panel about knowledge and products.
LEMMA KnowledgeTyped ==
  ASSUME TypeOKKnowledge, EditEntries \/ EditProducts \/ Write
  PROVE  TypeOKKnowledge'
<1> USE DEF TypeOKKnowledge
<1>1. ASSUME NEW e \in Entries, NEW to \in Entry, NEW sets \in SUBSET Fields, AskWrite(e, to, sets)
      PROVE  TypeOKKnowledge'
  <2>1. [entry |-> e, to |-> to, sets |-> sets, new |-> e \notin Kept] \in Request
    BY DEF Request
  <2> QED BY <1>1, <2>1 DEF AskWrite
<1>2. ASSUME NEW e \in Entries, e \in Kept PROVE entry[e] \in Entry
  BY <1>2 DEF Kept
<1>3. ASSUME NEW e \in Entries, AskToggle(e)
      PROVE  TypeOKKnowledge'
  <2>1. e \in Kept /\ entry[e] \in Entry
    BY <1>2, <1>3 DEF AskToggle
  <2>2. [entry[e] EXCEPT !.published = ~@] \in Entry
    BY <2>1 DEF Entry
  <2>3. AskWrite(e, [entry[e] EXCEPT !.published = ~@], {"published"})
    BY <1>3 DEF AskToggle
  <2>4. {"published"} \in SUBSET Fields
    BY DEF Fields
  <2> QED BY <1>1, <2>2, <2>3, <2>4
<1>4. ASSUME NEW e \in Entries, Delete(e)
      PROVE  TypeOKKnowledge'
  BY <1>4 DEF Delete
<1>5. ASSUME NEW e \in Entries, NEW b \in BOOLEAN, SetPublished(e, b)
      PROVE  TypeOKKnowledge'
  <2>1. entry[e] \in Entry
    BY <1>2, <1>5 DEF SetPublished
  <2>2. [entry[e] EXCEPT !.published = b] \in Entry
    BY <2>1 DEF Entry
  <2>3. entry' = [entry EXCEPT ![e] = [entry[e] EXCEPT !.published = b]] /\ UNCHANGED <<shelf, request>>
    BY <1>5 DEF SetPublished
  <2> QED BY <2>2, <2>3
<1>6. ASSUME NEW p \in Products, DeleteProduct(p) \/ \E to \in {"published", "draft"} : SetShelf(p, to)
      PROVE  TypeOKKnowledge'
  <2>1. CASE DeleteProduct(p)
    BY <2>1 DEF DeleteProduct
  <2>2. CASE \E to \in {"published", "draft"} : SetShelf(p, to)
    BY <2>2 DEF SetShelf
  <2> QED BY <1>6, <2>1, <2>2
<1>7. CASE Write
  <2> DEFINE e == request.entry
  <2>1. request \in Request
    BY <1>7 DEF Write
  <2>2. e \in Entries /\ request.to \in Entry
    BY <2>1 DEF Request
  <2> DEFINE row == [f \in Fields |-> IF f \in request.sets THEN request.to[f] ELSE entry[e][f]]
  <2>3. \/ entry' = entry
        \/ entry' = [entry EXCEPT ![e] = request.to]
        \/ e \in Kept /\ entry' = [entry EXCEPT ![e] = row]
    BY <1>7, <2>2 DEF Write
  <2>4. e \in Kept => row \in Entry
    BY <1>2, <2>2, WrittenEntry
  <2>5. request' = NoRequest /\ UNCHANGED shelf
    BY <1>7 DEF Write
  <2> HIDE DEF row, e
  <2>6. entry' \in [Entries -> Entry \cup {None}]
    BY <2>2, <2>3, <2>4
  <2> QED BY <2>5, <2>6
<1> QED BY <1>1, <1>3, <1>4, <1>5, <1>6, <1>7 DEF EditEntries, EditProducts

\* The types of the rows and of the switches.
TypeRows ==
    /\ persona \in [Personas -> {"gone", "active", "idle"}] /\ blank \subseteq Personas
    /\ spc \in [Switches -> {"new", "deactivated", "switched", "missing", "failed"}]
    /\ target \in [Switches -> Personas \cup {Default}]

\* The block of the prompt is a persona's or the default.
LEMMA BlockTyped == Block \in Personas \cup {Default}
<1>1. Active \subseteq Personas
  BY DEF Active
<1>2. ~(Active \subseteq blank) => \E p \in Active \ blank : TRUE
  OBVIOUS
<1> QED BY <1>1, <1>2 DEF Block

\* Each request about personas.
LEMMA PersonaTyped ==
  ASSUME TypeOKPersona, EditPersona \/ Expire \/ \E s \in Switches : Switch(s)
  PROVE  TypeOKPersona'
<1>0. Block' \in Personas \cup {Default}
  <2>1. Active' \subseteq Personas
    BY DEF Active
  <2>2. ~(Active' \subseteq blank') => \E p \in Active' \ blank' : TRUE
    OBVIOUS
  <2> QED BY <2>1, <2>2 DEF Block
<1>1. TypeRows'
  <2> USE DEF TypeOKPersona, TypeRows
  <2>1. CASE EditPersona
    BY <2>1 DEF EditPersona, Create, Erase, Update
  <2>2. CASE Expire
    BY <2>2 DEF Expire, switchVars
  <2>3. ASSUME NEW s \in Switches, Switch(s)
        PROVE  TypeRows'
    BY <2>3 DEF Switch, Deactivate, Activate, Abort
  <2> QED BY <2>1, <2>2, <2>3
<1>2. CASE Expire
  <2>1. Block \in Personas \cup {Default}
    BY BlockTyped
  <2> QED BY <1>1, <1>2, <2>1 DEF Expire, TypeOKPersona, TypeRows
<1>3. CASE EditPersona \/ \E s \in Switches : Switch(s)
  <2>1. Rows
    BY <1>3 DEF EditPersona, Create, Erase, Update, Switch, Deactivate, Activate, Abort
  <2> QED BY <1>0, <1>1, <2>1 DEF Rows, TypeOKPersona, TypeRows
<1> QED BY <1>2, <1>3

\* The prompt of a generation is put together.
LEMMA PromptTyped ==
  ASSUME TypeOKPersona, NEW t \in Turns,
         AskActive(t) \/ ReadActive(t) \/ Cached(t) \/ ReadFails(t) \/ Fill(t)
  PROVE  TypeOKPersona'
<1>1. Block \in Personas \cup {Default}
  BY BlockTyped
<1> QED BY <1>1 DEF TypeOKPersona, AskActive, ReadActive, Cached, ReadFails, Fill, personaVars, switchVars

-----------------------------------------------------------------------------
(* The invariant of the turns. *)

AInv ==
    /\ Shape /\ Known /\ \A t \in Turns : Sound(turn[t])
    /\ TypeOKKnowledge /\ TypeOKPersona

\* No turn has begun, and the tables have their first rows.
LEMMA InitAInv ==
  ASSUME Init
  PROVE  AInv
<1>1. Shape
  BY LastIsProducts DEF Init, Shape, Fielded, Idle, Setting
<1>2. Known
  BY LastIsProducts DEF Init, Known, Setting
<1>3. ASSUME NEW t \in Turns PROVE Sound(turn[t])
  <2>1. Idle = [Idle EXCEPT !.pc = "new"]
    <3>1. Idle.pc = "new"
      BY DEF Idle
    <3>2. Idle = [x \in DOMAIN Idle |-> Idle[x]]
      BY DEF Idle
    <3>3. \A x \in DOMAIN Idle : [Idle EXCEPT !.pc = "new"][x] = Idle[x]
      BY <3>1
    <3>4. [Idle EXCEPT !.pc = "new"] = [x \in DOMAIN Idle |-> [Idle EXCEPT !.pc = "new"][x]]
      OBVIOUS
    <3> QED BY <3>2, <3>3, <3>4
  <2>3. turn[t] = Idle
    BY DEF Init
  <2>2. Sound([Idle EXCEPT !.pc = "new"])
    BY IdleSound
  <2> QED BY <2>1, <2>2, <2>3
<1>4. TypeOKKnowledge
  BY StoreIsFinite DEF Init, InitKnowledge, TypeOKKnowledge
<1>5. TypeOKPersona
  BY BlockTyped DEF Init, InitPersona, TypeOKPersona
<1> QED BY <1>1, <1>2, <1>3, <1>4, <1>5 DEF AInv

\* Each step of a turn keeps it sound.
LEMMA TurnSound ==
  ASSUME Shape, Known, NEW t \in Turns, Sound(turn[t]), Begin(t) \/ Proceed(t)
  PROVE  Sound(turn'[t])
<1>1. CASE Begin(t)
  <2>1. PICK posts \in Posts[scenario] : Arrive(t, posts)
    BY <1>1 DEF Begin
  <2> QED BY <2>1, ArriveSound
<1>2. CASE Proceed(t)
  <2>1. Generate(t) \/ Talk(t)
    BY <1>2 DEF Proceed
  <2> QED BY <2>1, HearSound, SeeSound, PrefetchSound, ReadSpecificSound, ReadGlobalSound, RecapSound, GenerateSound,
             RespondSound, SendSound, SendPhotoSound, EndSound, ReturnSound DEF Talk
<1> QED BY <1>1, <1>2

\* What lands in lastProductIds is not too much.
LEMMA LastCapped ==
  ASSUME Known, NEW t \in Turns, Sound(turn[t]), Begin(t) \/ Proceed(t)
  PROVE  Known'
<1>1. UNCHANGED scenario
  BY DEF Begin, Proceed
<1>2. CASE Remember(t)
  <2>1. Cardinality(turn[t].ids) <= MaxShown
    BY DEF Sound, Generates
  <2>2. last' = last \/ last' = turn[t].ids
    BY <1>2 DEF Remember
  <2> QED BY <1>1, <2>1, <2>2 DEF Known
<1>3. CASE ~Remember(t)
  <2>1. UNCHANGED last
    BY <1>3 DEF Begin, Arrive, Proceed, Talk, Hear, Gate, Throw, Triage, Degrade, See, SkipPrefetch,
       Prefetch, RetrievalFails, ReadSpecific, ReadGlobal, Recap, RecapMisses, RecapEnds, Generate,
       Search, LookUp, ShowMedia, Respond, RespondEmpty, GenerateThrows, Send, SendPhoto, Complete,
       Fallback, Return
  <2> QED BY <1>1, <2>1 DEF Known
<1> QED BY <1>2, <1>3

\* Each step of the specification, at turns and tables.
LEMMA StepAInv ==
  ASSUME AInv, [Next]_vars
  PROVE  AInv'
<1> USE DEF AInv
<1>1. Shape'
  BY StepShape
<1>2. CASE UNCHANGED vars
  BY <1>2 DEF vars, answerVars, knowledgeVars, personaVars, switchVars, Shape, Known, TypeOKKnowledge, TypeOKPersona, Kept
<1>3. ASSUME NEW t \in Turns, Begin(t) \/ Proceed(t)
      PROVE  AInv'
  <2>1. Sound(turn'[t]) /\ Known'
    BY <1>3, TurnSound, LastCapped
  <2>2. \A u \in Turns \ {t} : turn'[u] = turn[u]
    BY <1>3, TurnStep DEF Only, Shape
  <2>3. \A u \in Turns : Sound(turn'[u])
    BY <2>1, <2>2
  <2>4. UNCHANGED knowledgeVars
    BY <1>3 DEF Begin, Proceed
  <2>5. TypeOKKnowledge'
    BY <2>4 DEF knowledgeVars, TypeOKKnowledge
  <2>6. UNCHANGED personaVars \/ AskActive(t) \/ ReadActive(t) \/ Cached(t) \/ ReadFails(t) \/ Fill(t)
    BY <1>3 DEF Begin, Proceed, Generate
  <2>7. TypeOKPersona'
    <3>1. CASE UNCHANGED personaVars
      BY <3>1 DEF personaVars, switchVars, TypeOKPersona
    <3> QED BY <2>6, <3>1, PromptTyped
  <2> QED BY <1>1, <2>1, <2>3, <2>5, <2>7
<1>4. CASE Panel
  <2>1. UNCHANGED <<turn, last, scenario>> /\ UNCHANGED personaVars
    BY <1>4 DEF Panel, answerVars
  <2>2. EditEntries \/ EditProducts \/ Write
    BY <1>4 DEF Panel
  <2>3. TypeOKKnowledge'
    BY <2>2, KnowledgeTyped
  <2>4. TypeOKPersona'
    BY <2>1 DEF personaVars, switchVars, TypeOKPersona
  <2> QED BY <1>1, <2>1, <2>3, <2>4 DEF Known
<1>5. CASE Personnel
  <2>1. UNCHANGED <<turn, last, scenario>> /\ UNCHANGED knowledgeVars
    BY <1>5 DEF Personnel, answerVars
  <2>2. EditPersona \/ Expire \/ \E s \in Switches : Switch(s)
    <3>1. Setting.switches \subseteq Switches
      BY SwitchesAreNamed DEF Known, Setting
    <3> QED BY <1>5, <3>1 DEF Personnel
  <2>3. TypeOKPersona'
    BY <2>2, PersonaTyped
  <2>4. TypeOKKnowledge'
    BY <2>1 DEF knowledgeVars, TypeOKKnowledge
  <2> QED BY <1>1, <2>1, <2>3, <2>4 DEF Known
<1> QED BY <1>2, <1>3, <1>4, <1>5 DEF Next

\* The invariant of the turns, for any messages, files, replies, tools, products, entries,
\* personas, bounds and requests of the panel.
THEOREM TurnInvariance == Spec => []AInv
<1>1. Init => AInv
  BY InitAInv
<1>2. AInv /\ [Next]_vars => AInv'
  BY StepAInv
<1> QED BY <1>1, <1>2, PTL DEF Spec

\* Every variable of a turn stays in its type and its bounds: two generations, the tool calls
\* that are admitted, the entries that a note or a tool has room for, MAX_IMAGES photos, MAX
\* products remembered.
THEOREM TypeCorrectness == Spec => []TypeOK
<1>1. AInv => TypeOK
  <2> SUFFICES ASSUME AInv, NEW t \in Turns
               PROVE  TypeOKTurn(turn[t])
    BY DEF AInv, Shape, Known, TypeOK
  <2> DEFINE r == turn[t]
  <2>1. Sound(r) /\ Fielded(r)
    BY DEF AInv, Shape
  <2> HIDE DEF r
  <2>2. r.pc \in Phases /\ Heeds(r) /\ Retrieves(r) /\ Generates(r) /\ Delivers(r)
    BY <2>1 DEF Sound
  <2>3. (\A i \in DOMAIN r.plan : r.plan[i] \in Part) /\ (\A i \in DOMAIN r.got : r.got[i] \in Part)
    <3>1. r.plan \in Seq(Part) /\ r.got \in Seq(Part)
      BY <2>2 DEF Delivers, Parts
    <3> DEFINE P == Part
    <3>2. r.plan \in Seq(P) /\ r.got \in Seq(P)
      BY <3>1
    <3> HIDE DEF P
    <3>3. (\A i \in DOMAIN r.plan : r.plan[i] \in P) /\ (\A i \in DOMAIN r.got : r.got[i] \in P)
      BY <3>2
    <3> QED BY <3>3 DEF P
  <2>4. r.at \in 1..Len(r.plan) + Len(r.photos) + 1 /\ Len(r.photos) <= MaxImages
    BY <2>2 DEF Delivers, Tray
  <2>5. /\ r.msg \in Messages /\ r.says \in Spoken \cup {Missing}
        /\ r.put \subseteq {"typed", "transcript", "unheard", "attributes", "confirm"}
    BY <2>2 DEF Heeds
  <2>6. /\ r.query.products \subseteq Products /\ r.query.room \in 0..MaxEntries
        /\ r.found \subseteq Entries /\ Cardinality(r.found) <= MaxEntries /\ r.recap \subseteq Products
    BY <2>2 DEF Retrieves
  <2>7. r.tries \in 0..2 /\ r.calls \in 0..MaxCalls /\ r.matched \subseteq r.cards /\ r.cards \subseteq Products
    BY <2>2 DEF Generates
  <2>8. r.state \subseteq Products /\ r.ids \subseteq Products /\ r.media \subseteq Products
    BY <2>1 DEF Fielded
  <2>9. TypeOKTurn(r)
    BY <2>2, <2>3, <2>4, <2>5, <2>6, <2>7, <2>8 DEF TypeOKTurn, Phases
  <2> QED BY <2>9 DEF r
<1> QED BY <1>1, TurnInvariance, PTL

\* At each stage of a delivery she has got parts of the plan in its order, and then photos in
\* theirs, but for the fallback.
LEMMA SoundGets ==
  ASSUME NEW r, Sound(r)
  PROVE  Gets(r)
<1>1. Delivers(r) /\ r.got \in Seq(Part)
  BY DEF Sound, Delivers
<1>2. Len(r.got) \in 0..Len(r.got) /\ Len(r.got) \in Nat /\ Len(r.plan) \in Nat /\ Len(r.photos) \in Nat
  BY <1>1 DEF Delivers, Parts, Tray
<1>3. Reads(r, Len(r.got)) => Gets(r)
  BY <1>2 DEF Gets
<1>4. CASE r.pc \in {"done", "missed"}
  BY <1>1, <1>4 DEF Delivers
<1>5. CASE r.pc = "failed"
  BY <1>1, <1>3, <1>5 DEF Delivers
<1>6. CASE r.pc = "send"
  BY <1>1, <1>3, <1>6 DEF Delivers
<1>7. CASE r.pc = "photos"
  <2> DEFINE n == Len(r.plan)
             m == r.at - 1 - n
             N == Len(r.got)
  <2>1. /\ r.at > n /\ n <= N /\ Reads(r, n) /\ Looks(r, n, m)
        /\ r.at \in 1..(n + Len(r.photos) + 1)
    BY <1>1, <1>7 DEF Delivers
  <2>2. m \in Nat /\ m <= Len(r.photos)
    <3>1. \A a, i, j \in Nat : a > i /\ a \in 1..(i + j + 1) => a - 1 - i \in Nat /\ a - 1 - i <= j
      OBVIOUS
    <3>2. r.at \in Nat
      BY <1>2, <2>1
    <3> QED BY <1>2, <2>1, <3>1, <3>2
  <2> HIDE DEF n, m, N
  <2>3. PICK place \in [(n+1)..N -> 1..m] :
          /\ \A i \in (n+1)..N : r.got[i] = [part |-> "photo", of |-> r.photos[place[i]]]
          /\ \A i, j \in (n+1)..N : i < j => place[i] < place[j]
    BY <2>1 DEF Looks, N
  <2>4. 1..m \subseteq 1..Len(r.photos)
    BY <1>2, <2>2
  <2>5. place \in [(n+1)..N -> 1..Len(r.photos)]
    BY <2>3, <2>4
  <2>6. Looks(r, n, Len(r.photos))
    BY <2>3, <2>5 DEF Looks, N
  <2>7. n \in 0..Len(r.got)
    BY <1>2, <2>1 DEF n, N
  <2> QED BY <2>1, <2>6, <2>7 DEF Gets, n
<1>8. CASE r.pc \notin {"send", "photos", "failed", "done", "missed"}
  <2>1. r.got = <<>>
    BY <1>1, <1>8 DEF Delivers
  <2>2. Reads(r, Len(r.got))
    BY <1>2, <2>1, EmptyFacts DEF Reads
  <2> QED BY <1>3, <2>2
<1> QED BY <1>4, <1>5, <1>6, <1>7, <1>8

\* Whatever calls fail and whichever answers are lost, she gets the parts of the reply in
\* their order and none after one whose call failed but the fallback, once and last; photos
\* come after the whole reply, in their order, each at most once.
THEOREM DeliveryInOrder == Spec => []InOrder
<1>1. AInv => InOrder
  <2> SUFFICES ASSUME AInv, NEW t \in Turns
               PROVE  LET r == turn[t]
                          all == Len(r.got)
                      IN /\ IsInjective(r.photos)
                         /\ \A i \in DOMAIN r.plan : r.plan[i].part \notin {"photo", "fallback"}
                         /\ \E n \in 0..all :
                              /\ n <= Len(r.plan) /\ \A i \in 1..n : r.got[i] = r.plan[i]
                              /\ \/ n = all
                                 \/ n = all - 1 /\ r.got[all] = [part |-> "fallback", of |-> {}]
                                 \/ /\ n = Len(r.plan)
                                    /\ \E place \in [(n+1)..all -> DOMAIN r.photos] :
                                         /\ \A i \in (n+1)..all : r.got[i] = [part |-> "photo", of |-> r.photos[place[i]]]
                                         /\ \A i, j \in (n+1)..all : i < j => place[i] < place[j]
    BY DEF InOrder
  <2> DEFINE r == turn[t]
  <2>1. Sound(r)
    BY DEF AInv
  <2> HIDE DEF r
  <2>2. Tray(r.photos) /\ Parts(r.plan)
    BY <2>1 DEF Sound, Delivers
  <2>3. IsInjective(r.photos) /\ DOMAIN r.photos = 1..Len(r.photos)
        /\ \A i \in DOMAIN r.plan : r.plan[i].part \notin {"photo", "fallback"}
    BY <2>2 DEF Tray, Parts
  <2>4. PICK n \in 0..Len(r.got) :
          /\ Reads(r, n)
          /\ \/ n = Len(r.got)
             \/ n = Len(r.got) - 1 /\ r.got[Len(r.got)] = [part |-> "fallback", of |-> {}]
             \/ n = Len(r.plan) /\ Looks(r, n, Len(r.photos))
    BY <2>1, SoundGets DEF Gets
  <2>5. Looks(r, n, Len(r.photos)) <=>
          \E place \in [(n+1)..Len(r.got) -> DOMAIN r.photos] :
             /\ \A i \in (n+1)..Len(r.got) : r.got[i] = [part |-> "photo", of |-> r.photos[place[i]]]
             /\ \A i, j \in (n+1)..Len(r.got) : i < j => place[i] < place[j]
    BY <2>3 DEF Looks
  <2>6. n <= Len(r.plan) /\ \A i \in 1..n : r.got[i] = r.plan[i]
    BY <2>4 DEF Reads
  <2> QED BY <2>3, <2>4, <2>5, <2>6 DEF r
<1> QED BY <1>1, TurnInvariance, PTL

\* What NothingGuessed asks of a step of t.
Unguessed(t) ==
    LET r == turn[t]
        clear == r.msg.voice # Missing /\ Clear(r.msg.voice, r.says)
    IN r.pc = "on" =>
         CASE turn'[t].pc = "context" ->
                  /\ "transcript" \in turn'[t].put <=> clear
                  /\ r.msg.photo # Missing \/ turn'[t].put \cap {"typed", "transcript"} # {}
           [] turn'[t].pc \in {"send", "failed"} -> ~clear /\ r.msg.photo = Missing
           [] OTHER -> TRUE

\* A turn that goes on says what was clear, and one that asks back had nothing clear.
LEMMA OnStep ==
  ASSUME Shape, NEW t \in Turns, Sound(turn[t]), turn[t].pc = "on", Triage(t) \/ Degrade(t) \/ See(t) \/ Remember(t)
  PROVE  Unguessed(t)
<1> DEFINE r == turn[t]
           q == turn'[t]
           clear == r.msg.voice # Missing /\ Clear(r.msg.voice, r.says)
<1>1. /\ r.msg \in Messages
      /\ r.msg.typed # "none" \/ r.msg.photo # Missing \/ r.msg.voice # Missing
      /\ r.msg.voice # Missing => r.says \in Spoken
  BY DEF Sound, Heeds
<1>2. r.msg.voice # Missing => (Heard(t).ok <=> clear) /\ (Heard(t).ok => Heard(t).words)
  <2> SUFFICES ASSUME r.msg.voice # Missing
               PROVE  (Heard(t).ok <=> clear) /\ (Heard(t).ok => Heard(t).words)
    OBVIOUS
  <2>1. r.msg.voice \in Files /\ r.says \in Spoken
    BY <1>1 DEF Messages
  <2>2. Heard(t) = Transcription(TRUE, r.msg.voice, r.says)
    BY DEF Heard
  <2> HIDE DEF r
  <2> QED BY <2>1, <2>2, UsableIsClear
<1>3. DOMAIN turn = Turns /\ DOMAIN r = DOMAIN Idle
  BY DEF Shape, Fielded
<1>4. CASE Triage(t)
  <2>1. r.msg.photo = Missing /\ r.msg.voice = Missing
    BY <1>4 DEF Triage, Social
  <2>2. q.pc = "send"
    BY <1>3, <1>4 DEF Triage, Deliver, Idle
  <2> QED BY <2>1, <2>2 DEF Unguessed
<1>5. CASE Degrade(t)
  <2>1. r.msg.photo = Missing /\ r.msg.voice # Missing /\ ~Heard(t).ok
    BY <1>5 DEF Degrade, Unheard, VoiceAlone
  <2>2. ~clear
    BY <1>2, <2>1
  <2>3. q.pc \in {"send", "failed"}
    <3>1. Deliver(t, AnswerLine, <<>>, {}) => q.pc = "send"
      BY <1>3 DEF Deliver, Idle
    <3>2. turn' = [turn EXCEPT ![t] = [Idle EXCEPT !.pc = "failed"]] => q.pc = "failed"
      BY <1>3 DEF Idle
    <3> QED BY <1>5, <3>1, <3>2 DEF Degrade
  <2> QED BY <2>1, <2>2, <2>3 DEF Unguessed
<1>6. CASE See(t)
  <2>1. PICK notes \in SeenNotes(r.msg) :
          turn' = [turn EXCEPT ![t].pc = "context", ![t].msg.voice = Missing, ![t].says = Missing,
                               ![t].put = Compose(t) \cup VoiceNote(t) \cup notes]
    BY <1>6 DEF See
  <2> DEFINE put == Compose(t) \cup VoiceNote(t) \cup notes
  <2>2. turn' = [turn EXCEPT ![t].pc = "context", ![t].msg.voice = Missing, ![t].says = Missing, ![t].put = put]
    BY <2>1
  <2>3. "transcript" \notin VoiceNote(t) \cup notes
    BY DEF VoiceNote, SeenNotes, VisionNote
  <2>4. "transcript" \in put <=> r.msg.voice # Missing /\ Heard(t).ok /\ Heard(t).words
    BY <2>3 DEF Compose
  <2>5. r.msg.typed # "none" => "typed" \in put
    BY DEF Compose
  <2> HIDE DEF put
  <2>6. q.pc = "context" /\ q.put = put
    BY <1>3, <2>2 DEF Idle
  <2>7. "transcript" \in q.put <=> clear
    BY <1>2, <2>4, <2>6
  <2>8. r.msg.photo # Missing \/ q.put \cap {"typed", "transcript"} # {}
    <3> SUFFICES ASSUME r.msg.photo = Missing, r.msg.typed = "none"
                 PROVE  "transcript" \in q.put
      BY <2>5, <2>6
    <3>1. r.msg.voice # Missing /\ Heard(t).ok
      BY <1>1, <1>6 DEF See, Unheard, VoiceAlone
    <3> QED BY <1>2, <2>4, <2>6, <3>1
  <2> QED BY <2>6, <2>7, <2>8 DEF Unguessed
<1>7. CASE Remember(t)
  <2>1. q.pc = "on"
    BY <1>3, <1>7 DEF Remember, Idle
  <2> QED BY <2>1 DEF Unguessed
<1> QED BY <1>4, <1>5, <1>6, <1>7

\* Whatever is posted, downloaded and transcribed, the agent is given a voice note's words
\* exactly when they were clear, and a turn with nothing else is asked back instead.
THEOREM NothingIsGuessed == Spec => NothingGuessed
<1>1. AInv /\ [Next]_vars =>
        [\A t \in Turns :
           LET r == turn[t]
               clear == r.msg.voice # Missing /\ Clear(r.msg.voice, r.says)
           IN r.pc = "on" =>
                CASE turn'[t].pc = "context" ->
                         /\ "transcript" \in turn'[t].put <=> clear
                         /\ r.msg.photo # Missing \/ turn'[t].put \cap {"typed", "transcript"} # {}
                  [] turn'[t].pc \in {"send", "failed"} -> ~clear /\ r.msg.photo = Missing
                  [] OTHER -> TRUE]_turn
  <2> SUFFICES ASSUME AInv, [Next]_vars, NEW t \in Turns
               PROVE  Unguessed(t)
    BY DEF Unguessed
  <2>1. turn'[t] = turn[t] => Unguessed(t)
    BY DEF Unguessed
  <2>2. ASSUME turn'[t] # turn[t], turn[t].pc = "on"
        PROVE  Triage(t) \/ Degrade(t) \/ See(t) \/ Remember(t)
    <3>1. PICK u \in Turns : Begin(u) \/ Proceed(u)
      BY <2>2 DEF Next, Panel, Personnel, vars, answerVars
    <3>2. u = t
      BY <2>2, <3>1, TurnStep DEF AInv, Only, Shape
    <3>3. ~Begin(t)
      BY <2>2 DEF Begin, Arrive
    <3>4. Generate(t) \/ Talk(t)
      BY <3>1, <3>2, <3>3 DEF Proceed
    <3>5. /\ ~Hear(t) /\ ~Gate(t) /\ ~Throw(t) /\ ~SkipPrefetch(t) /\ ~Prefetch(t) /\ ~RetrievalFails(t)
          /\ ~ReadSpecific(t) /\ ~ReadGlobal(t) /\ ~Recap(t) /\ ~RecapMisses(t) /\ ~RecapEnds(t) /\ ~Generate(t)
      BY <2>2 DEF Hear, Gate, Throw, SkipPrefetch, Prefetch, RetrievalFails, ReadSpecific, ReadGlobal,
         Recap, RecapMisses, RecapEnds, Generate
    <3>6. /\ ~Search(t) /\ ~LookUp(t) /\ ~(\E p \in Products : ShowMedia(t, p))
          /\ ~Respond(t) /\ ~RespondEmpty(t) /\ ~GenerateThrows(t)
      BY <2>2 DEF Search, LookUp, ShowMedia, CanCall, Respond, RespondEmpty, GenerateThrows
    <3>7. ~Send(t) /\ ~SendPhoto(t) /\ ~Complete(t) /\ ~Fallback(t) /\ ~Return(t)
      BY <2>2 DEF Send, SendPhoto, Complete, Fallback, Return
    <3> QED BY <3>4, <3>5, <3>6, <3>7 DEF Talk
  <2>3. turn[t].pc # "on" => Unguessed(t)
    BY DEF Unguessed
  <2> QED BY <2>1, <2>2, <2>3, OnStep DEF AInv
<1> QED BY <1>1, TurnInvariance, PTL DEF Spec, NothingGuessed
=============================================================================
