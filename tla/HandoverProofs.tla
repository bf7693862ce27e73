--------------------------- MODULE HandoverProofs ---------------------------
(***************************************************************************)
(* Proofs about Handover, for any number of turns and of admin requests,   *)
(* any horizon and any voice threshold.  Each property has an invariant of *)
(* its own on top of TypeOK, so that an action appears only where it       *)
(* matters.                                                                *)
(***************************************************************************)
EXTENDS Handover, FiniteSetTheorems, TLAPS

Phases == {"idle", "gate", "resumed", "open", "generating", "escalating", "recording", "ended"}
Reasons == {"none", "tool", "thrown", "empty", "voice"}
Lines == {"none", "silent", "answer", "resend", "handoff", "fallback"}

\* TypeOK by the writer: what the row holds, the turns' locals, and the rest.
RowOK == ai \in AiStates /\ until \in Times /\ summary \in Requests \cup {NoSummary} /\ fails \in 0..Threshold - 1
TurnsOK ==
    /\ tpc \in [Turns -> Phases] /\ seen \in [Turns -> Row] /\ again \in [Turns -> BOOLEAN]
    /\ why \in [Turns -> Reasons] /\ reply \in [Turns -> Lines]
RestOK ==
    /\ now \in 0..Horizon /\ resets \subseteq Turns /\ clears \subseteq Turns
    /\ alerted \subseteq Turns /\ told \subseteq Requests /\ act \in [Requests -> Acts \cup {"none"}]

LEMMA TypeParts ==
    /\ TypeOK <=> RowOK /\ TurnsOK /\ RestOK
    /\ TypeOK' <=> RowOK' /\ TurnsOK' /\ RestOK'
BY DEF TypeOK, RowOK, TurnsOK, RestOK, Phases, Reasons, Lines

LEMMA UnreadIsRow == Unread \in Row
BY HandoverAssumption DEF Unread, Row, AiStates, Times

LEMMA EndsType ==
  ASSUME TurnsOK, NEW t \in Turns, NEW line \in Lines, Ends(t, line)
  PROVE  TurnsOK'
BY UnreadIsRow DEF TurnsOK, Ends, Phases, Reasons

LEMMA GoesToType ==
  ASSUME TurnsOK, NEW t \in Turns, NEW phase \in Phases, GoesTo(t, phase)
  PROVE  TurnsOK'
BY DEF TurnsOK, GoesTo

\* What a turn adds to the pending clears and to what was told.
LEMMA SummaryType ==
  ASSUME TurnsOK, RestOK, NEW t \in Turns
  PROVE  ClearsAfter(t) \subseteq Turns /\ ToldBy(t) \subseteq Requests
BY DEF TurnsOK, RestOK, ClearsAfter, ToldBy, Row

LEMMA AfterEscalationType ==
  ASSUME TurnsOK, RestOK, NEW t \in Turns, NEW line \in Lines, AfterEscalation(t, line)
  PROVE  TurnsOK' /\ clears' \subseteq Turns
<1>1. CASE why[t] = "tool"
  BY <1>1, GoesToType DEF AfterEscalation, RestOK, Phases
<1>2. CASE why[t] # "tool"
  BY <1>2, EndsType, SummaryType DEF AfterEscalation, RestOK
<1> QED BY <1>1, <1>2

LEMMA InitType == Init => TypeOK
BY HandoverAssumption, UnreadIsRow DEF Init, TypeOK, AiStates, Times, Acts

LEMMA ApplyType ==
  ASSUME TypeOK, NEW r \in Requests, NEW a \in Acts, Apply(r, a)
  PROVE  TypeOK'
<1> USE TypeParts
<1>1. RowOK'
  BY HandoverAssumption DEF Apply, RowOK, RestOK, AiStates, Times, Acts
<1>2. TurnsOK'
  BY DEF Apply, turnVars, TurnsOK
<1>3. RestOK'
  BY DEF Apply, RestOK, pending, history
<1> QED BY <1>1, <1>2, <1>3

LEMMA ArriveType ==
  ASSUME TypeOK, NEW t \in Turns, Arrive(t)
  PROVE  TypeOK'
<1> USE TypeParts
<1>1. [ai |-> ai, until |-> until, summary |-> summary, fails |-> fails] \in Row
  BY HandoverAssumption DEF RowOK, Row
<1>2. RowOK' /\ RestOK'
  BY DEF Arrive, row, pending, history, RowOK, RestOK
<1>3. TurnsOK'
  BY <1>1 DEF Arrive, TurnsOK, Phases
<1> QED BY <1>2, <1>3

\* Each step of a turn, its row write, its locals and the rest.
LEMMA TurnType ==
  ASSUME TypeOK, NEW t \in Turns, Turn(t)
  PROVE  TypeOK'
<1> USE TypeParts DEF Phases, Lines
<1>1. CASE AutoResume(t)
  <2>1. TurnsOK'
    BY <1>1, GoesToType DEF AutoResume
  <2>2. RowOK' /\ RestOK'
    BY <1>1 DEF AutoResume, RowOK, RestOK, AiStates, Times, pending, history
  <2> QED BY <2>1, <2>2
<1>2. CASE RecordResume(t)
  <2>1. TurnsOK'
    BY <1>2, GoesToType DEF RecordResume
  <2>2. RowOK' /\ RestOK'
    BY <1>2 DEF RecordResume, RowOK, RestOK, row, pending, history
  <2> QED BY <2>1, <2>2
<1>3. CASE Gate(t)
  <2>1. TurnsOK'
    BY <1>3, GoesToType, EndsType DEF Gate
  <2>2. RowOK' /\ RestOK'
    BY <1>3 DEF Gate, RowOK, RestOK, row, pending, history
  <2> QED BY <2>1, <2>2
<1>4. CASE Fail(t)
  <2>1. TurnsOK'
    BY <1>4, EndsType DEF Fail
  <2>2. RowOK' /\ RestOK'
    BY <1>4 DEF Fail, RowOK, RestOK, row, pending, history
  <2> QED BY <2>1, <2>2
<1>5. CASE Triage(t)
  <2>1. TurnsOK'
    BY <1>5, EndsType DEF Triage
  <2>2. RowOK' /\ RestOK'
    BY <1>5 DEF Triage, RowOK, RestOK, row, pending, history
  <2> QED BY <2>1, <2>2
<1>6. CASE AskResend(t)
  <2>1. TurnsOK'
    BY <1>6, EndsType DEF AskResend
  <2>2. seen[t].fails \in Nat /\ fails' = seen[t].fails + 1 /\ ~(seen[t].fails + 1 >= Threshold)
    BY <1>6 DEF AskResend, VoiceLimit, TurnsOK, Row
  <2>3. fails' \in 0..Threshold - 1
    BY <2>2, HandoverAssumption
  <2>4. RowOK' /\ RestOK'
    BY <1>6, <2>3 DEF AskResend, RowOK, RestOK, pending, history
  <2> QED BY <2>1, <2>4
<1>7. CASE GiveUpVoice(t)
  <2>1. TurnsOK'
    BY <1>7 DEF GiveUpVoice, TurnsOK, Reasons
  <2>2. RowOK' /\ RestOK'
    BY <1>7, HandoverAssumption DEF GiveUpVoice, RowOK, RestOK, pending, history
  <2> QED BY <2>1, <2>2
<1>8. CASE Proceed(t)
  <2>1. TurnsOK'
    BY <1>8, GoesToType DEF Proceed
  <2>2. RowOK' /\ RestOK'
    BY <1>8 DEF Proceed, RowOK, RestOK, row, history
  <2> QED BY <2>1, <2>2
<1>9. CASE Answer(t)
  <2>1. TurnsOK'
    BY <1>9, EndsType DEF Answer
  <2>2. RowOK' /\ RestOK'
    BY <1>9, SummaryType DEF Answer, RowOK, RestOK, row
  <2> QED BY <2>1, <2>2
<1>10. CASE CallTool(t)
  <2>1. TurnsOK'
    BY <1>10 DEF CallTool, TurnsOK, Reasons
  <2>2. RowOK' /\ RestOK'
    BY <1>10 DEF CallTool, RowOK, RestOK, row, pending, history
  <2> QED BY <2>1, <2>2
<1>11. CASE Throw(t)
  <2>1. TurnsOK'
    BY <1>11 DEF Throw, TurnsOK, Reasons
  <2>2. RowOK' /\ RestOK'
    BY <1>11 DEF Throw, RowOK, RestOK, row, pending, history
  <2> QED BY <2>1, <2>2
<1>12. CASE Regenerate(t)
  <2>1. TurnsOK'
    BY <1>12 DEF Regenerate, TurnsOK
  <2>2. RowOK' /\ RestOK'
    BY <1>12 DEF Regenerate, RowOK, RestOK, row, pending, history
  <2> QED BY <2>1, <2>2
<1>13. CASE GiveUpEmpty(t)
  <2>1. TurnsOK'
    BY <1>13 DEF GiveUpEmpty, TurnsOK, Reasons
  <2>2. RowOK' /\ RestOK'
    BY <1>13, SummaryType DEF GiveUpEmpty, RowOK, RestOK, row, pending
  <2> QED BY <2>1, <2>2
<1>14. CASE Escalate(t)
  <2>1. TurnsOK'
    BY <1>14, GoesToType DEF Escalate
  <2>2. RowOK' /\ RestOK'
    BY <1>14 DEF Escalate, RowOK, RestOK, AiStates, pending, history
  <2> QED BY <2>1, <2>2
<1>15. CASE RecordHandoff(t)
  <2>1. TurnsOK' /\ clears' \subseteq Turns
    BY <1>15, AfterEscalationType DEF RecordHandoff
  <2>2. RowOK' /\ RestOK'
    BY <1>15, <2>1 DEF RecordHandoff, RowOK, RestOK, row
  <2> QED BY <2>1, <2>2
<1>16. CASE EscalateFails(t)
  <2>1. TurnsOK' /\ clears' \subseteq Turns
    BY <1>16, AfterEscalationType DEF EscalateFails
  <2>2. RowOK' /\ RestOK'
    BY <1>16, <2>1 DEF EscalateFails, RowOK, RestOK, row, history
  <2> QED BY <2>1, <2>2
<1> QED BY <1>1, <1>2, <1>3, <1>4, <1>5, <1>6, <1>7, <1>8, <1>9, <1>10, <1>11, <1>12, <1>13,
           <1>14, <1>15, <1>16 DEF Turn

LEMMA StepType ==
  ASSUME TypeOK, [Next]_vars
  PROVE  TypeOK'
<1> USE TypeParts
<1>1. CASE Tick
  BY <1>1, HandoverAssumption DEF Tick, RowOK, TurnsOK, RestOK, row, turnVars, pending, history
<1>2. ASSUME NEW t \in Turns, ResetLands(t)
      PROVE  TypeOK'
  BY <1>2, HandoverAssumption DEF ResetLands, RowOK, TurnsOK, RestOK, turnVars, history
<1>3. ASSUME NEW t \in Turns, ClearLands(t)
      PROVE  TypeOK'
  BY <1>3 DEF ClearLands, RowOK, TurnsOK, RestOK, turnVars, history
<1>4. CASE UNCHANGED vars
  BY <1>4 DEF vars, RowOK, TurnsOK, RestOK, row, turnVars, pending, history
<1> QED BY <1>1, <1>2, <1>3, <1>4, ApplyType, ArriveType, TurnType DEF Next, Quiet

\* Every state of the handover is well typed: no interleaving of turns, requests and late
\* writes puts the row, a turn's copy or the failure counter outside its range.
THEOREM HandoverTypeCorrect == Spec => []TypeOK
<1>1. Init => TypeOK
  BY InitType
<1>2. TypeOK /\ [Next]_vars => TypeOK'
  BY StepType
<1> QED BY <1>1, <1>2, PTL DEF Spec

-----------------------------------------------------------------------------
(* The handoff line. *)

\* A turn replies with the handoff line only where its escalation is recorded.
LEMMA StepHandoffLine ==
  ASSUME TypeOK, HandoffLineTruthful, [Next]_vars
  PROVE  HandoffLineTruthful'
<1> USE TypeParts DEF TurnsOK, HandoffLineTruthful
<1>1. ASSUME NEW t \in Turns, RecordHandoff(t)
      PROVE  HandoffLineTruthful'
  <2>1. alerted' = alerted \cup {t} /\ \A u \in Turns \ {t} : reply'[u] = reply[u]
    BY <1>1 DEF RecordHandoff, AfterEscalation, GoesTo, Ends
  <2> QED BY <2>1
<1>2. ASSUME NEW t \in Turns, EscalateFails(t)
      PROVE  HandoffLineTruthful'
  BY <1>2 DEF EscalateFails, AfterEscalation, GoesTo, Ends, history
<1>3. ASSUME NEW t \in Turns,
             AutoResume(t) \/ RecordResume(t) \/ Gate(t) \/ Fail(t) \/ Triage(t) \/ AskResend(t)
             \/ Answer(t) \/ Escalate(t) \/ Proceed(t)
      PROVE  HandoffLineTruthful'
  BY <1>3 DEF AutoResume, RecordResume, Gate, Fail, Triage, AskResend, Answer, Escalate, Proceed,
              GoesTo, Ends, history
<1>4. ASSUME NEW t \in Turns,
             GiveUpVoice(t) \/ CallTool(t) \/ Throw(t) \/ Regenerate(t) \/ GiveUpEmpty(t)
      PROVE  HandoffLineTruthful'
  BY <1>4 DEF GiveUpVoice, CallTool, Throw, Regenerate, GiveUpEmpty, history
<1>5. ASSUME NEW t \in Turns, Arrive(t) \/ ResetLands(t) \/ ClearLands(t)
      PROVE  HandoffLineTruthful'
  BY <1>5 DEF Arrive, ResetLands, ClearLands, turnVars, history
<1>6. ASSUME NEW r \in Requests, NEW a \in Acts, Apply(r, a)
      PROVE  HandoffLineTruthful'
  BY <1>6 DEF Apply, turnVars, history
<1>7. CASE Tick \/ UNCHANGED vars
  BY <1>7 DEF Tick, vars, turnVars, history
<1> QED BY <1>1, <1>2, <1>3, <1>4, <1>5, <1>6, <1>7 DEF Next, Turn, Quiet

\* "A colleague takes over" is told only after the escalation was recorded and the staff
\* alerted (escalateToHuman), in any interleaving and whatever fails.
THEOREM HandoffLineIsTruthful == Spec => []HandoffLineTruthful
<1>1. Init => HandoffLineTruthful
  BY DEF Init, HandoffLineTruthful
<1>2. TypeOK /\ HandoffLineTruthful /\ [Next]_vars => HandoffLineTruthful'
  BY StepHandoffLine
<1> QED BY <1>1, <1>2, HandoverTypeCorrect, PTL DEF Spec

-----------------------------------------------------------------------------
(* Who may take a conversation back from a human. *)

\* Without timed pauses there is no end of a pause, in the row or in a copy of it.
NoTimedPause ==
    (\A r \in Requests : act[r] # "pauseTimed") =>
        until = NoTime /\ \A t \in Turns : seen[t].until = NoTime

LEMMA NeverElapsed ==
  ASSUME TypeOK, NoTimedPause, \A r \in Requests : act[r] # "pauseTimed", NEW t \in Turns
  PROVE  ~Elapsed(t)
<1>1. seen[t].until = NoTime
  BY DEF NoTimedPause
<1>2. NoTime \notin 0..now
  BY HandoverAssumption DEF TypeOK
<1> QED BY <1>1, <1>2 DEF Elapsed

LEMMA StepNoTimedPause ==
  ASSUME TypeOK, NoTimedPause, [Next]_vars
  PROVE  NoTimedPause'
<1> USE TypeParts DEF TurnsOK, NoTimedPause, Unread
<1>1. ASSUME NEW r \in Requests, NEW a \in Acts, Apply(r, a)
      PROVE  NoTimedPause'
  <2> SUFFICES ASSUME \A q \in Requests : act'[q] # "pauseTimed"
               PROVE  until' = NoTime /\ \A t \in Turns : seen'[t].until = NoTime
    OBVIOUS
  <2>1. a # "pauseTimed" /\ \A q \in Requests : act[q] # "pauseTimed"
    BY <1>1 DEF Apply, RestOK
  <2> QED BY <1>1, <2>1 DEF Apply, turnVars, Acts
<1>2. ASSUME NEW t \in Turns, Arrive(t)
      PROVE  NoTimedPause'
  BY <1>2 DEF Arrive, row
<1>3. ASSUME NEW t \in Turns, RecordHandoff(t) \/ EscalateFails(t)
      PROVE  NoTimedPause'
  BY <1>3 DEF RecordHandoff, EscalateFails, AfterEscalation, GoesTo, Ends, row
<1>4. ASSUME NEW t \in Turns,
             AutoResume(t) \/ RecordResume(t) \/ Gate(t) \/ Fail(t) \/ Triage(t) \/ AskResend(t)
             \/ Answer(t) \/ Escalate(t) \/ Proceed(t)
      PROVE  NoTimedPause'
  BY <1>4 DEF AutoResume, RecordResume, Gate, Fail, Triage, AskResend, Answer, Escalate, Proceed,
              GoesTo, Ends, row
<1>5. ASSUME NEW t \in Turns,
             GiveUpVoice(t) \/ CallTool(t) \/ Throw(t) \/ Regenerate(t) \/ GiveUpEmpty(t)
             \/ ResetLands(t) \/ ClearLands(t)
      PROVE  NoTimedPause'
  BY <1>5 DEF GiveUpVoice, CallTool, Throw, Regenerate, GiveUpEmpty, ResetLands, ClearLands, row, turnVars
<1>6. CASE Tick \/ UNCHANGED vars
  BY <1>6 DEF Tick, vars, row, turnVars
<1> QED BY <1>1, <1>2, <1>3, <1>4, <1>5, <1>6 DEF Next, Turn, Quiet

\* Only the auto-resume of a turn takes a conversation from a human without a request.
LEMMA OnlyAutoResume ==
  ASSUME TypeOK, [Next]_vars, ai = "human", ai' # "human", act' = act
  PROVE  \E t \in Turns : AutoResume(t)
<1>1. \A r \in Requests, a \in Acts : ~Apply(r, a)
  BY DEF Apply, TypeOK, Acts
<1>2. ASSUME NEW t \in Turns, Turn(t), ~AutoResume(t)
      PROVE  FALSE
  BY <1>2 DEF Turn, RecordResume, Gate, Fail, Triage, AskResend, GiveUpVoice, Proceed, Answer, CallTool,
     Throw, Regenerate, GiveUpEmpty, Escalate, RecordHandoff, EscalateFails, row
<1> QED BY <1>1, <1>2 DEF Next, Tick, Arrive, ResetLands, ClearLands, Quiet, vars, row

\* A conversation that a human has taken stays with the human until a request says
\* otherwise, unless there were timed pauses (the auto-resume of handleMessage).
THEOREM HumanIsHeld == Spec => HumanHeldWithoutTimedPause
<1>1. Init => NoTimedPause
  BY DEF Init, NoTimedPause, Unread
<1>2. TypeOK /\ NoTimedPause /\ [Next]_vars => NoTimedPause'
  BY StepNoTimedPause
<1>3. TypeOK /\ NoTimedPause /\ [Next]_vars =>
        [(ai = "human" /\ ai' # "human" /\ \A r \in Requests : act[r] # "pauseTimed")
           => act' # act]_vars
  BY OnlyAutoResume, NeverElapsed DEF AutoResume
<1> QED BY <1>1, <1>2, <1>3, HandoverTypeCorrect, PTL DEF Spec, HumanHeldWithoutTimedPause

-----------------------------------------------------------------------------
(* The human's wrap-up. *)

Summaries == {r \in Requests : act[r] = "resumeSummary"}

\* A wrap-up in the row, in a copy or in a prompt came with a request.
Requested ==
    /\ summary \in Summaries \cup {NoSummary} /\ told \subseteq Summaries
    /\ \A t \in Turns : seen[t].summary \in Summaries \cup {NoSummary}

\* A clear is started by a turn that has told a wrap-up; one whose reply was empty has told
\* its own, and waits for its escalation.
ClearsFollow ==
    /\ clears # {} => told # {}
    /\ \A t \in Turns : why[t] = "empty" =>
         /\ tpc[t] \in {"escalating", "recording"}
         /\ seen[t].summary \in told \cup {NoSummary}

LEMMA StepRequested ==
  ASSUME TypeOK, Requested, [Next]_vars
  PROVE  Requested'
<1> USE TypeParts DEF TurnsOK, RestOK, Requested, Unread
<1>1. ASSUME NEW r \in Requests, NEW a \in Acts, Apply(r, a)
      PROVE  Requested'
  <2>1. Summaries \subseteq Summaries'
    BY <1>1 DEF Apply, Summaries
  <2>2. a = "resumeSummary" => r \in Summaries'
    BY <1>1 DEF Apply, Summaries
  <2> QED BY <1>1, <2>1, <2>2 DEF Apply, turnVars, history
<1>2. ASSUME UNCHANGED act
      PROVE  Summaries' = Summaries
  BY <1>2 DEF Summaries
<1>3. ASSUME NEW t \in Turns, Arrive(t)
      PROVE  Requested'
  BY <1>2, <1>3 DEF Arrive, row, history
<1>4. ASSUME NEW t \in Turns, Answer(t) \/ GiveUpEmpty(t)
      PROVE  Requested'
  BY <1>2, <1>4 DEF Answer, GiveUpEmpty, Ends, ToldBy, row
<1>5. ASSUME NEW t \in Turns, RecordHandoff(t) \/ EscalateFails(t)
      PROVE  Requested'
  BY <1>2, <1>5 DEF RecordHandoff, EscalateFails, AfterEscalation, GoesTo, Ends, row, history
<1>6. ASSUME NEW t \in Turns,
             AutoResume(t) \/ RecordResume(t) \/ Gate(t) \/ Fail(t) \/ Triage(t) \/ AskResend(t)
             \/ Escalate(t) \/ Proceed(t)
      PROVE  Requested'
  BY <1>2, <1>6 DEF AutoResume, RecordResume, Gate, Fail, Triage, AskResend, Escalate, Proceed,
              GoesTo, Ends, row, history
<1>7. ASSUME NEW t \in Turns,
             GiveUpVoice(t) \/ CallTool(t) \/ Throw(t) \/ Regenerate(t) \/ ResetLands(t) \/ ClearLands(t)
      PROVE  Requested'
  BY <1>2, <1>7 DEF GiveUpVoice, CallTool, Throw, Regenerate, ResetLands, ClearLands, row, turnVars, history
<1>8. CASE Tick \/ UNCHANGED vars
  BY <1>2, <1>8 DEF Tick, vars, row, turnVars, history
<1> QED BY <1>1, <1>3, <1>4, <1>5, <1>6, <1>7, <1>8 DEF Next, Turn, Quiet

LEMMA StepClearsFollow ==
  ASSUME TypeOK, ClearsFollow, [Next]_vars
  PROVE  ClearsFollow'
<1> USE TypeParts DEF TurnsOK, RestOK, ClearsFollow, Unread
<1>1. ASSUME NEW t \in Turns, Answer(t)
      PROVE  ClearsFollow'
  BY <1>1 DEF Answer, Ends, ClearsAfter, ToldBy
<1>2. ASSUME NEW t \in Turns, GiveUpEmpty(t)
      PROVE  ClearsFollow'
  BY <1>2 DEF GiveUpEmpty, ToldBy, pending
<1>3. ASSUME NEW t \in Turns, RecordHandoff(t) \/ EscalateFails(t)
      PROVE  ClearsFollow'
  <2>1. told' = told /\ tpc[t] \in {"escalating", "recording"}
    BY <1>3 DEF RecordHandoff, EscalateFails, history
  <2>2. CASE why[t] = "tool"
    BY <1>3, <2>1, <2>2 DEF RecordHandoff, EscalateFails, AfterEscalation, GoesTo
  <2>3. CASE why[t] # "tool"
    <3>1. Ends(t, "handoff") \/ Ends(t, "fallback")
      BY <1>3, <2>3 DEF RecordHandoff, EscalateFails, AfterEscalation
    <3>2. clears' = IF why[t] = "empty" THEN ClearsAfter(t) ELSE clears
      BY <1>3, <2>3 DEF RecordHandoff, EscalateFails, AfterEscalation
    <3> QED BY <2>1, <3>1, <3>2 DEF Ends, ClearsAfter
  <2> QED BY <2>2, <2>3
<1>4. ASSUME NEW t \in Turns,
             AutoResume(t) \/ RecordResume(t) \/ Gate(t) \/ Fail(t) \/ Triage(t) \/ AskResend(t)
             \/ Escalate(t) \/ Proceed(t)
      PROVE  ClearsFollow'
  BY <1>4 DEF AutoResume, RecordResume, Gate, Fail, Triage, AskResend, Escalate, Proceed,
              GoesTo, Ends, pending, history
<1>5. ASSUME NEW t \in Turns,
             Arrive(t) \/ GiveUpVoice(t) \/ CallTool(t) \/ Throw(t) \/ Regenerate(t)
             \/ ResetLands(t) \/ ClearLands(t)
      PROVE  ClearsFollow'
  BY <1>5 DEF Arrive, GiveUpVoice, CallTool, Throw, Regenerate, ResetLands, ClearLands, turnVars, pending, history
<1>6. ASSUME NEW r \in Requests, NEW a \in Acts, Apply(r, a)
      PROVE  ClearsFollow'
  BY <1>6 DEF Apply, turnVars, pending, history
<1>7. CASE Tick \/ UNCHANGED vars
  BY <1>7 DEF Tick, vars, turnVars, pending, history
<1> QED BY <1>1, <1>2, <1>3, <1>4, <1>5, <1>6, <1>7 DEF Next, Turn, Quiet

\* Only a clear that lands takes a wrap-up out of the row.
LEMMA OnlyClears ==
  ASSUME TypeOK, [Next]_vars, summary # NoSummary, summary' = NoSummary
  PROVE  clears # {}
<1>1. ASSUME NEW r \in Requests, NEW a \in Acts, Apply(r, a)
      PROVE  FALSE
  BY <1>1, HandoverAssumption DEF Apply, Requests
<1>2. ASSUME NEW t \in Turns, Turn(t)
      PROVE  FALSE
  BY <1>2 DEF Turn, AutoResume, RecordResume, Gate, Fail, Triage, AskResend, GiveUpVoice, Proceed, Answer,
     CallTool, Throw, Regenerate, GiveUpEmpty, Escalate, RecordHandoff, EscalateFails, row
<1> QED BY <1>1, <1>2 DEF Next, Tick, Arrive, ResetLands, ClearLands, Quiet, vars, row

\* The only wrap-up there has been is not cleared before it was in the prompt of a
\* generation that returned (the one-shot clear after generate()).
THEOREM WrapUpIsNotLost == Spec => WrapUpNotLost
<1>1. Init => Requested /\ ClearsFollow
  BY DEF Init, Requested, ClearsFollow, Unread
<1>2. TypeOK /\ Requested /\ ClearsFollow /\ [Next]_vars => Requested' /\ ClearsFollow'
  BY StepRequested, StepClearsFollow
<1>3. TypeOK /\ Requested /\ ClearsFollow /\ [Next]_vars =>
        [(summary # NoSummary /\ summary' = NoSummary
          /\ Cardinality({r \in Requests : act[r] = "resumeSummary"}) = 1)
            => summary \in told]_vars
  <2> SUFFICES ASSUME TypeOK, Requested, ClearsFollow, [Next]_vars, summary # NoSummary, summary' = NoSummary,
                      Cardinality(Summaries) = 1
               PROVE  summary \in told
    BY DEF Summaries
  <2>1. told # {} /\ told \subseteq Summaries /\ summary \in Summaries
    BY OnlyClears DEF ClearsFollow, Requested
  <2>2. IsFiniteSet(Summaries)
    BY FS_Interval, FS_Subset, HandoverAssumption DEF Summaries, Requests
  <2>3. PICK r : Summaries = {r}
    BY <2>2, FS_Singleton
  <2> QED BY <2>1, <2>3
<1> QED BY <1>1, <1>2, <1>3, HandoverTypeCorrect, PTL DEF Spec, WrapUpNotLost

-----------------------------------------------------------------------------
(* The voice notes. *)

\* The turns that asked her to send the voice note again.
Asked == {u \in Turns : reply[u] = "resend"}

\* A turn replies at its end, and only then.
RepliesAtEnd == \A t \in Turns : tpc[t] # "ended" => reply[t] = "none"

\* The counter, in the row and in every copy of it, is no more than the times she was asked.
CountedAtMostAsked ==
    /\ fails <= Cardinality(Asked)
    /\ \A t \in Turns : seen[t].fails <= Cardinality(Asked)

VInv == RepliesAtEnd /\ CountedAtMostAsked /\ VoiceHandoffEarned

LEMMA AskedFinite == IsFiniteSet(Asked) /\ IsFiniteSet(Asked') /\ Cardinality(Asked) \in Nat /\ Cardinality(Asked') \in Nat
<1>1. IsFiniteSet(Turns)
  BY FS_Interval, HandoverAssumption DEF Turns
<1> QED BY <1>1, FS_Subset, FS_CardinalityType DEF Asked

\* A turn that is not over has not replied, so what it replies adds to what was asked.
LEMMA EndsAsked ==
  ASSUME TypeOK, RepliesAtEnd, NEW t \in Turns, tpc[t] # "ended", NEW line, Ends(t, line)
  PROVE  /\ RepliesAtEnd'
         /\ Asked' = IF line = "resend" THEN Asked \cup {t} ELSE Asked
         /\ t \notin Asked
BY TypeParts DEF TurnsOK, RepliesAtEnd, Asked, Ends

\* A turn that goes on has replied nothing.
LEMMA GoesToAsked ==
  ASSUME TypeOK, RepliesAtEnd, NEW t \in Turns, tpc[t] # "ended", NEW phase, GoesTo(t, phase)
  PROVE  RepliesAtEnd' /\ Asked' = Asked
BY TypeParts DEF TurnsOK, RepliesAtEnd, Asked, GoesTo

\* The counter does not grow, no turn copies more than it, and no turn escalates for a voice
\* note: what the steps that have nothing to do with voice do.
LEMMA Unvoiced ==
  ASSUME TypeOK, VInv, RepliesAtEnd', Asked' = Asked,
         fails' \in {0, fails},
         \A t \in Turns : seen'[t].fails \in {0, fails, seen[t].fails},
         \A t \in Turns : why'[t] = "voice" => why[t] = "voice"
  PROVE  VInv'
<1>1. 0 <= Cardinality(Asked)
  BY AskedFinite
<1>2. CountedAtMostAsked'
  BY <1>1 DEF VInv, CountedAtMostAsked
<1>3. VoiceHandoffEarned'
  BY DEF VInv, VoiceHandoffEarned, Asked
<1> QED BY <1>2, <1>3 DEF VInv

\* One more note that could not be used: she is asked once more, and the counter follows.
LEMMA AskResendVoice ==
  ASSUME TypeOK, VInv, NEW t \in Turns, AskResend(t)
  PROVE  VInv'
<1> USE TypeParts DEF VInv, TurnsOK, RowOK
<1>1. RepliesAtEnd' /\ Asked' = Asked \cup {t} /\ t \notin Asked
  BY EndsAsked DEF AskResend
<1>2. Cardinality(Asked') = Cardinality(Asked) + 1
  BY <1>1, AskedFinite, FS_AddElement
<1>3. CountedAtMostAsked'
  <2>1. seen[t].fails \in Nat /\ fails' = seen[t].fails + 1
    BY DEF AskResend, Row
  <2>2. fails' <= Cardinality(Asked')
    BY <1>2, <2>1, AskedFinite DEF CountedAtMostAsked
  <2>3. ASSUME NEW u \in Turns
        PROVE  seen'[u].fails <= Cardinality(Asked')
    <3>1. seen'[u].fails \in {0, seen[u].fails} /\ seen[u].fails \in Nat
      BY DEF AskResend, Ends, Unread, Row
    <3>2. seen[u].fails <= Cardinality(Asked)
      BY DEF CountedAtMostAsked
    <3> QED BY <1>2, <3>1, <3>2, AskedFinite
  <2> QED BY <2>2, <2>3 DEF CountedAtMostAsked
<1>4. VoiceHandoffEarned'
  <2>1. ASSUME NEW u \in Turns, why'[u] = "voice"
        PROVE  Cardinality(Asked') >= Threshold - 1
    <3>1. why[u] = "voice"
      BY <2>1 DEF AskResend, Ends
    <3>2. Cardinality(Asked) >= Threshold - 1
      BY <3>1 DEF VoiceHandoffEarned, Asked
    <3> QED BY <1>2, <3>2, AskedFinite, HandoverAssumption
  <2> QED BY <2>1 DEF VoiceHandoffEarned, Asked
<1> QED BY <1>1, <1>3, <1>4

\* The limit is reached by a copy of the counter, and the copy is no more than was asked.
LEMMA GiveUpVoiceEarned ==
  ASSUME TypeOK, VInv, NEW t \in Turns, GiveUpVoice(t)
  PROVE  VInv'
<1> USE TypeParts DEF VInv, TurnsOK
<1>1. RepliesAtEnd' /\ Asked' = Asked
  BY DEF GiveUpVoice, RepliesAtEnd, Asked
<1>2. CountedAtMostAsked'
  BY <1>1, AskedFinite DEF GiveUpVoice, CountedAtMostAsked
<1>3. Cardinality(Asked) >= Threshold - 1
  <2>1. seen[t].fails \in Nat /\ seen[t].fails + 1 >= Threshold /\ seen[t].fails <= Cardinality(Asked)
    BY DEF GiveUpVoice, VoiceLimit, Row, CountedAtMostAsked
  <2> QED BY <2>1, AskedFinite, HandoverAssumption
<1>4. VoiceHandoffEarned'
  BY <1>1, <1>3 DEF VoiceHandoffEarned, Asked
<1> QED BY <1>1, <1>2, <1>4

LEMMA StepVoice ==
  ASSUME TypeOK, VInv, [Next]_vars
  PROVE  VInv'
<1> USE TypeParts DEF TurnsOK, Unread
<1>0. RepliesAtEnd
  BY DEF VInv
<1>1. ASSUME NEW t \in Turns, RecordHandoff(t) \/ EscalateFails(t)
      PROVE  VInv'
  <2>1. tpc[t] # "ended"
    BY <1>1 DEF RecordHandoff, EscalateFails
  <2>2. CASE why[t] = "tool"
    <3>1. GoesTo(t, "generating")
      BY <1>1, <2>2 DEF RecordHandoff, EscalateFails, AfterEscalation
    <3> QED BY <1>0, <1>1, <2>1, <3>1, GoesToAsked, Unvoiced DEF RecordHandoff, EscalateFails, GoesTo, row
  <2>3. CASE why[t] # "tool"
    <3>1. Ends(t, "handoff") \/ Ends(t, "fallback")
      BY <1>1, <2>3 DEF RecordHandoff, EscalateFails, AfterEscalation
    <3>2. RepliesAtEnd' /\ Asked' = Asked
      BY <1>0, <2>1, <3>1, EndsAsked
    <3>3. fails' = fails
      BY <1>1 DEF RecordHandoff, EscalateFails, row
    <3> QED BY <3>1, <3>2, <3>3, Unvoiced DEF Ends
  <2> QED BY <2>2, <2>3
<1>2. ASSUME NEW t \in Turns,
             AutoResume(t) \/ RecordResume(t) \/ Escalate(t) \/ Proceed(t) \/ (Gate(t) /\ seen[t].ai = "bot")
      PROVE  VInv'
  <2>1. tpc[t] # "ended" /\ (\E phase : GoesTo(t, phase)) /\ fails' = fails
    BY <1>2 DEF AutoResume, RecordResume, Escalate, Proceed, Gate, row
  <2>2. RepliesAtEnd' /\ Asked' = Asked /\ seen' = seen /\ why' = why
    BY <1>0, <2>1, GoesToAsked DEF GoesTo
  <2> QED BY <2>1, <2>2, Unvoiced
<1>3. ASSUME NEW t \in Turns,
             Fail(t) \/ Triage(t) \/ Answer(t) \/ (Gate(t) /\ seen[t].ai # "bot")
      PROVE  VInv'
  <2>1. tpc[t] # "ended" /\ (\E line : line # "resend" /\ Ends(t, line)) /\ fails' = fails
    BY <1>3 DEF Fail, Triage, Answer, Gate, row
  <2>2. RepliesAtEnd' /\ Asked' = Asked
    BY <1>0, <2>1, EndsAsked
  <2> QED BY <2>1, <2>2, Unvoiced DEF Ends
<1>4. ASSUME NEW t \in Turns, CallTool(t) \/ Throw(t) \/ Regenerate(t) \/ GiveUpEmpty(t)
      PROVE  VInv'
  <2>1. RepliesAtEnd' /\ Asked' = Asked
    BY <1>0, <1>4 DEF CallTool, Throw, Regenerate, GiveUpEmpty, RepliesAtEnd, Asked
  <2> QED BY <1>4, <2>1, Unvoiced DEF CallTool, Throw, Regenerate, GiveUpEmpty, row
<1>5. ASSUME NEW t \in Turns, Arrive(t) \/ ResetLands(t) \/ ClearLands(t)
      PROVE  VInv'
  <2>1. RepliesAtEnd' /\ Asked' = Asked
    BY <1>0, <1>5 DEF Arrive, ResetLands, ClearLands, RepliesAtEnd, Asked, turnVars
  <2> QED BY <1>5, <2>1, Unvoiced DEF Arrive, ResetLands, ClearLands, row, turnVars
<1>6. ASSUME NEW r \in Requests, NEW a \in Acts, Apply(r, a)
      PROVE  VInv'
  BY <1>0, <1>6, Unvoiced DEF Apply, turnVars, RepliesAtEnd, Asked
<1>7. CASE Tick \/ UNCHANGED vars
  BY <1>0, <1>7, Unvoiced DEF Tick, vars, row, turnVars, RepliesAtEnd, Asked
<1>8. ASSUME NEW t \in Turns, Turn(t)
      PROVE  VInv'
  BY <1>1, <1>2, <1>3, <1>4, <1>8, AskResendVoice, GiveUpVoiceEarned DEF Turn
<1> QED BY <1>5, <1>6, <1>7, <1>8 DEF Next, Quiet

\* A voice note is handed to a human only after she was asked Threshold - 1 times to send
\* another one, however many turns count in copies of one another's counter and however
\* late a reset lands (handleUnusableVoiceTurn).
THEOREM VoiceHandoffIsEarned == Spec => []VoiceHandoffEarned
<1>1. Init => VInv
  BY AskedFinite DEF Init, VInv, RepliesAtEnd, CountedAtMostAsked, VoiceHandoffEarned, Unread
<1>2. TypeOK /\ VInv /\ [Next]_vars => VInv'
  BY StepVoice
<1>3. VInv => VoiceHandoffEarned
  BY DEF VInv
<1> QED BY <1>1, <1>2, <1>3, HandoverTypeCorrect, PTL DEF Spec
=============================================================================
