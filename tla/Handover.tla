------------------------------ MODULE Handover ------------------------------
(***************************************************************************)
(* Who answers a customer: the bot, nobody (paused) or a human.            *)
(*                                                                         *)
(* AgentService.handleMessage reads the conversation row once and acts on  *)
(* that copy until it replies, seconds or minutes later.  Turns of one     *)
(* customer overlap, and the admin's requests (ConversationControlService) *)
(* change the row in between.  An escalation writes the row and its audit  *)
(* event in two transactions, and two writes of a turn are not awaited.    *)
(* The model has one conversation; turns and requests are numbered in the  *)
(* order they reach it.                                                    *)
(***************************************************************************)
EXTENDS Naturals, FiniteSets

CONSTANTS TurnCount,   \* bound: inbound turns, each a distinct batch of messages
          RequestCount,\* bound: admin requests that change the row
          Horizon,     \* bound: the clock stops here
          NoTime,      \* paused_until IS NULL
          NoSummary,   \* human_summary IS NULL; a summary is named by its request
          Threshold    \* VOICE_FAIL_ESCALATE_THRESHOLD

ASSUME HandoverAssumption ==
    /\ TurnCount \in Nat /\ RequestCount \in Nat
    /\ Horizon \in Nat
    /\ NoTime \notin Nat
    /\ NoSummary \notin Nat
    /\ Threshold \in Nat \ {0}

Turns == 1..TurnCount
Requests == 1..RequestCount

VARIABLES
    ai,        \* conversations.ai_state
    until,     \* conversations.paused_until
    summary,   \* conversations.human_summary
    fails,     \* conversations.state.voiceFailCount
    now,       \* the clock
    tpc,       \* tpc[t]: how far turn t has come
    seen,      \* seen[t]: the copy of the row that turn t works with
    again,     \* again[t]: the empty reply of turn t has been generated anew
    why,       \* why[t]: what made turn t escalate
    reply,     \* reply[t]: what turn t hands to the Messenger sender
    resets,    \* turns whose voiceFailCount reset has not landed
    clears,    \* turns whose clearHumanSummary has not landed
    alerted,   \* turns whose escalation was recorded and alerted the staff
    told,      \* history: summaries that were in the prompt of a generation that returned
    act        \* act[r]: what request r did

row == <<ai, until, summary, fails>>
turnVars == <<tpc, seen, again, why, reply>>
pending == <<resets, clears>>
history == <<alerted, told>>
vars == <<row, now, turnVars, pending, history, act>>

AiStates == {"bot", "human", "paused"}
Acts == {"pause", "pauseTimed", "resume", "resumeSummary", "takeOver"}
Times == (0..Horizon + 1) \cup {NoTime}
Row == [ai: AiStates, until: Times, summary: Requests \cup {NoSummary}, fails: 0..Threshold]
Unread == [ai |-> "bot", until |-> NoTime, summary |-> NoSummary, fails |-> 0]

Init ==
    /\ ai = "bot" /\ until = NoTime /\ summary = NoSummary /\ fails = 0
    /\ now = 0
    /\ tpc = [t \in Turns |-> "idle"]
    /\ seen = [t \in Turns |-> Unread]
    /\ again = [t \in Turns |-> FALSE]
    /\ why = [t \in Turns |-> "none"]
    /\ reply = [t \in Turns |-> "none"]
    /\ resets = {} /\ clears = {} /\ alerted = {} /\ told = {}
    /\ act = [r \in Requests |-> "none"]

Tick ==
    /\ now < Horizon
    /\ now' = now + 1
    /\ UNCHANGED <<row, turnVars, pending, history, act>>

-----------------------------------------------------------------------------
(* The admin's requests. *)

\* The UPDATE of pause, of resume, and of assign (to somebody) and handoff, which both put
\* a human in charge.  Nothing reads the audit event that follows it.
Apply(r, a) ==
    /\ act[r] = "none" /\ \A q \in 1..r - 1 : act[q] # "none"
    /\ ai' = CASE a \in {"pause", "pauseTimed"} -> "paused"
               [] a \in {"resume", "resumeSummary"} -> "bot"
               [] a = "takeOver" -> "human"
    /\ until' = CASE a = "pauseTimed" -> now + 1
                  [] a \in {"pause", "resume", "resumeSummary"} -> NoTime
                  [] a = "takeOver" -> until
    /\ summary' = IF a = "resumeSummary" THEN r ELSE summary
    /\ act' = [act EXCEPT ![r] = a]
    /\ UNCHANGED <<fails, now, turnVars, pending, history>>

-----------------------------------------------------------------------------
(* One turn. *)

\* The turn is over: it hands over its reply, and its locals are gone.
Ends(t, line) ==
    /\ tpc' = [tpc EXCEPT ![t] = "ended"]
    /\ reply' = [reply EXCEPT ![t] = line]
    /\ seen' = [seen EXCEPT ![t] = Unread]
    /\ again' = [again EXCEPT ![t] = FALSE]
    /\ why' = [why EXCEPT ![t] = "none"]

GoesTo(t, phase) ==
    /\ tpc' = [tpc EXCEPT ![t] = phase]
    /\ UNCHANGED <<seen, again, why, reply>>

\* A timed pause in the turn's copy has run out.
Elapsed_nullIsPast(t) ==
    seen[t].ai = "paused" /\ seen[t].until \in 0..now \cup {NoTime}
Elapsed(t) == seen[t].ai = "paused" /\ seen[t].until \in 0..now

\* findOrCreateByPsid; the dedup query and the transcription of a voice note come after.
Arrive(t) ==
    /\ tpc[t] = "idle" /\ \A u \in 1..t - 1 : tpc[u] # "idle"
    /\ seen' = [seen EXCEPT ![t] =
                  [ai |-> ai, until |-> until, summary |-> summary, fails |-> fails]]
    /\ tpc' = [tpc EXCEPT ![t] = "gate"]
    /\ UNCHANGED <<row, now, again, why, reply, pending, history, act>>

\* Timed-pause expiry: an UPDATE that does not look at the row again.
AutoResume(t) ==
    /\ tpc[t] = "gate" /\ Elapsed(t)
    /\ ai' = "bot" /\ until' = NoTime
    /\ GoesTo(t, "resumed")
    /\ UNCHANGED <<summary, fails, now, pending, history, act>>

\* The resume event of the auto-resume.
RecordResume(t) ==
    /\ tpc[t] = "resumed"
    /\ GoesTo(t, "open")
    /\ UNCHANGED <<row, now, pending, history, act>>

\* The bot-pause gate lets the turn in, or logs it and stays silent.
Gate(t) ==
    /\ tpc[t] = "gate" /\ ~Elapsed(t)
    /\ IF seen[t].ai = "bot" THEN GoesTo(t, "open") ELSE Ends(t, "silent")
    /\ UNCHANGED <<row, now, pending, history, act>>

\* A query before the model runs throws out of handleMessage; processBatch catches it.
Fail(t) ==
    /\ tpc[t] \in {"gate", "resumed", "open"}
    /\ Ends(t, "fallback")
    /\ UNCHANGED <<row, now, pending, history, act>>

\* A greeting answered by the cheap tier, unless a summary waits to be injected.
Triage(t) ==
    /\ tpc[t] = "open" /\ seen[t].summary = NoSummary
    /\ Ends(t, "answer")
    /\ UNCHANGED <<row, now, pending, history, act>>

\* An unusable voice note, the Threshold-th in a row by the turn's own copy.
VoiceLimit_tooLate(t) == seen[t].fails + 1 > Threshold
VoiceLimit_offByOne(t) == seen[t].fails + 2 >= Threshold
VoiceLimit(t) == seen[t].fails + 1 >= Threshold

\* handleUnusableVoiceTurn below the threshold.
AskResend(t) ==
    /\ tpc[t] = "open" /\ ~VoiceLimit(t)
    /\ fails' = seen[t].fails + 1
    /\ Ends(t, "resend")
    /\ UNCHANGED <<ai, until, summary, now, pending, history, act>>

\* handleUnusableVoiceTurn at the threshold: the counter starts anew, then escalation.
GiveUpVoice(t) ==
    /\ tpc[t] = "open" /\ VoiceLimit(t)
    /\ fails' = 0
    /\ tpc' = [tpc EXCEPT ![t] = "escalating"]
    /\ why' = [why EXCEPT ![t] = "voice"]
    /\ UNCHANGED <<ai, until, summary, now, seen, again, reply, pending, history, act>>

\* The full path: the counter reset is started and not awaited.
Proceed(t) ==
    /\ tpc[t] = "open"
    /\ resets' = IF seen[t].fails > 0 THEN resets \cup {t} ELSE resets
    /\ GoesTo(t, "generating")
    /\ UNCHANGED <<row, now, clears, history, act>>

\* Turns whose summary is cleared once their generation has returned.
ClearsAfter(t) == IF seen[t].summary # NoSummary THEN clears \cup {t} ELSE clears

ToldBy(t) == told \cup ({seen[t].summary} \ {NoSummary})

\* generate() returns text.
Answer(t) ==
    /\ tpc[t] = "generating"
    /\ clears' = ClearsAfter(t)
    /\ told' = ToldBy(t)
    /\ Ends(t, "answer")
    /\ UNCHANGED <<row, now, resets, alerted, act>>

\* The model calls escalate_to_human.  Bound: a turn calls it once.
CallTool(t) ==
    /\ tpc[t] = "generating" /\ why[t] = "none"
    /\ tpc' = [tpc EXCEPT ![t] = "escalating"]
    /\ why' = [why EXCEPT ![t] = "tool"]
    /\ UNCHANGED <<row, now, seen, again, reply, pending, history, act>>

\* generate() throws: finishFailedTurn.
Throw(t) ==
    /\ tpc[t] = "generating"
    /\ tpc' = [tpc EXCEPT ![t] = "escalating"]
    /\ why' = [why EXCEPT ![t] = "thrown"]
    /\ UNCHANGED <<row, now, seen, again, reply, pending, history, act>>

\* The reply is empty for a reason a second generation may mend.
Regenerate(t) ==
    /\ tpc[t] = "generating" /\ ~again[t]
    /\ again' = [again EXCEPT ![t] = TRUE]
    /\ UNCHANGED <<row, now, tpc, seen, why, reply, pending, history, act>>

\* The reply stays empty, or is empty for a reason that will not change.
GiveUpEmpty_sendsNothing(t) ==
    /\ tpc[t] = "generating"
    /\ clears' = ClearsAfter(t)
    /\ told' = ToldBy(t)
    /\ Ends(t, "silent")
    /\ UNCHANGED <<row, now, resets, alerted, act>>
GiveUpEmpty(t) ==
    /\ tpc[t] = "generating"
    /\ tpc' = [tpc EXCEPT ![t] = "escalating"]
    /\ why' = [why EXCEPT ![t] = "empty"]
    /\ told' = ToldBy(t)
    /\ UNCHANGED <<row, now, seen, again, reply, pending, alerted, act>>

\* What follows an escalation: the tool returns to the model, any other turn ends.  An
\* empty turn goes on through the code after generate(), which clears the summary.
AfterEscalation_alwaysClears(t, line) ==
    IF why[t] = "tool"
    THEN GoesTo(t, "generating") /\ UNCHANGED clears
    ELSE Ends(t, line) /\ clears' = ClearsAfter(t)
AfterEscalation(t, line) ==
    IF why[t] = "tool"
    THEN GoesTo(t, "generating") /\ UNCHANGED clears
    ELSE /\ Ends(t, line)
         /\ clears' = IF why[t] = "empty" THEN ClearsAfter(t) ELSE clears

\* escalateToHuman: the UPDATE of the row.
Escalate(t) ==
    /\ tpc[t] = "escalating"
    /\ ai' = "human"
    /\ GoesTo(t, "recording")
    /\ UNCHANGED <<until, summary, fails, now, pending, history, act>>

\* escalateToHuman: the handoff event, then the Telegram alert.
RecordHandoff(t) ==
    /\ tpc[t] = "recording"
    /\ alerted' = alerted \cup {t}
    /\ AfterEscalation(t, "handoff")
    /\ UNCHANGED <<row, now, resets, told, act>>

\* escalateToHuman throws, before or after its UPDATE: escalateOnAiFailure and
\* processBatch answer with FALLBACK_REPLY, and the tool's error goes to the model.
EscalateFails_unnoticed(t) ==
    /\ tpc[t] \in {"escalating", "recording"}
    /\ AfterEscalation(t, "handoff")
    /\ UNCHANGED <<row, now, resets, history, act>>
EscalateFails(t) ==
    /\ tpc[t] \in {"escalating", "recording"}
    /\ AfterEscalation(t, "fallback")
    /\ UNCHANGED <<row, now, resets, history, act>>

Turn(t) ==
    \/ AutoResume(t) \/ RecordResume(t) \/ Gate(t) \/ Fail(t)
    \/ Triage(t) \/ AskResend(t) \/ GiveUpVoice(t) \/ Proceed(t)
    \/ Answer(t) \/ CallTool(t) \/ Throw(t) \/ Regenerate(t) \/ GiveUpEmpty(t)
    \/ Escalate(t) \/ RecordHandoff(t) \/ EscalateFails(t)

-----------------------------------------------------------------------------
(* The writes nobody awaits: each lands at any later time, or fails. *)

ResetLands(t) ==
    /\ t \in resets
    /\ resets' = resets \ {t}
    /\ fails' \in {0, fails}
    /\ UNCHANGED <<ai, until, summary, now, turnVars, clears, history, act>>

\* clearHumanSummary sets NULL, whatever the column holds by now.
ClearLands(t) ==
    /\ t \in clears
    /\ clears' = clears \ {t}
    /\ summary' \in {NoSummary, summary}
    /\ UNCHANGED <<ai, until, fails, now, turnVars, resets, history, act>>

\* Nothing is left to do; only this state may be the last one.
Quiet ==
    /\ \A t \in Turns : tpc[t] = "ended"
    /\ \A r \in Requests : act[r] # "none"
    /\ UNCHANGED vars

Next ==
    \/ Tick
    \/ \E r \in Requests, a \in Acts : Apply(r, a)
    \/ \E t \in Turns : Arrive(t)
    \/ \E t \in Turns : Turn(t)
    \/ \E t \in Turns : ResetLands(t)
    \/ \E t \in Turns : ClearLands(t)
    \/ Quiet

Spec == Init /\ [][Next]_vars

\* Every awaited promise settles (the database and the model provider answer or fail), so
\* a turn that has arrived goes on; messages and requests may never come.
FairSpec == Spec /\ \A t \in Turns : WF_vars(Turn(t))

-----------------------------------------------------------------------------
(* Properties. *)

\* The type invariant.
TypeOK ==
    /\ ai \in AiStates /\ until \in Times /\ summary \in Requests \cup {NoSummary}
    /\ fails \in 0..Threshold - 1
    /\ now \in 0..Horizon
    /\ tpc \in [Turns -> {"idle", "gate", "resumed", "open", "generating", "escalating",
                          "recording", "ended"}]
    /\ seen \in [Turns -> Row]
    /\ again \in [Turns -> BOOLEAN]
    /\ why \in [Turns -> {"none", "tool", "thrown", "empty", "voice"}]
    /\ reply \in [Turns -> {"none", "silent", "answer", "resend", "handoff", "fallback"}]
    /\ resets \subseteq Turns /\ clears \subseteq Turns
    /\ alerted \subseteq Turns /\ told \subseteq Requests
    /\ act \in [Requests -> Acts \cup {"none"}]

\* The customer reads "a colleague takes over" only when the staff were alerted to it.
HandoffLineTruthful ==
    \A t \in Turns : reply[t] = "handoff" => t \in alerted

\* However turns overlap and whatever resets land late, a voice note is handed to a human
\* only after the customer was asked Threshold - 1 times to send another one.
VoiceHandoffEarned ==
    \A t \in Turns : why[t] = "voice" =>
        Cardinality({u \in Turns : reply[u] = "resend"}) >= Threshold - 1

\* The human's wrap-up survives turns whose generation threw: the only wrap-up there has
\* been is never cleared before a generation that had it in its prompt has returned.
WrapUpNotLost ==
    [][(summary # NoSummary /\ summary' = NoSummary
        /\ Cardinality({r \in Requests : act[r] = "resumeSummary"}) = 1)
          => summary \in told]_vars

\* Without timed pauses the bot never takes a conversation back from a human by itself.
HumanHeldWithoutTimedPause ==
    [][(ai = "human" /\ ai' # "human" /\ \A r \in Requests : act[r] # "pauseTimed")
          => act' # act]_vars

\* A message that finds the bot on, or a pause that has run out, gets a reply: an answer,
\* a prompt, the handoff line or the fallback, whatever fails on the way.
NeverSilent ==
    \A t \in Turns : (tpc[t] = "gate" /\ (seen[t].ai = "bot" \/ Elapsed(t)))
                        ~> reply[t] \notin {"none", "silent"}

-----------------------------------------------------------------------------
(* What the documents and comments say, and the code does not keep. *)

\* docs/handoff-design.md: ai_state = 'human' means the AI is silent until resumed.
HumanUntilResumed ==
    [][(ai = "human" /\ ai' # "human") => act' # act]_vars

\* conversations.service.ts: the summary is cleared after it has been injected.
SummaryInjectedBeforeCleared ==
    [][(summary # NoSummary /\ summary' = NoSummary) => summary \in told]_vars

\* agent.service.ts: when the escalation write itself fails, the customer still gets the
\* fallback and the bot stays on.  Stated for a single turn and no admin.
FailedEscalationLeavesBotOn ==
    [][\A t \in Turns : (why[t] \in {"thrown", "empty"} /\ reply[t] # reply'[t]
                            /\ reply'[t] = "fallback")
          => ai' = "bot"]_vars
=============================================================================
