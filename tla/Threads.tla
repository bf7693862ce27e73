------------------------------- MODULE Threads -------------------------------
(***************************************************************************)
(* The stored side of a conversation: the conversations rows, the message  *)
(* log, the state jsonb, and Mastra's memory of the customer, as inbound   *)
(* turns, human-agent messages and the panel's reset, delete and pin use   *)
(* them.                                                                   *)
(*                                                                         *)
(* Each repository call is one transaction, hence one step; nothing holds  *)
(* across two calls.  What a handler read earlier stays in its own record. *)
(* persistAttribution and the lastProductIds merge are not awaited by the  *)
(* turn that starts them and have steps of their own.  The rules by which  *)
(* ai_state changes are in Handover; here it is what gates a turn and a    *)
(* human message.                                                          *)
(***************************************************************************)
EXTENDS Naturals, FiniteSets, FiniteSetsExt

CONSTANTS Turns,       \* inbound turns (one flushed batch each)
          Clicks,      \* events that carry a referral and nothing else
          PsidOf,      \* PsidOf[t]: the customer a turn or click is of
          MidOf,       \* MidOf[t]: the Messenger message id, or None
          ContentOf,   \* ContentOf[t]: its normalised text and media
          ReferralOf,  \* ReferralOf[t]: the ad its event names, or None
          Debounced,   \* whether turns come through the debounce buffer, as all
                       \* Messenger turns do, or from a direct caller of handleMessage
          Shows,       \* the turns whose answer shows products
          PublishedAds,\* the ads whose product is found by SKU and published
          Sends,       \* requests to send a human-agent message
          KeyOf,       \* KeyOf[s]: its Idempotency-Key, or the hash of text and minute
          Wipes,       \* the panel's reset and delete requests
          None,        \* what an optional value is when absent
          MaxRows,     \* bound: conversations rows ever inserted
          MaxWindows   \* bound: 10-second dedup windows that go by

ASSUME ThreadsAssumption ==
    /\ MaxRows \in Nat \ {0} /\ MaxWindows \in Nat /\ Debounced \in BOOLEAN
    /\ None \notin 1..MaxRows \cup Turns
    /\ Sends \cap Turns = {} /\ \A s \in Sends : KeyOf[s] # None

VARIABLES
    rows,      \* rows[i]: the i-th conversation inserted, or None when there is none
    born,      \* how many were inserted; created_at order is the order of i
    log,       \* the messages rows
    memory,    \* memory[p]: the turns Mastra remembers of customer p
    turn,      \* turn[t]: how far handleMessage has come, and what it read
    touch,     \* touch[t]: its unawaited persistAttribution
    click,     \* click[k]: how far persistAttributionOnly has come
    shown,     \* shown[t]: its unawaited mergeState of lastProductIds
    send,      \* send[s]: how far sendHumanMessage has come
    sent,      \* history: the human messages the customer received
    wipe,      \* wipe[w]: how far resetMemory or deleteConversation has come
    window     \* the current dedup window

requests == <<send, sent>>
turnVars == <<turn, touch, click, shown>>
vars == <<rows, born, log, memory, turnVars, requests, wipe, window>>

Psids == {PsidOf[t] : t \in Turns \cup Clicks}
Ids == 1..MaxRows
Ads == {ReferralOf[t] : t \in Turns \cup Clicks} \ {None}

\* conversations.state, as far as its keys matter to another component: the
\* products shown last and the product of the ad.
State == [lastProductIds : Turns \cup {None}, adProduct : Ads \cup {None}]
EmptyState == [lastProductIds |-> None, adProduct |-> None]
Row == [psid : Psids, state : State, adId : Ads \cup {None}, pinned : BOOLEAN, bot : BOOLEAN]
ASSUME NoRowIsNone == None \notin Row

NewRow(p) == [psid |-> p, state |-> EmptyState, adId |-> None, pinned |-> FALSE, bot |-> TRUE]

Existing == {i \in Ids : rows[i] # None}

Init ==
    /\ rows = [i \in Ids |-> None]
    /\ born = 0
    /\ log = {}
    /\ memory = [p \in Psids |-> [working |-> {}, thread |-> {}]]
    /\ turn = [t \in Turns |-> [pc |-> "new", conv |-> None, bot |-> TRUE, key |-> None, missed |-> None,
                             recalled |-> {}]]
    /\ touch = [t \in Turns |-> "none"]
    /\ click = [k \in Clicks |-> [pc |-> "new", conv |-> None]]
    /\ shown = [t \in Turns |-> "none"]
    /\ send = [s \in Sends |-> [pc |-> "new", conv |-> None]]
    /\ sent = {}
    /\ wipe = [w \in Wipes |-> [pc |-> "new", kind |-> "reset", conv |-> None, psid |-> None,
                          failed |-> FALSE, over |-> {}, past |-> {}]]
    /\ window = 0

-----------------------------------------------------------------------------
(* What one repository call does.                                          *)

\* The rows of a customer; conversations_tenant_psid_idx is no unique index.
OfPsid(p) == {i \in Existing : rows[i].psid = p}

\* Mutant: only a thread the bot may answer is reused.
FindByPsid_botOnly(p) ==
    IF \E i \in OfPsid(p) : rows[i].bot THEN Max({i \in OfPsid(p) : rows[i].bot}) ELSE None
\* findConversationByPsid: the most recent one.
FindByPsid(p) == IF OfPsid(p) = {} THEN None ELSE Max(OfPsid(p))

\* An UPDATE by id of a row that is gone changes nothing.
Update(c, row) == rows' = IF c \in Existing THEN [rows EXCEPT ![c] = row] ELSE rows

\* The partial unique index on (conversation_id, external_id).
KeyTaken(c, k) == \E m \in log : m.conv = c /\ m.key = k
FindMessageByExternalId(c, k) == k # None /\ KeyTaken(c, k)

\* getThread: the messages the panel shows for a conversation.
Thread(c) == {m \in log : m.conv = c}

\* Mutant: no unique index.
Insertable_noIndex(m) == m.conv \in Existing
\* insertMessage fails on a conversation that is gone (foreign key) and on a
\* key that is taken (unique index); a row without a key never collides.
Insertable(m) == m.conv \in Existing /\ (m.key = None \/ ~KeyTaken(m.conv, m.key))
Message(c, k, r, by) == [conv |-> c, key |-> k, role |-> r, by |-> by]

\* mergeConversationState: one statement, coalesce(state, '{}') || patch.
MergeState(c, key, value) == Update(c, [rows[c] EXCEPT !.state[key] = value])

\* Mutant: the UPDATE without attributed_at IS NULL.
Attributable_overwrites(c) == c \in Existing
\* recordFirstTouchAttribution: one UPDATE ... WHERE attributed_at IS NULL.
Attributable(c) == c \in Existing /\ rows[c].adId = None

\* Mutant: no cascade.
DeleteRow_orphans(c) == rows' = [rows EXCEPT ![c] = None] /\ UNCHANGED log
\* deleteConversationById: the messages go with the row.
DeleteRow(c) ==
    /\ rows' = [rows EXCEPT ![c] = None]
    /\ log' = log \ Thread(c)

-----------------------------------------------------------------------------
(* handleMessage.                                                          *)

\* The input that reaches handleMessage: mergeTurns makes one of the events of a
\* batch and leaves their referrals out.
Referral(t) == IF Debounced THEN None ELSE ReferralOf[t]

\* The turn goes on in conversation c with the row it read; a referral starts
\* persistAttribution beside it.
Enter(t, c, bot) ==
    /\ turn' = [turn EXCEPT ![t].pc = "lookup", ![t].conv = c, ![t].bot = bot]
    /\ touch' = [touch EXCEPT ![t] = IF Referral(t) = None THEN "none" ELSE "record"]

\* findOrCreateByPsid, first half: reuse the thread of the customer.
FindThread(t) ==
    LET c == FindByPsid(PsidOf[t]) IN
    /\ turn[t].pc = "new"
    /\ IF c # None
         THEN Enter(t, c, rows[c].bot)
         ELSE /\ turn' = [turn EXCEPT ![t].pc = "create", ![t].missed = born]
              /\ UNCHANGED touch
    /\ UNCHANGED <<rows, born, log, memory, click, shown, requests, wipe, window>>

\* findOrCreateByPsid, second half: nothing keeps psid unique.
CreateThread(t) ==
    /\ turn[t].pc = "create" /\ born < MaxRows
    /\ born' = born + 1
    /\ rows' = [rows EXCEPT ![born + 1] = NewRow(PsidOf[t])]
    /\ Enter(t, born + 1, TRUE)
    /\ UNCHANGED <<log, memory, click, shown, requests, wipe, window>>

\* computeDedupKey: the provider's id, else a hash of sender, text, media and window.
DedupKey(t) == IF MidOf[t] # None THEN <<"mid", MidOf[t]>>
               ELSE <<"hash", PsidOf[t], ContentOf[t], window>>

Logged(t) == FindMessageByExternalId(turn[t].conv, DedupKey(t))

\* The duplicate check; a logged key ends the turn in silence.  What is not read
\* again goes back to its first value.
Lookup(t) ==
    /\ turn[t].pc = "lookup"
    /\ turn' = [turn EXCEPT ![t].bot = TRUE,
         ![t].pc = IF Logged(t) THEN "done" ELSE IF turn[t].bot THEN "inbound" ELSE "silent",
         ![t].key = IF Logged(t) THEN None ELSE DedupKey(t)]
    /\ UNCHANGED <<rows, born, log, memory, touch, click, shown, requests, wipe, window>>

\* logTurn swallows a failed insert.
LogRow(m) == log' = IF Insertable(m) THEN log \cup {m} ELSE log

\* The gate is closed: the message is logged for the human, nothing is answered.
LogSilent(t) ==
    /\ turn[t].pc = "silent"
    /\ LogRow(Message(turn[t].conv, turn[t].key, "customer", t))
    /\ turn' = [turn EXCEPT ![t].pc = "done", ![t].key = None]
    /\ UNCHANGED <<rows, born, memory, touch, click, shown, requests, wipe, window>>

LogInbound(t) ==
    /\ turn[t].pc = "inbound"
    /\ LogRow(Message(turn[t].conv, turn[t].key, "customer", t))
    /\ turn' = [turn EXCEPT ![t].pc = "generate", ![t].key = None]
    /\ UNCHANGED <<rows, born, memory, touch, click, shown, requests, wipe, window>>

\* generate() with { resource: psid, thread: "thread:" + psid }, which is awaited.  First
\* Mastra recalls working memory and thread into the prompt.
BeginGenerate(t) ==
    LET known == memory[PsidOf[t]] IN
    /\ turn[t].pc \in {"generate", "again"}
    /\ turn' = [turn EXCEPT ![t].pc = IF turn[t].pc = "again" THEN "retrying" ELSE "generating",
         ![t].recalled = known.working \cup known.thread]
    /\ UNCHANGED <<rows, born, log, memory, touch, click, shown, requests, wipe, window>>

Generating(t) == turn[t].pc \in {"generating", "retrying"}

\* The model calls updateWorkingMemory with what it has been told in this turn and what it
\* recalls of earlier ones; what was there is merged with it or overwritten.
UpdateWorkingMemory(t) ==
    /\ Generating(t)
    /\ \E learnt \in SUBSET (memory[PsidOf[t]].working \cup turn[t].recalled \cup {t}) :
         memory' = [memory EXCEPT ![PsidOf[t]].working = learnt]
    /\ UNCHANGED <<rows, born, log, turn, touch, click, shown, requests, wipe, window>>

Remember(t, said) == memory' = [memory EXCEPT ![PsidOf[t]].thread = @ \cup said]

\* At its end the exchange is saved to the thread, with what the answer and the tool calls
\* repeat of earlier turns.  An empty reply is generated once more.
EndGenerate(t) ==
    /\ Generating(t)
    /\ \E said \in SUBSET turn[t].recalled : Remember(t, said \cup {t})
    /\ \E to \in {"reply", "again"} :
         /\ to = "again" => turn[t].pc = "generating"
         /\ turn' = [turn EXCEPT ![t].pc = to]
    /\ UNCHANGED <<rows, born, log, touch, click, shown, requests, wipe, window>>

\* It throws: its own message may have been saved by then.
FailGenerate(t) ==
    /\ Generating(t)
    /\ \E said \in {{}, {t}} : Remember(t, said)
    /\ turn' = [turn EXCEPT ![t].pc = "sorry"]
    /\ UNCHANGED <<rows, born, log, touch, click, shown, requests, wipe, window>>

Generate(t) == BeginGenerate(t) \/ UpdateWorkingMemory(t) \/ EndGenerate(t) \/ FailGenerate(t)

\* The reply row, without a key, and the start of the lastProductIds merge, which a failed
\* turn (finishFailedTurn) has no products for.
LogReply(t) ==
    /\ turn[t].pc \in {"reply", "sorry"}
    /\ LogRow(Message(turn[t].conv, None, "agent", t))
    /\ shown' = [shown EXCEPT ![t] = IF t \in Shows /\ turn[t].pc = "reply" THEN "merge" ELSE "none"]
    /\ turn' = [turn EXCEPT ![t].pc = "done"]
    /\ UNCHANGED <<rows, born, memory, touch, click, requests, wipe, window>>

MergeShown(t) ==
    /\ shown[t] = "merge"
    /\ MergeState(turn[t].conv, "lastProductIds", t)
    /\ shown' = [shown EXCEPT ![t] = "none"]
    /\ UNCHANGED <<born, log, memory, turn, touch, click, requests, wipe, window>>

\* findPublishedBySku for the product_id of the ad; a draft is as none.
HasProduct(ad) == ad \in PublishedAds

\* Mutant: the product is resolved whether or not this referral was the first.
RecordFirstTouch_goesOn(t) ==
    LET c == turn[t].conv IN
    /\ touch[t] = "record"
    /\ IF Attributable(c) THEN Update(c, [rows[c] EXCEPT !.adId = ReferralOf[t]]) ELSE UNCHANGED rows
    /\ touch' = [touch EXCEPT ![t] = IF HasProduct(ReferralOf[t]) THEN "merge" ELSE "none"]
    /\ UNCHANGED <<born, log, memory, turn, click, shown, requests, wipe, window>>
\* persistAttribution: the first to record is the only one to go on.
RecordFirstTouch(t) ==
    LET c == turn[t].conv IN
    /\ touch[t] = "record"
    /\ IF Attributable(c)
         THEN /\ Update(c, [rows[c] EXCEPT !.adId = ReferralOf[t]])
              /\ touch' = [touch EXCEPT ![t] = IF HasProduct(ReferralOf[t]) THEN "merge" ELSE "none"]
         ELSE touch' = [touch EXCEPT ![t] = "none"] /\ UNCHANGED rows
    /\ UNCHANGED <<born, log, memory, turn, click, shown, requests, wipe, window>>

MergeAdProduct(t) ==
    /\ touch[t] = "merge"
    /\ MergeState(turn[t].conv, "adProduct", ReferralOf[t])
    /\ touch' = [touch EXCEPT ![t] = "none"]
    /\ UNCHANGED <<born, log, memory, turn, click, shown, requests, wipe, window>>

\* persistAttributionOnly: the same thread lookup and UPDATE, and no product.
OpenClick(k) ==
    LET c == FindByPsid(PsidOf[k]) IN
    /\ click[k].pc = "new"
    /\ click' = [click EXCEPT ![k] = IF c # None THEN [pc |-> "record", conv |-> c]
                                     ELSE [pc |-> "create", conv |-> None]]
    /\ UNCHANGED <<rows, born, log, memory, turn, touch, shown, requests, wipe, window>>

CreateForClick(k) ==
    /\ click[k].pc = "create" /\ born < MaxRows
    /\ born' = born + 1
    /\ rows' = [rows EXCEPT ![born + 1] = NewRow(PsidOf[k])]
    /\ click' = [click EXCEPT ![k] = [pc |-> "record", conv |-> born + 1]]
    /\ UNCHANGED <<log, memory, turn, touch, shown, requests, wipe, window>>

RecordClick(k) ==
    LET c == click[k].conv IN
    /\ click[k].pc = "record"
    /\ IF Attributable(c) THEN Update(c, [rows[c] EXCEPT !.adId = ReferralOf[k]]) ELSE UNCHANGED rows
    /\ click' = [click EXCEPT ![k].pc = "done"]
    /\ UNCHANGED <<born, log, memory, turn, touch, shown, requests, wipe, window>>

Attribute(k) == OpenClick(k) \/ CreateForClick(k) \/ RecordClick(k)

NextWindow ==
    /\ window < MaxWindows
    /\ window' = window + 1
    /\ UNCHANGED <<rows, born, log, memory, turnVars, requests, wipe>>

Handle(t) ==
    \/ FindThread(t) \/ CreateThread(t) \/ Lookup(t) \/ LogSilent(t) \/ LogInbound(t)
    \/ Generate(t) \/ LogReply(t) \/ MergeShown(t) \/ RecordFirstTouch(t) \/ MergeAdProduct(t)

-----------------------------------------------------------------------------
(* sendHumanMessage.                                                       *)

AskSend(s) ==
    \E c \in Existing :
        /\ send[s].pc = "new"
        /\ send' = [send EXCEPT ![s] = [pc |-> IF rows[c].bot THEN "refused" ELSE "lookup", conv |-> c]]
        /\ UNCHANGED <<rows, born, log, memory, turnVars, sent, wipe, window>>

SendStep(s, from, to) == send[s].pc = from /\ send' = [send EXCEPT ![s].pc = to]

\* The idempotency check: a logged key is acknowledged and not sent again.
LookupKey(s) ==
    /\ SendStep(s, "lookup", IF FindMessageByExternalId(send[s].conv, KeyOf[s]) THEN "duplicate" ELSE "insert")
    /\ UNCHANGED <<rows, born, log, memory, turnVars, sent, wipe, window>>

\* Mutant: the insert is best-effort, as it is for a turn.
PersistHuman_bestEffort(s) ==
    /\ SendStep(s, "insert", "send")
    /\ LogRow(Message(send[s].conv, KeyOf[s], "human", s))
    /\ UNCHANGED <<rows, born, memory, turnVars, sent, wipe, window>>
\* addMessage before the send; a failed insert ends the request.
PersistHuman(s) ==
    LET m == Message(send[s].conv, KeyOf[s], "human", s) IN
    /\ IF Insertable(m)
         THEN SendStep(s, "insert", "send") /\ log' = log \cup {m}
         ELSE SendStep(s, "insert", "error") /\ UNCHANGED log
    /\ UNCHANGED <<rows, born, memory, turnVars, sent, wipe, window>>

\* sendText, as a plain response or under the HUMAN_AGENT tag; a failure is reported.
SendText(s) ==
    /\ SendStep(s, "send", "event")
    /\ sent' \in {sent, sent \cup {s}}
    /\ UNCHANGED <<rows, born, log, memory, turnVars, wipe, window>>

\* recordEvent fails on a conversation that is gone; the message went out anyway.
RecordSent(s) ==
    /\ SendStep(s, "event", IF send[s].conv \in Existing THEN "replied" ELSE "error")
    /\ UNCHANGED <<rows, born, log, memory, turnVars, sent, wipe, window>>

Dispatch(s) == AskSend(s) \/ LookupKey(s) \/ PersistHuman(s) \/ SendText(s) \/ RecordSent(s)

-----------------------------------------------------------------------------
(* resetMemory and deleteConversation.                                     *)

\* A turn that is over, with nothing left running behind it.
Over(t) == turn[t].pc = "done" /\ touch[t] = "none" /\ shown[t] = "none"

\* A turn that will write to the agent's memory no more.
Answered(t) == turn[t].pc \in {"reply", "sorry", "done"}

\* getById; the turns that are over by now, or past their generation, are kept for the
\* property.
AskWipe(w, kind) ==
    \E c \in Existing :
        /\ wipe[w].pc = "new"
        /\ wipe' = [wipe EXCEPT ![w] = [pc |-> "working", kind |-> kind, conv |-> c, psid |-> rows[c].psid,
             failed |-> FALSE, over |-> {t \in Turns : Over(t)}, past |-> {t \in Turns : Answered(t)}]]
        /\ UNCHANGED <<rows, born, log, memory, turnVars, requests, window>>

\* resetConversationMemory: both halves are tried, a failure is raised after both.
WipeWorking(w) ==
    /\ wipe[w].pc = "working"
    /\ \E ok \in BOOLEAN :
         /\ wipe' = [wipe EXCEPT ![w].pc = "thread", ![w].failed = ~ok]
         /\ memory' = IF ok THEN [memory EXCEPT ![wipe[w].psid].working = {}] ELSE memory
    /\ UNCHANGED <<rows, born, log, turnVars, requests, window>>

\* Mutant: a failure of the first half is logged only.
AfterMemory_lastOnly(w, ok) ==
    IF ~ok THEN "failed" ELSE IF wipe[w].kind = "reset" THEN "state" ELSE "row"
\* Success only when both halves succeeded.
AfterMemory(w, ok) ==
    IF wipe[w].failed \/ ~ok THEN "failed"
    ELSE IF wipe[w].kind = "reset" THEN "state" ELSE "row"

WipeThread(w) ==
    /\ wipe[w].pc = "thread"
    /\ \E ok \in BOOLEAN :
         /\ wipe' = [wipe EXCEPT ![w].pc = AfterMemory(w, ok), ![w].failed = FALSE]
         /\ memory' = IF ok THEN [memory EXCEPT ![wipe[w].psid].thread = {}] ELSE memory
    /\ UNCHANGED <<rows, born, log, turnVars, requests, window>>

\* updateState(id, {}) raises NotFound when the row is gone.
ClearState(w) ==
    LET c == wipe[w].conv IN
    /\ wipe[w].pc = "state"
    /\ Update(c, [rows[c] EXCEPT !.state = EmptyState])
    /\ wipe' = [wipe EXCEPT ![w].pc = IF c \in Existing THEN "messages" ELSE "failed"]
    /\ UNCHANGED <<born, log, memory, turnVars, requests, window>>

DeleteMessages(w) ==
    /\ wipe[w].pc = "messages"
    /\ log' = log \ Thread(wipe[w].conv)
    /\ wipe' = [wipe EXCEPT ![w].pc = "event"]
    /\ UNCHANGED <<rows, born, memory, turnVars, requests, window>>

RecordReset(w) ==
    /\ wipe[w].pc = "event"
    /\ wipe' = [wipe EXCEPT ![w].pc = IF wipe[w].conv \in Existing THEN "ok" ELSE "failed"]
    /\ UNCHANGED <<rows, born, log, memory, turnVars, requests, window>>

\* Whether a row was removed is not looked at.
DeleteConversation(w) ==
    /\ wipe[w].pc = "row"
    /\ DeleteRow(wipe[w].conv)
    /\ wipe' = [wipe EXCEPT ![w].pc = "ok"]
    /\ UNCHANGED <<born, memory, turnVars, requests, window>>

AskReset(w) == AskWipe(w, "reset")
AskDelete(w) == AskWipe(w, "delete")
Wipe(w) ==
    \/ AskReset(w) \/ AskDelete(w) \/ WipeWorking(w) \/ WipeThread(w) \/ ClearState(w)
    \/ DeleteMessages(w) \/ RecordReset(w) \/ DeleteConversation(w)

-----------------------------------------------------------------------------
\* setPinned: no ai_state change, no event.
SetPinned(c, pinned) ==
    /\ Update(c, [rows[c] EXCEPT !.pinned = pinned])
    /\ UNCHANGED <<born, log, memory, turnVars, requests, wipe, window>>

\* setAiState, by whoever pauses, hands off or resumes.
SetAiState(c, bot) ==
    /\ Update(c, [rows[c] EXCEPT !.bot = bot])
    /\ UNCHANGED <<born, log, memory, turnVars, requests, wipe, window>>

Panel == \E c \in Existing, b \in BOOLEAN : SetPinned(c, b) \/ SetAiState(c, b)

Next ==
    \/ \E t \in Turns : Handle(t)
    \/ \E k \in Clicks : Attribute(k)
    \/ \E s \in Sends : Dispatch(s)
    \/ \E w \in Wipes : Wipe(w)
    \/ NextWindow \/ Panel

Spec == Init /\ [][Next]_vars

-----------------------------------------------------------------------------
\* Every record holds what its place in the code allows.
TypeOK ==
    /\ rows \in [Ids -> Row \cup {None}] /\ born \in 0..MaxRows /\ window \in 0..MaxWindows
    /\ \A m \in log : m.conv \in Existing /\ m.role \in {"customer", "agent", "human"}
    /\ \A m, n \in log : m.conv = n.conv /\ m.key = n.key /\ m.key # None => m = n
    /\ \A p \in Psids : memory[p].working \cup memory[p].thread \subseteq Turns
    /\ \A t \in Turns : turn[t].pc \notin {"new", "create"} => turn[t].conv \in 1..born
    /\ \A t \in Turns : turn[t].recalled \subseteq Turns
    /\ touch \in [Turns -> {"none", "record", "merge"}] /\ shown \in [Turns -> {"none", "merge"}]

\* First-touch attribution is set once: whatever referrals arrive, in whatever
\* order their unawaited writes land, the ad of a conversation never changes
\* (recordFirstTouchAttribution).
FirstTouchKept ==
    [][\A i \in Ids : i \in Existing /\ rows'[i] # None /\ rows[i].adId # None
         => rows'[i].adId = rows[i].adId]_rows

\* The advertised product the agent is told of is the one of the recorded ad,
\* though the two columns are written by separate statements and a reset may
\* come between them (persistAttribution stops when it was not first).
AdProductOfFirstTouch ==
    \A i \in Existing : rows[i].state.adProduct # None => rows[i].state.adProduct = rows[i].adId

\* A customer gets a second thread only from first messages handled at once: the
\* turn that opened it had looked before the older thread was there
\* (findOrCreateByPsid).
SplitOnlyByRace ==
    \A t \in Turns : turn[t].missed # None =>
        \A i \in OfPsid(PsidOf[t]) : i <= turn[t].missed => turn[t].conv = None \/ turn[t].conv = i

\* One Idempotency-Key, one Messenger send: two identical requests, however
\* they interleave, never both reach the customer unless the log was wiped
\* between them (sendHumanMessage and the unique index).
LogWiped(c) ==
    \/ c \notin Existing
    \/ \E w \in Wipes : wipe[w].conv = c /\ wipe[w].kind = "reset" /\ wipe[w].pc \in {"event", "ok", "failed"}
HumanSentOnce ==
    \A s, r \in sent : s # r /\ KeyOf[s] = KeyOf[r] /\ send[s].conv = send[r].conv => LogWiped(send[s].conv)

\* What a human agent told the customer stays in the thread unless the thread
\* was wiped: the row is written before the send (sendHumanMessage).
HumanWordKept ==
    \A s \in sent : LogWiped(send[s].conv) \/ \E m \in Thread(send[s].conv) : m.by = s

\* A turn that a wipe finds under way, or that comes while it runs, and that recalls t.
Carried(w, t) ==
    \E u \in Turns \ wipe[w].past : PsidOf[u] = wipe[w].psid /\ t \in turn[u].recalled

\* A reset or delete that reports success has removed what the turns before it left behind,
\* for good: their messages, their products, and what the agent remembers of them, in working
\* memory and thread alike, unless a generation under way beside the wipe had recalled it and
\* writes it back (resetConversationMemory raises what fails).
WipedForgets ==
    \A w \in Wipes : wipe[w].pc = "ok" =>
        /\ \A t \in wipe[w].past :
             t \in memory[wipe[w].psid].working \cup memory[wipe[w].psid].thread => Carried(w, t)
        /\ \A t \in wipe[w].over :
             /\ \A m \in Thread(wipe[w].conv) : m.by # t
             /\ wipe[w].conv \in Existing => rows[wipe[w].conv].state.lastProductIds # t

\* "Persisted on the conversation row", of a first message from an ad too
\* (docs/messenger-setup.md): when a turn whose event named an ad is over, its
\* conversation has an ad.
FirstTouchRecorded ==
    \A t \in Turns : ReferralOf[t] # None /\ Over(t) /\ turn[t].conv \in Existing
        => rows[turn[t].conv].adId # None
=============================================================================
