------------------------------- MODULE Inbound -------------------------------
(***************************************************************************)
(* From a Messenger webhook to one agent turn: the webhook's dedup, the    *)
(* in-memory DebounceService, mergeTurns, and the dedup by messages row    *)
(* inside AgentService.handleMessage.                                      *)
(*                                                                         *)
(* One customer (one debounce key).  Meta may deliver a message or a       *)
(* postback more than once; the webhook has answered 200 by then, so what  *)
(* a dying process loses is not sent again.  Time is what the buffer sees  *)
(* of it: how old the batch is, how long ago its last item came, how long  *)
(* its timer has left; a timer that is due fires before time goes on.      *)
(* Turns run concurrently: fire() does not wait for the flush.             *)
(***************************************************************************)
EXTENDS Naturals, Sequences, SequencesExt

CONSTANTS Mids,           \* Messenger messages, by their id
          Postbacks,      \* postbacks: content that carries no message id
          Window,         \* DEBOUNCE_WINDOW_MS
          MaxWait,        \* DEBOUNCE_MAX_MS, possibly shorter than Window
          MaxSent,        \* bound: how many events Meta sends, one more than once
          MaxCrashes      \* bound: how often the process goes down

\* No message id reads like the "i0" that stands for an item without one.
ASSUME InboundAssumption ==
    /\ Mids \cap (Nat \cup Postbacks) = {}
    /\ Window \in Nat /\ MaxWait \in Nat
    /\ MaxSent \in Nat /\ MaxCrashes \in Nat

VARIABLES
    buffer,      \* the items of the open batch, in arrival order; <<>> when there is none
    age,         \* time since the first item of the batch (Date.now() - firstAt)
    quiet,       \* time since its last item
    left,        \* time until its timer is due
    turns,       \* the flushed batches and how far each has come
    rows,        \* messages.external_id of the customer rows
    sent,        \* how many events Meta has sent
    crashes,     \* how often the process went down
    accepted     \* history: every item enqueued, in order

timing == <<age, quiet, left>>
vars == <<buffer, timing, turns, rows, sent, crashes, accepted>>

\* What a customer sends.
Items == Mids \cup Postbacks

\* A batch in the hands of handleMessage, and what can become of it.
Running == {"flushed", "working", "logged"}
Settled == {"replied", "duplicate", "lost"}

Init ==
    /\ buffer = <<>>
    /\ age = 0 /\ quiet = 0 /\ left = 0
    /\ turns = <<>>
    /\ rows = {}
    /\ sent = 0
    /\ crashes = 0
    /\ accepted = <<>>

-----------------------------------------------------------------------------
(* The webhook and the debounce buffer. *)

\* Each message id once, at its first place, and every item that has none: `seen` in the
\* request, and again in mergeTurns.
Dedupe(items) ==
    LET kept[i \in 0..Len(items)] ==
          IF i = 0 THEN <<>>
          ELSE IF items[i] \in Mids \cap ToSet(kept[i-1]) THEN kept[i-1] ELSE Append(kept[i-1], items[i])
    IN kept[Len(items)]

\* The delay of the timer that enqueue arms for a batch of age a.
Delay_uncapped(a) == Window
Delay(a) == IF a >= MaxWait THEN 0
            ELSE IF MaxWait - a < Window THEN MaxWait - a ELSE Window

\* handleWebhook: one POST, whose events are enqueued one after the other, synchronously.
\* Every enqueue re-arms the timer of the batch.
Post_timerKept(events) ==
    /\ sent + Len(events) <= MaxSent
    /\ sent' = sent + Len(events)
    /\ buffer' = buffer \o Dedupe(events)
    /\ accepted' = accepted \o Dedupe(events)
    /\ age' = (IF buffer = <<>> THEN 0 ELSE age)
    /\ left' = (IF buffer = <<>> THEN Delay(0) ELSE left)
    /\ quiet' = 0
    /\ UNCHANGED <<turns, rows, crashes>>
Post(events) ==
    /\ sent + Len(events) <= MaxSent
    /\ sent' = sent + Len(events)
    /\ buffer' = buffer \o Dedupe(events)
    /\ accepted' = accepted \o Dedupe(events)
    /\ age' = (IF buffer = <<>> THEN 0 ELSE age)
    /\ left' = Delay(age')
    /\ quiet' = 0
    /\ UNCHANGED <<turns, rows, crashes>>

\* Time passes until the timer of the batch is due.
Tick ==
    /\ buffer # <<>> /\ left > 0
    /\ age' = age + 1 /\ quiet' = quiet + 1 /\ left' = left - 1
    /\ UNCHANGED <<buffer, turns, rows, sent, crashes, accepted>>

\* fire: the batch leaves the map before its flush runs, and the flush is not awaited.
Fire_keepsBatch ==
    /\ buffer # <<>> /\ left = 0
    /\ turns' = Append(turns, [items |-> buffer, phase |-> "flushed"])
    /\ age' = 0 /\ quiet' = 0 /\ left' = Window
    /\ UNCHANGED <<buffer, rows, sent, crashes, accepted>>
Fire_onlyAfterQuiet ==
    /\ buffer # <<>> /\ left = 0 /\ quiet >= Window
    /\ turns' = Append(turns, [items |-> buffer, phase |-> "flushed"])
    /\ buffer' = <<>>
    /\ age' = 0 /\ quiet' = 0 /\ left' = 0
    /\ UNCHANGED <<rows, sent, crashes, accepted>>
Fire ==
    /\ buffer # <<>> /\ left = 0
    /\ turns' = Append(turns, [items |-> buffer, phase |-> "flushed"])
    /\ buffer' = <<>>
    /\ age' = 0 /\ quiet' = 0 /\ left' = 0
    /\ UNCHANGED <<rows, sent, crashes, accepted>>

\* The process stops: onModuleDestroy clears the timers and the map without a flush, a
\* crash does the same, and the turns under way are not taken up again.
Crash ==
    /\ crashes < MaxCrashes
    /\ crashes' = crashes + 1
    /\ turns' = [i \in DOMAIN turns |->
                   IF turns[i].phase \in Running THEN [turns[i] EXCEPT !.phase = "lost"]
                   ELSE turns[i]]
                \o (IF buffer = <<>> THEN <<>>
                    ELSE <<[items |-> buffer, phase |-> "lost"]>>)
    /\ buffer' = <<>>
    /\ age' = 0 /\ quiet' = 0 /\ left' = 0
    /\ UNCHANGED <<rows, sent, accepted>>

-----------------------------------------------------------------------------
(* handleMessage, as far as the dedup goes. *)

\* mergeTurns: the external id of a batch names what it merges, a message by its id and an
\* item that has none by its place.
BatchKey_content(i) == Dedupe(turns[i].items)
BatchKey_first(i) == IF turns[i].items[1] \in Mids THEN <<turns[i].items[1]>> ELSE <<0>>
BatchKey(i) ==
    LET batch == Dedupe(turns[i].items)
    IN [j \in DOMAIN batch |-> IF batch[j] \in Mids THEN batch[j] ELSE j - 1]

Moves(i, phase) == turns' = [turns EXCEPT ![i].phase = phase]

\* findMessageByExternalId: a batch that was logged before is dropped without a reply.
Lookup(i) ==
    /\ turns[i].phase = "flushed"
    /\ Moves(i, IF BatchKey(i) \in rows THEN "duplicate" ELSE "working")
    /\ UNCHANGED <<buffer, timing, rows, sent, crashes, accepted>>

\* logTurn of the customer's row.  An insert that fails, be it by the unique index, is
\* logged and ignored.
LogTurn(i) ==
    /\ turns[i].phase = "working"
    /\ Moves(i, "logged")
    /\ rows' \in {rows, rows \cup {BatchKey(i)}}
    /\ UNCHANGED <<buffer, timing, sent, crashes, accepted>>

\* The reply, whatever it is, goes out (Handover says which one).
Reply(i) ==
    /\ turns[i].phase = "logged"
    /\ Moves(i, "replied")
    /\ UNCHANGED <<buffer, timing, rows, sent, crashes, accepted>>

\* A query before the log throws out of handleMessage: processBatch sends FALLBACK_REPLY,
\* and no row remembers the batch.
FailTurn(i) ==
    /\ turns[i].phase \in {"flushed", "working"}
    /\ Moves(i, "replied")
    /\ UNCHANGED <<buffer, timing, rows, sent, crashes, accepted>>

Turn(i) == Lookup(i) \/ LogTurn(i) \/ Reply(i) \/ FailTurn(i)

\* Nothing is left to do; only this state may be the last one.
Quiet ==
    /\ buffer = <<>> /\ \A i \in DOMAIN turns : turns[i].phase \in Settled
    /\ UNCHANGED vars

\* Bound: a POST carries one or two events.
Bodies == {<<m>> : m \in Items} \cup {<<m, n>> : m \in Items, n \in Items}

Next ==
    \/ \E events \in Bodies : Post(events)
    \/ Tick
    \/ Fire
    \/ Crash
    \/ \E i \in DOMAIN turns : Turn(i)
    \/ Quiet

Spec == Init /\ [][Next]_vars

\* Timers run and promises settle; nobody has to write, and the process need not stop.
FairSpec ==
    /\ Spec
    /\ WF_vars(Tick) /\ WF_vars(Fire)
    /\ WF_vars(\E i \in DOMAIN turns : Turn(i))

-----------------------------------------------------------------------------
(* Properties. *)

\* The type invariant.
TypeOK ==
    /\ buffer \in Seq(Items)
    /\ age \in Nat /\ quiet \in Nat /\ left \in Nat
    /\ turns \in Seq([items: Seq(Items), phase: Running \cup Settled])
    /\ rows \subseteq Seq(Mids \cup Nat)
    /\ sent \in 0..MaxSent
    /\ crashes \in 0..MaxCrashes
    /\ accepted \in Seq(Items)

\* The items the batches have taken out of the buffer, in the order of the batches.
Taken == FlattenSeq([i \in DOMAIN turns |-> turns[i].items])

\* Every item the webhook accepted is in exactly one batch, in arrival order: the timer,
\* the cap and the stop of the process neither lose an item unnoticed nor flush it twice.
ItemsConserved == accepted = Taken \o buffer

\* A customer who never stops typing is answered: no batch waits longer than MaxWait.
FlushDeadline == buffer # <<>> => age + left <= MaxWait

\* A burst is one turn: the timer is due only after Window of silence, or at the cap.
BurstIsOneTurn == (buffer # <<>> /\ left = 0) => (quiet >= Window \/ age >= MaxWait)

\* The messages of turn i, by their ids.
MidsOf(i) == ToSet(turns[i].items) \cap Mids

\* A message with an id is never dropped unseen: where a batch is dropped as a duplicate,
\* one other turn has all of its messages and was logged with them; it replies, unless the
\* process stops under it.  (Of what has no id the code promises nothing: DedupedByMid.)
DuplicateHasAnswer ==
    \A i \in DOMAIN turns : turns[i].phase = "duplicate" =>
        \E j \in DOMAIN turns \ {i} :
            MidsOf(i) \subseteq MidsOf(j) /\ turns[j].phase \in {"logged", "replied", "lost"}

\* Every batch is flushed and comes to an end: the customer's n-th burst is replied to, is
\* a duplicate, or was lost when the process stopped; it never waits forever.
EventuallySettled ==
    \A n \in 1..MaxSent :
        (buffer # <<>> /\ Len(turns) + 1 = n)
            ~> (n \in DOMAIN turns /\ turns[n].phase \in Settled)

-----------------------------------------------------------------------------
(* What the documents say, and the code does not keep. *)

\* docs/messenger-setup.md: duplicate events are deduped by message.mid.  So a batch is
\* dropped if one of its messages is in the messages table, and goes to the model if none is.
DedupedByMid ==
    [][\A i \in DOMAIN turns :
          (turns[i].phase = "flushed" /\ turns'[i].phase \in {"working", "duplicate"}) =>
              (turns'[i].phase = "duplicate" <=> \E key \in rows : ToSet(key) \cap MidsOf(i) # {})]_vars
=============================================================================
