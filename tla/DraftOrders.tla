----------------------------- MODULE DraftOrders -----------------------------
(***************************************************************************)
(* COD order capture (OrdersService.captureCodOrder over OrdersRepository) *)
(* against the admin's status changes and the deletion of conversations.   *)
(*                                                                         *)
(* A capture is one call of captureCodOrder: it comes from the agent's     *)
(* capture_order tool or from POST /admin/orders.  It runs as a sequence   *)
(* of READ COMMITTED transactions, and calls overlap freely: nothing in    *)
(* the process serialises the turns of a customer.  What a transaction has *)
(* written and not committed is private to its capture (dropped, pc) until *)
(* the commit; the row lock and the unique index entry it holds are        *)
(* functions of pc.  An order is named by the capture that inserted it.    *)
(***************************************************************************)
CONSTANTS Captures,        \* calls of captureCodOrder
          NoCapture,       \* no capture
          Conversations,   \* conversation ids
          NoConversation,  \* conversation_id IS NULL (a standalone admin order)
          RetryOf,         \* RetryOf[c]: the call c repeats, when the agent regenerates
                           \* an empty reply and the model calls the tool again
          NoOrder,         \* a missing row, in the abstract state only
          Torn             \* contents that mix two captures, in the abstract state only

OrderStatuses == {"draft", "confirmed", "fulfilled", "canceled"}
MaybeConversation == Conversations \cup {NoConversation}
MaybeCapture == Captures \cup {NoCapture}

ASSUME CaptureAssumption ==
    /\ NoCapture \notin Captures
    /\ NoConversation \notin Conversations
    /\ RetryOf \in [Captures -> MaybeCapture]
    /\ NoOrder \notin [conv: MaybeConversation, status: OrderStatuses, content: Captures]

VARIABLES convs,     \* the conversations that exist
          status,    \* status[o]: orders.status, or "none" when there is no row
          conv,      \* conv[o]: orders.conversation_id
          header,    \* header[o]: the capture whose destination and money the row has
          items,     \* items[o]: the captures whose line items the order has
          pc,        \* pc[c]: how far call c has come
          want,      \* want[c]: input.conversationId of call c
          target,    \* target[c]: the open draft call c found
          dropped    \* dropped[c]: the line items its open transaction has deleted

orderVars == <<status, conv, header, items>>
vars == <<convs, status, conv, header, items, pc, want, target, dropped>>

\* Inside the transaction of replaceDraftContents, after SELECT ... FOR UPDATE.
Rewriting == {"locked", "emptied", "refilled"}
\* The call has returned or thrown.
Ended == {"saved", "refused", "failed"}
Phases == {"idle", "resolving", "lookup", "locking", "inserting", "inserted"}
            \cup Rewriting \cup Ended

Init ==
    /\ convs = Conversations
    /\ status = [o \in Captures |-> "none"]
    /\ conv = [o \in Captures |-> NoConversation]
    /\ header = [o \in Captures |-> NoCapture]
    /\ items = [o \in Captures |-> {}]
    /\ pc = [c \in Captures |-> "idle"]
    /\ want = [c \in Captures |-> NoConversation]
    /\ target = [c \in Captures |-> NoCapture]
    /\ dropped = [c \in Captures |-> {}]

Placed == {o \in Captures : status[o] # "none"}

-----------------------------------------------------------------------------
(* What the statements read, what they wait for, and (below each) the form *)
(* it would have with a plausible defect; only the mutation runs use those. *)

\* WHERE conversation_id = k AND status = 'draft', over the committed rows.
OpenDrafts_anyConversation(k) == {o \in Captures : status[o] = "draft"}
OpenDrafts(k) == {o \in Captures : status[o] = "draft" /\ conv[o] = k}

\* SELECT ... FOR UPDATE and UPDATE wait while another transaction holds the row.
LockFree_ignored(o) == TRUE
LockFree(o) == \A d \in Captures : pc[d] \in Rewriting => target[d] # o

\* The status read again under the lock.
StillDraft_unchecked(o) == TRUE
StillDraft(o) == status[o] = "draft"

\* An INSERT or UPDATE that would take the draft slot of conversation k waits for the
\* transaction that has an uncommitted draft there.
SlotSettled(k) == \A d \in Captures : pc[d] = "inserted" => want[d] # k

\* orders_conversation_draft_uq has room for a draft of conversation k in row o;
\* NULL conversation ids do not collide.
SlotFree_noIndex(o, k) == TRUE
SlotFree(o, k) == k = NoConversation \/ OpenDrafts(k) \subseteq {o}

-----------------------------------------------------------------------------
(* One call of captureCodOrder. *)

\* The call arrives.  Only the agent repeats a call, for the conversation of the turn and
\* after the first one has ended.
Begin(c, k) ==
    /\ pc[c] = "idle"
    /\ (\E r \in Captures : RetryOf[r] = c) => k # NoConversation
    /\ RetryOf[c] # NoCapture => pc[RetryOf[c]] \in Ended /\ k = want[RetryOf[c]]
    /\ pc' = [pc EXCEPT ![c] = "resolving"]
    /\ want' = [want EXCEPT ![c] = k]
    /\ UNCHANGED <<convs, orderVars, target, dropped>>

\* Header validation, the catalog reads and the money: all before the first write.
\* A capture without a conversation skips the search for an open draft.
Resolve(c) ==
    /\ pc[c] = "resolving"
    /\ pc' = [pc EXCEPT ![c] = IF want[c] = NoConversation THEN "inserting" ELSE "lookup"]
    /\ UNCHANGED <<convs, orderVars, want, target, dropped>>

\* OrderCaptureError: an unknown product, colour or size, a bad phone, no address, no item.
Refuse(c) ==
    /\ pc[c] = "resolving"
    /\ pc' = [pc EXCEPT ![c] = "refused"]
    /\ UNCHANGED <<convs, orderVars, want, target, dropped>>

\* findOpenDraftByConversation, in a transaction of its own.
FindDraft(c) ==
    /\ pc[c] = "lookup"
    /\ \/ /\ OpenDrafts(want[c]) = {}
          /\ pc' = [pc EXCEPT ![c] = "inserting"]
          /\ UNCHANGED target
       \/ \E o \in OpenDrafts(want[c]) :
            /\ target' = [target EXCEPT ![c] = o]
            /\ pc' = [pc EXCEPT ![c] = "locking"]
    /\ UNCHANGED <<convs, orderVars, want, dropped>>

\* replaceDraftContents takes the row lock and reads the status again.  An order that
\* left the draft status in between is not touched: null, and the caller inserts.
LockDraft_returnsRow(c) ==
    /\ pc[c] = "locking"
    /\ LockFree(target[c])
    /\ pc' = [pc EXCEPT ![c] = IF StillDraft(target[c]) THEN "locked" ELSE "saved"]
    /\ UNCHANGED <<convs, orderVars, want, target, dropped>>
LockDraft_noFallback(c) ==
    /\ pc[c] = "locking"
    /\ LockFree(target[c]) /\ StillDraft(target[c])
    /\ pc' = [pc EXCEPT ![c] = "locked"]
    /\ UNCHANGED <<convs, orderVars, want, target, dropped>>
LockDraft(c) ==
    /\ pc[c] = "locking"
    /\ LockFree(target[c])
    /\ pc' = [pc EXCEPT ![c] = IF StillDraft(target[c]) THEN "locked" ELSE "inserting"]
    /\ UNCHANGED <<convs, orderVars, want, target, dropped>>

\* DELETE FROM order_items WHERE order_id = target.
DeleteItems(c) ==
    /\ pc[c] = "locked"
    /\ dropped' = [dropped EXCEPT ![c] = items[target[c]]]
    /\ pc' = [pc EXCEPT ![c] = "emptied"]
    /\ UNCHANGED <<convs, orderVars, want, target>>

\* INSERT INTO order_items: this capture's lines, still uncommitted.
InsertItems(c) ==
    /\ pc[c] = "emptied"
    /\ pc' = [pc EXCEPT ![c] = "refilled"]
    /\ UNCHANGED <<convs, orderVars, want, target, dropped>>

\* UPDATE orders SET header, and the commit that shows all three statements at once.
CommitRewrite(c) ==
    /\ pc[c] = "refilled"
    /\ items' = [items EXCEPT ![target[c]] = (items[target[c]] \ dropped[c]) \cup {c}]
    /\ header' = [header EXCEPT ![target[c]] = c]
    /\ pc' = [pc EXCEPT ![c] = "saved"]
    /\ UNCHANGED <<convs, status, conv, want, target, dropped>>

\* createWithItems: the order row.  A conversation that is gone fails the foreign key and
\* a second draft fails the unique index; both propagate out of the call.
InsertOrder(c) ==
    /\ pc[c] = "inserting"
    /\ want[c] # NoConversation => SlotSettled(want[c])
    /\ pc' = [pc EXCEPT ![c] =
                IF want[c] \in convs \cup {NoConversation} /\ SlotFree(c, want[c])
                THEN "inserted" ELSE "failed"]
    /\ UNCHANGED <<convs, orderVars, want, target, dropped>>

\* createWithItems: the line items, and the commit.
CommitInsert(c) ==
    /\ pc[c] = "inserted"
    /\ status' = [status EXCEPT ![c] = "draft"]
    /\ conv' = [conv EXCEPT ![c] = want[c]]
    /\ header' = [header EXCEPT ![c] = c]
    /\ items' = [items EXCEPT ![c] = {c}]
    /\ pc' = [pc EXCEPT ![c] = "saved"]
    /\ UNCHANGED <<convs, want, target, dropped>>

\* A read or statement fails (the database, a deleted product's foreign key) or the
\* process dies: the open transaction, if any, is rolled back.
Fail(c) ==
    /\ pc[c] \notin Ended \cup {"idle"}
    /\ pc' = [pc EXCEPT ![c] = "failed"]
    /\ UNCHANGED <<convs, orderVars, want, target, dropped>>

Advance(c) ==
    \/ Resolve(c) \/ Refuse(c) \/ FindDraft(c)
    \/ LockDraft(c) \/ DeleteItems(c) \/ InsertItems(c) \/ CommitRewrite(c)
    \/ InsertOrder(c) \/ CommitInsert(c)

Capture(c) == Advance(c) \/ Fail(c)

-----------------------------------------------------------------------------
(* The admin panel. *)

\* PATCH /admin/orders/:id/status: any status to any status, one UPDATE.  A reopened
\* order takes its conversation's draft slot, so it fails when another order has it.
SetStatus_anyString(o, s) ==
    /\ o \in Placed
    /\ LockFree(o)
    /\ status' = [status EXCEPT ![o] = "archived"]
    /\ UNCHANGED <<convs, conv, header, items, pc, want, target, dropped>>
SetStatus(o, s) ==
    /\ o \in Placed
    /\ LockFree(o)
    /\ (s = "draft" /\ conv[o] # NoConversation) => SlotSettled(conv[o])
    /\ s = "draft" => SlotFree(o, conv[o])
    /\ status' = [status EXCEPT ![o] = s]
    /\ UNCHANGED <<convs, conv, header, items, pc, want, target, dropped>>

\* DELETE FROM conversations; the foreign key sets the link of its orders to NULL.  It
\* waits for the row locks on those orders and for an insert that references the row.
DeleteConversation(k) ==
    /\ k \in convs
    /\ SlotSettled(k)
    /\ \A o \in Captures : conv[o] = k => LockFree(o)
    /\ convs' = convs \ {k}
    /\ conv' = [o \in Captures |-> IF conv[o] = k THEN NoConversation ELSE conv[o]]
    /\ UNCHANGED <<status, header, items, pc, want, target, dropped>>

\* Every call has ended; only this state may be the last one.
Quiet ==
    /\ \A c \in Captures : pc[c] \in Ended
    /\ UNCHANGED vars

Next ==
    \/ \E c \in Captures, k \in MaybeConversation : Begin(c, k)
    \/ \E c \in Captures : Capture(c)
    \/ \E o \in Captures, s \in OrderStatuses : SetStatus(o, s)
    \/ \E k \in Conversations : DeleteConversation(k)
    \/ Quiet

Spec == Init /\ [][Next]_vars

\* The database answers every statement that waits for nobody, so a call that can advance
\* does, without the help of a failure; nobody is obliged to call, or to touch an order
\* from the admin panel.
FairSpec == Spec /\ \A c \in Captures : WF_vars(Advance(c))

-----------------------------------------------------------------------------
(* Properties. *)

\* The type invariant.
TypeOK ==
    /\ convs \subseteq Conversations
    /\ status \in [Captures -> OrderStatuses \cup {"none"}]
    /\ conv \in [Captures -> MaybeConversation]
    /\ header \in [Captures -> MaybeCapture]
    /\ items \in [Captures -> SUBSET Captures]
    /\ pc \in [Captures -> Phases]
    /\ want \in [Captures -> MaybeConversation]
    /\ target \in [Captures -> MaybeCapture]
    /\ dropped \in [Captures -> SUBSET Captures]

\* One editable cart: however find-then-create races, and whatever the admin reopens, a
\* conversation never has two open drafts.
OneOpenDraft ==
    \A k \in Conversations : \A o, p \in OpenDrafts(k) : o = p

\* The row's address and totals and its line items come from the same capture: two
\* overlapping rewrites, a rollback or a crash never mix the lines of two carts.
ContentsWhole ==
    \A o \in Placed : items[o] = {header[o]}

\* An order that still belongs to a conversation holds what that conversation ordered,
\* never another customer's cart.
CartOfItsConversation ==
    \A o \in Placed : conv[o] # NoConversation => want[header[o]] = conv[o]

\* An order the shop has confirmed, fulfilled or canceled is never overwritten, however
\* late a capture that found it as a draft comes back.
CommittedFrozen ==
    [][\A o \in Placed : status[o] # "draft" => header'[o] = header[o] /\ items'[o] = items[o]]_vars

\* A capture the customer is told was saved is, at that moment, the whole contents of an
\* open draft; in particular a rewrite that lost the draft never reports success.
SavedMeansStored ==
    [][\A c \in Captures : (pc[c] # "saved" /\ pc'[c] = "saved") =>
          \E o \in Captures : status'[o] = "draft" /\ header'[o] = c /\ items'[o] = {c}]_vars

\* A call that has begun ends: it never waits forever on a row lock or an index entry.
CaptureEnds ==
    \A c \in Captures : pc[c] = "resolving" ~> pc[c] \in Ended

\* agent.service.ts: the write tools are idempotent, so the retry never double-writes.
\* The two calls of one turn would then never be the contents of two orders.
RetryNeverDoubleWrites ==
    \A o, p \in Placed : o # p => RetryOf[header[p]] # header[o]

-----------------------------------------------------------------------------
(* Refinement: the committed rows are the carts of the abstract specification. *)

\* The row of order o as Cart sees it.
Row(o) == IF o \notin Placed THEN NoOrder
          ELSE [conv |-> conv[o], status |-> status[o],
                content |-> IF items[o] = {header[o]} THEN header[o] ELSE Torn]
Rows == [o \in Captures |-> Row(o)]

Carts == INSTANCE Cart WITH Orders <- Captures, Contents <- Captures, cart <- Rows

\* Every step of the code is a step on whole carts, or leaves them as they are.
ImplementsCart == Carts!Spec
=============================================================================
