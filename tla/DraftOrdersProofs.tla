-------------------------- MODULE DraftOrdersProofs --------------------------
(***************************************************************************)
(* Proofs about DraftOrders for any captures, conversations and retries:   *)
(* the invariants its runs check, that committed orders are frozen, and    *)
(* that the module implements Cart.                                        *)
(***************************************************************************)
EXTENDS DraftOrders, TLAPS

-----------------------------------------------------------------------------
(* The inductive invariant.  OneOpenDraft, ContentsWhole and                *)
(* CartOfItsConversation say nothing of the open transactions, so none of   *)
(* them is inductive: the parts below say what a transaction may rely on.   *)

\* Only a call that was saved has inserted a row, and every row has contents that a
\* saved call wrote.
RowsAreSaved ==
    \A o \in Captures : status[o] # "none" =>
        /\ pc[o] = "saved"
        /\ header[o] \in Captures
        /\ pc[header[o]] = "saved"

\* The target of a rewrite is a row of the call's own conversation, or one whose
\* conversation has been deleted since.
TargetIsOwn ==
    \A c \in Captures : pc[c] \in {"locking"} \cup Rewriting =>
        /\ target[c] \in Captures
        /\ status[target[c]] # "none"
        /\ conv[target[c]] \in {want[c], NoConversation}

\* Under the row lock the order stays a draft, and nobody else holds the lock.
LockedIsDraft ==
    \A c \in Captures : pc[c] \in Rewriting =>
        /\ status[target[c]] = "draft"
        /\ \A d \in Captures : pc[d] \in Rewriting /\ target[d] = target[c] => d = c

\* What the transaction deleted is still all there is: the lock keeps others out.
DroppedIsAll ==
    \A c \in Captures : pc[c] \in {"emptied", "refilled"} => dropped[c] = items[target[c]]

\* An uncommitted draft has the slot of its conversation to itself.
InsertedHasSlot ==
    \A c \in Captures : pc[c] = "inserted" /\ want[c] # NoConversation =>
        /\ OpenDrafts(want[c]) = {}
        /\ \A d \in Captures : pc[d] = "inserted" /\ want[d] = want[c] => d = c

\* A call that has no conversation never looks for a draft.
SearchHasConversation ==
    \A c \in Captures : pc[c] \in {"lookup", "locking"} \cup Rewriting => want[c] # NoConversation

IInv ==
    /\ TypeOK
    /\ OneOpenDraft
    /\ ContentsWhole
    /\ CartOfItsConversation
    /\ RowsAreSaved
    /\ TargetIsOwn
    /\ LockedIsDraft
    /\ DroppedIsAll
    /\ InsertedHasSlot
    /\ SearchHasConversation

-----------------------------------------------------------------------------
(* One lemma per action.  A conjunct the action cannot disturb is a line of *)
(* the lemma's second step; the others have a step of their own.            *)

USE CaptureAssumption
    DEF Rewriting, Ended, Phases, Placed, MaybeConversation, MaybeCapture, OrderStatuses, orderVars

\* The three conjuncts about committed rows, when no row changes.
LEMMA RowsUntouched ==
  ASSUME OneOpenDraft, ContentsWhole, CartOfItsConversation,
         UNCHANGED <<status, conv, header, items, want>>
  PROVE  (OneOpenDraft /\ ContentsWhole /\ CartOfItsConversation)'
BY DEF OneOpenDraft, ContentsWhole, CartOfItsConversation, OpenDrafts

LEMMA InitIInv == Init => IInv
<1> SUFFICES ASSUME Init PROVE IInv
  OBVIOUS
<1>1. TypeOK
  BY DEF Init, TypeOK
<1>2. OneOpenDraft /\ ContentsWhole /\ CartOfItsConversation /\ RowsAreSaved
  BY DEF Init, OneOpenDraft, OpenDrafts, ContentsWhole, CartOfItsConversation, RowsAreSaved
<1>3. TargetIsOwn /\ LockedIsDraft /\ DroppedIsAll /\ InsertedHasSlot /\ SearchHasConversation
  BY DEF Init, TargetIsOwn, LockedIsDraft, DroppedIsAll, InsertedHasSlot, SearchHasConversation
<1> QED
  BY <1>1, <1>2, <1>3 DEF IInv

\* A new call has saved nothing, so no row refers to it.
LEMMA BeginIInv ==
  ASSUME NEW c \in Captures, NEW k \in MaybeConversation, IInv, Begin(c, k)
  PROVE  IInv'
<1> USE DEF IInv
<1>1. TypeOK'
  BY DEF Begin, TypeOK
<1>2. (OneOpenDraft /\ ContentsWhole)'
  BY DEF Begin, TypeOK, OneOpenDraft, ContentsWhole, OpenDrafts
<1>3. CartOfItsConversation'
  BY DEF Begin, TypeOK, CartOfItsConversation, RowsAreSaved
<1>4. RowsAreSaved'
  BY DEF Begin, TypeOK, RowsAreSaved
<1>5. (TargetIsOwn /\ LockedIsDraft)'
  BY DEF Begin, TypeOK, TargetIsOwn, LockedIsDraft
<1>6. DroppedIsAll'
  BY DEF Begin, TypeOK, DroppedIsAll
<1>7. InsertedHasSlot'
  BY DEF Begin, TypeOK, InsertedHasSlot, OpenDrafts
<1>8. SearchHasConversation'
  BY DEF Begin, TypeOK, SearchHasConversation
<1> QED
  BY <1>1, <1>2, <1>3, <1>4, <1>5, <1>6, <1>7, <1>8

\* Only a call with a conversation goes on to the search.
LEMMA ResolveIInv ==
  ASSUME NEW c \in Captures, IInv, Resolve(c)
  PROVE  IInv'
<1> USE DEF IInv
<1>1. TypeOK'
  BY DEF Resolve, TypeOK
<1>2. (OneOpenDraft /\ ContentsWhole /\ CartOfItsConversation)'
  BY RowsUntouched DEF Resolve
<1>3. RowsAreSaved'
  BY DEF Resolve, TypeOK, RowsAreSaved
<1>4. (TargetIsOwn /\ LockedIsDraft)'
  BY DEF Resolve, TypeOK, TargetIsOwn, LockedIsDraft
<1>5. DroppedIsAll'
  BY DEF Resolve, TypeOK, DroppedIsAll
<1>6. InsertedHasSlot'
  BY DEF Resolve, TypeOK, InsertedHasSlot, OpenDrafts
<1>7. SearchHasConversation'
  BY DEF Resolve, TypeOK, SearchHasConversation
<1> QED
  BY <1>1, <1>2, <1>3, <1>4, <1>5, <1>6, <1>7

\* A refused call holds nothing.
LEMMA RefuseIInv ==
  ASSUME NEW c \in Captures, IInv, Refuse(c)
  PROVE  IInv'
<1> USE DEF IInv
<1>1. TypeOK'
  BY DEF Refuse, TypeOK
<1>2. (OneOpenDraft /\ ContentsWhole /\ CartOfItsConversation)'
  BY RowsUntouched DEF Refuse
<1>3. RowsAreSaved'
  BY DEF Refuse, TypeOK, RowsAreSaved
<1>4. (TargetIsOwn /\ LockedIsDraft)'
  BY DEF Refuse, TypeOK, TargetIsOwn, LockedIsDraft
<1>5. DroppedIsAll'
  BY DEF Refuse, TypeOK, DroppedIsAll
<1>6. InsertedHasSlot'
  BY DEF Refuse, TypeOK, InsertedHasSlot, OpenDrafts
<1>7. SearchHasConversation'
  BY DEF Refuse, TypeOK, SearchHasConversation
<1> QED
  BY <1>1, <1>2, <1>3, <1>4, <1>5, <1>6, <1>7

\* What the search returns is an open draft of the call's own conversation.
LEMMA FindDraftIInv ==
  ASSUME NEW c \in Captures, IInv, FindDraft(c)
  PROVE  IInv'
<1> USE DEF IInv
<1>1. TypeOK'
  BY DEF FindDraft, TypeOK, OpenDrafts
<1>2. (OneOpenDraft /\ ContentsWhole /\ CartOfItsConversation)'
  BY RowsUntouched DEF FindDraft
<1>3. RowsAreSaved'
  BY DEF FindDraft, TypeOK, RowsAreSaved
<1>4. TargetIsOwn'
  BY DEF FindDraft, TypeOK, TargetIsOwn, OpenDrafts
<1>5. LockedIsDraft'
  BY DEF FindDraft, TypeOK, LockedIsDraft
<1>6. DroppedIsAll'
  BY DEF FindDraft, TypeOK, DroppedIsAll
<1>7. InsertedHasSlot'
  BY DEF FindDraft, TypeOK, InsertedHasSlot, OpenDrafts
<1>8. SearchHasConversation'
  BY DEF FindDraft, TypeOK, SearchHasConversation
<1> QED
  BY <1>1, <1>2, <1>3, <1>4, <1>5, <1>6, <1>7, <1>8

\* The row lock and the second read of the status establish LockedIsDraft.
LEMMA LockDraftIInv ==
  ASSUME NEW c \in Captures, IInv, LockDraft(c)
  PROVE  IInv'
<1> USE DEF IInv
<1>1. TypeOK'
  BY DEF LockDraft, TypeOK
<1>2. (OneOpenDraft /\ ContentsWhole /\ CartOfItsConversation)'
  BY RowsUntouched DEF LockDraft
<1>3. RowsAreSaved'
  BY DEF LockDraft, TypeOK, RowsAreSaved
<1>4. TargetIsOwn'
  BY DEF LockDraft, TypeOK, TargetIsOwn
<1>5. LockedIsDraft'
  BY DEF LockDraft, TypeOK, LockedIsDraft, LockFree, StillDraft
<1>6. DroppedIsAll'
  BY DEF LockDraft, TypeOK, DroppedIsAll
<1>7. InsertedHasSlot'
  BY DEF LockDraft, TypeOK, InsertedHasSlot, OpenDrafts
<1>8. SearchHasConversation'
  BY DEF LockDraft, TypeOK, SearchHasConversation
<1> QED
  BY <1>1, <1>2, <1>3, <1>4, <1>5, <1>6, <1>7, <1>8

\* The deleted lines are all the lines the row has.
LEMMA DeleteItemsIInv ==
  ASSUME NEW c \in Captures, IInv, DeleteItems(c)
  PROVE  IInv'
<1> USE DEF IInv
<1>1. TypeOK'
  BY DEF DeleteItems, TypeOK, TargetIsOwn
<1>2. (OneOpenDraft /\ ContentsWhole /\ CartOfItsConversation)'
  BY RowsUntouched DEF DeleteItems
<1>3. RowsAreSaved'
  BY DEF DeleteItems, TypeOK, RowsAreSaved
<1>4. (TargetIsOwn /\ LockedIsDraft)'
  BY DEF DeleteItems, TypeOK, TargetIsOwn, LockedIsDraft
<1>5. DroppedIsAll'
  BY DEF DeleteItems, TypeOK, DroppedIsAll
<1>6. InsertedHasSlot'
  BY DEF DeleteItems, TypeOK, InsertedHasSlot, OpenDrafts
<1>7. SearchHasConversation'
  BY DEF DeleteItems, TypeOK, SearchHasConversation
<1> QED
  BY <1>1, <1>2, <1>3, <1>4, <1>5, <1>6, <1>7

\* The new lines are not visible yet.
LEMMA InsertItemsIInv ==
  ASSUME NEW c \in Captures, IInv, InsertItems(c)
  PROVE  IInv'
<1> USE DEF IInv
<1>1. TypeOK'
  BY DEF InsertItems, TypeOK
<1>2. (OneOpenDraft /\ ContentsWhole /\ CartOfItsConversation)'
  BY RowsUntouched DEF InsertItems
<1>3. RowsAreSaved'
  BY DEF InsertItems, TypeOK, RowsAreSaved
<1>4. (TargetIsOwn /\ LockedIsDraft)'
  BY DEF InsertItems, TypeOK, TargetIsOwn, LockedIsDraft
<1>5. DroppedIsAll'
  BY DEF InsertItems, TypeOK, DroppedIsAll
<1>6. InsertedHasSlot'
  BY DEF InsertItems, TypeOK, InsertedHasSlot, OpenDrafts
<1>7. SearchHasConversation'
  BY DEF InsertItems, TypeOK, SearchHasConversation
<1> QED
  BY <1>1, <1>2, <1>3, <1>4, <1>5, <1>6, <1>7

\* The row gets the lines of one capture because the old ones were all deleted, and no
\* other open transaction relies on the row because the lock is exclusive.
LEMMA CommitRewriteIInv ==
  ASSUME NEW c \in Captures, IInv, CommitRewrite(c)
  PROVE  IInv'
<1> USE DEF IInv
<1>1. TypeOK'
  BY DEF CommitRewrite, TypeOK
<1>2. OneOpenDraft'
  BY DEF CommitRewrite, TypeOK, OneOpenDraft, OpenDrafts
<1>3. ContentsWhole'
  BY DEF CommitRewrite, TypeOK, ContentsWhole, DroppedIsAll
<1>4. CartOfItsConversation'
  BY DEF CommitRewrite, TypeOK, CartOfItsConversation, TargetIsOwn
<1>5. RowsAreSaved'
  BY DEF CommitRewrite, TypeOK, RowsAreSaved
<1>6. (TargetIsOwn /\ LockedIsDraft)'
  BY DEF CommitRewrite, TypeOK, TargetIsOwn, LockedIsDraft
<1>7. DroppedIsAll'
  BY DEF CommitRewrite, TypeOK, DroppedIsAll, TargetIsOwn, LockedIsDraft
<1>8. InsertedHasSlot'
  BY DEF CommitRewrite, TypeOK, InsertedHasSlot, OpenDrafts
<1>9. SearchHasConversation'
  BY DEF CommitRewrite, TypeOK, SearchHasConversation
<1> QED
  BY <1>1, <1>2, <1>3, <1>4, <1>5, <1>6, <1>7, <1>8, <1>9

\* The unique index admits one uncommitted draft, and only over an empty slot.
LEMMA InsertOrderIInv ==
  ASSUME NEW c \in Captures, IInv, InsertOrder(c)
  PROVE  IInv'
<1> USE DEF IInv
<1>1. TypeOK'
  BY DEF InsertOrder, TypeOK
<1>2. (OneOpenDraft /\ ContentsWhole /\ CartOfItsConversation)'
  BY RowsUntouched DEF InsertOrder
<1>3. RowsAreSaved'
  BY DEF InsertOrder, TypeOK, RowsAreSaved
<1>4. (TargetIsOwn /\ LockedIsDraft)'
  BY DEF InsertOrder, TypeOK, TargetIsOwn, LockedIsDraft
<1>5. DroppedIsAll'
  BY DEF InsertOrder, TypeOK, DroppedIsAll
<1>6. InsertedHasSlot'
  BY DEF InsertOrder, TypeOK, InsertedHasSlot, RowsAreSaved, SlotSettled, SlotFree,
         OpenDrafts
<1>7. SearchHasConversation'
  BY DEF InsertOrder, TypeOK, SearchHasConversation
<1> QED
  BY <1>1, <1>2, <1>3, <1>4, <1>5, <1>6, <1>7

\* The new draft is the only one because the index entry was held since the insert.
LEMMA CommitInsertIInv ==
  ASSUME NEW c \in Captures, IInv, CommitInsert(c)
  PROVE  IInv'
<1> USE DEF IInv
<1>1. TypeOK'
  BY DEF CommitInsert, TypeOK
<1>2. OneOpenDraft'
  BY DEF CommitInsert, TypeOK, OneOpenDraft, InsertedHasSlot, OpenDrafts
<1>3. ContentsWhole'
  BY DEF CommitInsert, TypeOK, ContentsWhole
<1>4. CartOfItsConversation'
  BY DEF CommitInsert, TypeOK, CartOfItsConversation
<1>5. RowsAreSaved'
  BY DEF CommitInsert, TypeOK, RowsAreSaved
<1>6. TargetIsOwn'
  BY DEF CommitInsert, TypeOK, TargetIsOwn, RowsAreSaved
<1>7. LockedIsDraft'
  BY DEF CommitInsert, TypeOK, LockedIsDraft
<1>8. DroppedIsAll'
  BY DEF CommitInsert, TypeOK, DroppedIsAll, RowsAreSaved, LockedIsDraft
<1>9. InsertedHasSlot'
  BY DEF CommitInsert, TypeOK, InsertedHasSlot, OpenDrafts
<1>10. SearchHasConversation'
  BY DEF CommitInsert, TypeOK, SearchHasConversation
<1> QED
  BY <1>1, <1>2, <1>3, <1>4, <1>5, <1>6, <1>7, <1>8, <1>9, <1>10

\* A rollback leaves the committed rows as they were.
LEMMA FailIInv ==
  ASSUME NEW c \in Captures, IInv, Fail(c)
  PROVE  IInv'
<1> USE DEF IInv
<1>1. TypeOK'
  BY DEF Fail, TypeOK
<1>2. (OneOpenDraft /\ ContentsWhole /\ CartOfItsConversation)'
  BY RowsUntouched DEF Fail
<1>3. RowsAreSaved'
  BY DEF Fail, TypeOK, RowsAreSaved
<1>4. (TargetIsOwn /\ LockedIsDraft)'
  BY DEF Fail, TypeOK, TargetIsOwn, LockedIsDraft
<1>5. DroppedIsAll'
  BY DEF Fail, TypeOK, DroppedIsAll
<1>6. InsertedHasSlot'
  BY DEF Fail, TypeOK, InsertedHasSlot, OpenDrafts
<1>7. SearchHasConversation'
  BY DEF Fail, TypeOK, SearchHasConversation
<1> QED
  BY <1>1, <1>2, <1>3, <1>4, <1>5, <1>6, <1>7

\* The admin's UPDATE waits for the row lock, and for the draft slot when it reopens.
LEMMA SetStatusIInv ==
  ASSUME NEW o \in Captures, NEW s \in OrderStatuses, IInv, SetStatus(o, s)
  PROVE  IInv'
<1> USE DEF IInv
<1>1. TypeOK'
  BY DEF SetStatus, TypeOK
<1>2. OneOpenDraft'
  BY DEF SetStatus, TypeOK, OneOpenDraft, SlotFree, OpenDrafts
<1>3. (ContentsWhole /\ CartOfItsConversation)'
  BY DEF SetStatus, TypeOK, ContentsWhole, CartOfItsConversation
<1>4. RowsAreSaved'
  BY DEF SetStatus, TypeOK, RowsAreSaved
<1>5. TargetIsOwn'
  BY DEF SetStatus, TypeOK, TargetIsOwn
<1>6. LockedIsDraft'
  BY DEF SetStatus, TypeOK, LockedIsDraft, LockFree
<1>7. DroppedIsAll'
  BY DEF SetStatus, TypeOK, DroppedIsAll
<1>8. InsertedHasSlot'
  BY DEF SetStatus, TypeOK, InsertedHasSlot, SlotSettled, OpenDrafts
<1>9. SearchHasConversation'
  BY DEF SetStatus, TypeOK, SearchHasConversation
<1> QED
  BY <1>1, <1>2, <1>3, <1>4, <1>5, <1>6, <1>7, <1>8, <1>9

\* Rows that lose their conversation keep everything else.
LEMMA DeleteConversationIInv ==
  ASSUME NEW k \in Conversations, IInv, DeleteConversation(k)
  PROVE  IInv'
<1> USE DEF IInv
<1>1. TypeOK'
  BY DEF DeleteConversation, TypeOK
<1>2. OneOpenDraft'
  BY DEF DeleteConversation, TypeOK, OneOpenDraft, OpenDrafts
<1>3. (ContentsWhole /\ CartOfItsConversation)'
  BY DEF DeleteConversation, TypeOK, ContentsWhole, CartOfItsConversation
<1>4. RowsAreSaved'
  BY DEF DeleteConversation, TypeOK, RowsAreSaved
<1>5. TargetIsOwn'
  BY DEF DeleteConversation, TypeOK, TargetIsOwn
<1>6. LockedIsDraft'
  BY DEF DeleteConversation, TypeOK, LockedIsDraft
<1>7. DroppedIsAll'
  BY DEF DeleteConversation, TypeOK, DroppedIsAll
<1>8. InsertedHasSlot'
  BY DEF DeleteConversation, TypeOK, InsertedHasSlot, OpenDrafts
<1>9. SearchHasConversation'
  BY DEF DeleteConversation, TypeOK, SearchHasConversation
<1> QED
  BY <1>1, <1>2, <1>3, <1>4, <1>5, <1>6, <1>7, <1>8, <1>9

\* A step of a call preserves the invariant.
LEMMA CaptureIInv ==
  ASSUME NEW c \in Captures, IInv, Capture(c)
  PROVE  IInv'
<1>1. CASE Resolve(c)        BY <1>1, ResolveIInv
<1>2. CASE Refuse(c)         BY <1>2, RefuseIInv
<1>3. CASE FindDraft(c)      BY <1>3, FindDraftIInv
<1>4. CASE LockDraft(c)      BY <1>4, LockDraftIInv
<1>5. CASE DeleteItems(c)    BY <1>5, DeleteItemsIInv
<1>6. CASE InsertItems(c)    BY <1>6, InsertItemsIInv
<1>7. CASE CommitRewrite(c)  BY <1>7, CommitRewriteIInv
<1>8. CASE InsertOrder(c)    BY <1>8, InsertOrderIInv
<1>9. CASE CommitInsert(c)   BY <1>9, CommitInsertIInv
<1>10. CASE Fail(c)          BY <1>10, FailIInv
<1> QED
  BY <1>1, <1>2, <1>3, <1>4, <1>5, <1>6, <1>7, <1>8, <1>9, <1>10 DEF Capture, Advance

\* A step that changes nothing does too.
LEMMA StutterIInv ==
  ASSUME IInv, UNCHANGED vars
  PROVE  IInv'
BY DEF vars, IInv, TypeOK, OneOpenDraft, OpenDrafts, ContentsWhole, CartOfItsConversation,
       RowsAreSaved, TargetIsOwn, LockedIsDraft, DroppedIsAll, InsertedHasSlot,
       SearchHasConversation

LEMMA NextIInv ==
  ASSUME IInv, [Next]_vars
  PROVE  IInv'
<1>1. CASE \E c \in Captures, k \in MaybeConversation : Begin(c, k)
  BY <1>1, BeginIInv
<1>2. CASE \E c \in Captures : Capture(c)
  BY <1>2, CaptureIInv
<1>3. CASE \E o \in Captures, s \in OrderStatuses : SetStatus(o, s)
  BY <1>3, SetStatusIInv
<1>4. CASE \E k \in Conversations : DeleteConversation(k)
  BY <1>4, DeleteConversationIInv
<1>5. CASE Quiet \/ UNCHANGED vars
  BY <1>5, StutterIInv DEF Quiet
<1> QED
  BY <1>1, <1>2, <1>3, <1>4, <1>5 DEF Next

-----------------------------------------------------------------------------
(* The theorems. *)

\* The inductive invariant holds of every behaviour of order capture.
THEOREM Invariance == Spec => []IInv
<1>1. Init => IInv
  BY InitIInv
<1>2. IInv /\ [Next]_vars => IInv'
  BY NextIInv
<1> QED
  BY <1>1, <1>2, PTL DEF Spec

\* The variables of captureCodOrder's model keep their types.
THEOREM TypeCorrect == Spec => []TypeOK
<1>1. IInv => TypeOK
  BY DEF IInv
<1> QED
  BY <1>1, Invariance, PTL

\* findOpenDraftByConversation and the insert are two transactions; the draft slot of a
\* conversation is never filled twice all the same.
THEOREM AtMostOneDraft == Spec => []OneOpenDraft
<1>1. IInv => OneOpenDraft
  BY DEF IInv
<1> QED
  BY <1>1, Invariance, PTL

\* replaceDraftContents never leaves a row with the lines of two captures.
THEOREM NoMixedCart == Spec => []ContentsWhole
<1>1. IInv => ContentsWhole
  BY DEF IInv
<1> QED
  BY <1>1, Invariance, PTL

\* No order of a conversation holds the cart of another one.
THEOREM OwnCart == Spec => []CartOfItsConversation
<1>1. IInv => CartOfItsConversation
  BY DEF IInv
<1> QED
  BY <1>1, Invariance, PTL

\* A step never touches the contents of an order that has left the draft status.
LEMMA StepFrozen ==
  ASSUME IInv, [Next]_vars
  PROVE  \A o \in Placed : status[o] # "draft" => header'[o] = header[o] /\ items'[o] = items[o]
<1>1. CASE UNCHANGED <<header, items>>
  BY <1>1
<1>2. ASSUME NEW c \in Captures, CommitRewrite(c)
      PROVE  \A o \in Placed : status[o] # "draft" => header'[o] = header[o] /\ items'[o] = items[o]
  <2>1. status[target[c]] = "draft"
    BY <1>2 DEF IInv, LockedIsDraft, CommitRewrite
  <2> QED
    BY <1>2, <2>1 DEF IInv, TypeOK, CommitRewrite
<1>3. ASSUME NEW c \in Captures, CommitInsert(c)
      PROVE  \A o \in Placed : status[o] # "draft" => header'[o] = header[o] /\ items'[o] = items[o]
  <2>1. status[c] = "none"
    BY <1>3 DEF IInv, TypeOK, RowsAreSaved, CommitInsert
  <2> QED
    BY <1>3, <2>1 DEF IInv, TypeOK, CommitInsert
<1> QED
  BY <1>1, <1>2, <1>3
  DEF Next, Capture, Advance, Begin, Resolve, Refuse, FindDraft, LockDraft, DeleteItems, InsertItems,
      InsertOrder, Fail, SetStatus, DeleteConversation, Quiet, vars

\* A capture that comes back late never overwrites an order the shop has committed to.
THEOREM CommittedOrdersFrozen == Spec => CommittedFrozen
<1>1. IInv /\ [Next]_vars =>
        [\A o \in Placed : status[o] # "draft" => header'[o] = header[o] /\ items'[o] = items[o]]_vars
  BY StepFrozen
<1> QED
  BY <1>1, Invariance, PTL DEF Spec, CommittedFrozen

\* A call becomes saved only by a commit, and the commit wrote all of its contents.
LEMMA StepStored ==
  ASSUME IInv, [Next]_vars, NEW c \in Captures, pc[c] # "saved", pc'[c] = "saved"
  PROVE  \E o \in Captures : status'[o] = "draft" /\ header'[o] = c /\ items'[o] = {c}
<1>1. CommitRewrite(c) \/ CommitInsert(c)
  <2>1. ASSUME NEW d \in Captures, Capture(d)
        PROVE  CommitRewrite(c) \/ CommitInsert(c)
    BY <2>1 DEF IInv, TypeOK, Capture, Advance, Resolve, Refuse, FindDraft, LockDraft, DeleteItems,
                InsertItems, CommitRewrite, InsertOrder, CommitInsert, Fail
  <2>2. CASE \E d \in Captures, k \in MaybeConversation : Begin(d, k)
    BY <2>2 DEF IInv, TypeOK, Begin
  <2> QED
    BY <2>1, <2>2 DEF Next, SetStatus, DeleteConversation, Quiet, vars
<1>2. CASE CommitRewrite(c)
  <2>1. target[c] \in Captures /\ status[target[c]] = "draft" /\ dropped[c] = items[target[c]]
    BY <1>2 DEF IInv, TargetIsOwn, LockedIsDraft, DroppedIsAll, CommitRewrite
  <2>2. status'[target[c]] = "draft" /\ header'[target[c]] = c /\ items'[target[c]] = {c}
    BY <1>2, <2>1 DEF IInv, TypeOK, CommitRewrite
  <2> QED
    BY <2>1, <2>2
<1>3. CASE CommitInsert(c)
  BY <1>3 DEF IInv, TypeOK, CommitInsert
<1> QED
  BY <1>1, <1>2, <1>3

\* The confirmation the customer reads is of an order that exists, is open and is whole.
THEOREM SavedIsStored == Spec => SavedMeansStored
<1>1. IInv /\ [Next]_vars =>
        [\A c \in Captures : (pc[c] # "saved" /\ pc'[c] = "saved") =>
            \E o \in Captures : status'[o] = "draft" /\ header'[o] = c /\ items'[o] = {c}]_vars
  BY StepStored
<1> QED
  BY <1>1, Invariance, PTL DEF Spec, SavedMeansStored

-----------------------------------------------------------------------------
(* Refinement.  Each commit maps to one step of Cart on whole contents;     *)
(* everything before the commit is a stutter.                               *)

\* Under the invariant no row is torn, and only a row that is there differs from NoOrder.
LEMMA WholeRow ==
  ASSUME TypeOK, ContentsWhole, RowsAreSaved, NEW o \in Captures
  PROVE  /\ status[o] = "none" => Row(o) = NoOrder
         /\ status[o] # "none" =>
              Row(o) = [conv |-> conv[o], status |-> status[o], content |-> header[o]]
         /\ (Row(o) = NoOrder) <=> status[o] = "none"
<1>1. CASE status[o] = "none"
  BY <1>1 DEF Row
<1>2. CASE status[o] # "none"
  <2>1. Row(o) = [conv |-> conv[o], status |-> status[o], content |-> header[o]]
    BY <1>2 DEF Row, ContentsWhole
  <2>2. Row(o) \in [conv: MaybeConversation, status: OrderStatuses, content: Captures]
    BY <1>2, <2>1 DEF TypeOK, RowsAreSaved
  <2> QED
    BY <1>2, <2>1, <2>2
<1> QED
  BY <1>1, <1>2

\* Cart's open drafts are the open drafts of the code.
LEMMA SameOpenDrafts ==
  ASSUME TypeOK, ContentsWhole, RowsAreSaved, NEW o \in Captures, NEW k
  PROVE  (Row(o) # NoOrder /\ Row(o).conv = k /\ Row(o).status = "draft")
            <=> o \in OpenDrafts(k)
BY WholeRow DEF OpenDrafts

\* A row none of whose columns changes is the same row of Cart.
LEMMA SameRow ==
  ASSUME NEW o \in Captures,
         status'[o] = status[o], conv'[o] = conv[o], header'[o] = header[o], items'[o] = items[o]
  PROVE  Row(o)' = Row(o)
BY DEF Row

\* A step that writes no order is a stutter of Cart.
LEMMA NoWriteStutters ==
  ASSUME UNCHANGED orderVars
  PROVE  UNCHANGED Rows
BY DEF Rows, Row

\* The commit of an insert places an order.
LEMMA InsertPlaces ==
  ASSUME IInv, IInv', NEW c \in Captures, CommitInsert(c)
  PROVE  Carts!Place(c, want[c], c)
<1> USE DEF IInv
<1>1. status[c] = "none" /\ Row(c) = NoOrder
  BY WholeRow DEF CommitInsert, RowsAreSaved
<1>2. Row(c)' = [conv |-> want[c], status |-> "draft", content |-> c]
  BY DEF CommitInsert, TypeOK, Row
<1>3. \A o \in Captures \ {c} : Row(o)' = Row(o)
  BY DEF CommitInsert, TypeOK, Row
<1>4. want[c] \in Conversations => \A p \in Captures : ~Carts!Open(p, want[c])
  <2> SUFFICES ASSUME want[c] \in Conversations, NEW p \in Captures
               PROVE  ~Carts!Open(p, want[c])
    OBVIOUS
  <2>1. p \notin OpenDrafts(want[c])
    BY DEF CommitInsert, InsertedHasSlot
  <2> QED
    BY <2>1, SameOpenDrafts DEF Carts!Open, Rows
<1>5. Rows' = [Rows EXCEPT ![c] = [conv |-> want[c], status |-> "draft", content |-> c]]
  BY <1>2, <1>3 DEF Rows
<1> QED
  BY <1>1, <1>4, <1>5 DEF Carts!Place, Rows

\* The commit of a rewrite amends the order, which is still a draft.
LEMMA RewriteAmends ==
  ASSUME IInv, IInv', NEW c \in Captures, CommitRewrite(c)
  PROVE  target[c] \in Captures /\ Carts!Amend(target[c], c)
<1> USE DEF IInv
<1>1. PICK t \in Captures : t = target[c] /\ status[t] = "draft" /\ dropped[c] = items[t]
  BY DEF CommitRewrite, TargetIsOwn, LockedIsDraft, DroppedIsAll
<1>2. Row(t) = [conv |-> conv[t], status |-> "draft", content |-> header[t]] /\ Row(t) # NoOrder
  BY <1>1, WholeRow
<1>3. Row(t)' = [conv |-> conv[t], status |-> "draft", content |-> c]
  BY <1>1 DEF CommitRewrite, TypeOK, Row
<1>4. \A o \in Captures \ {t} : Row(o)' = Row(o)
  BY <1>1 DEF CommitRewrite, TypeOK, Row
<1>5. Rows' = [Rows EXCEPT ![t] = [conv |-> conv[t], status |-> "draft", content |-> c]]
  BY <1>1, <1>3, <1>4 DEF Rows
<1>6. Rows[t] # NoOrder /\ Rows[t].status = "draft" /\ Rows[t].conv = conv[t]
  BY <1>1, <1>2 DEF Rows
<1> QED
  BY <1>1, <1>5, <1>6 DEF Carts!Amend

\* The admin's update is a status change of Cart.
LEMMA SetStatusSets ==
  ASSUME IInv, IInv', NEW o \in Captures, NEW s \in OrderStatuses, SetStatus(o, s)
  PROVE  Carts!SetStatus(o, s)
<1> USE DEF IInv
<1>1. /\ Row(o) = [conv |-> conv[o], status |-> status[o], content |-> header[o]]
      /\ Row(o) # NoOrder
  BY WholeRow DEF SetStatus
<1>2. Row(o)' = [conv |-> conv[o], status |-> s, content |-> header[o]]
  BY DEF SetStatus, TypeOK, ContentsWhole, Row
<1>3. \A p \in Captures \ {o} : Row(p)' = Row(p)
  BY DEF SetStatus, TypeOK, Row
<1>4. (s = "draft" /\ conv[o] \in Conversations) =>
         \A p \in Captures \ {o} : ~Carts!Open(p, conv[o])
  <2> SUFFICES ASSUME s = "draft", conv[o] \in Conversations, NEW p \in Captures \ {o}
               PROVE  ~Carts!Open(p, conv[o])
    OBVIOUS
  <2>1. p \notin OpenDrafts(conv[o])
    BY DEF SetStatus, SlotFree
  <2> QED
    BY <2>1, SameOpenDrafts DEF Carts!Open, Rows
<1>5. Rows' = [Rows EXCEPT ![o] = [conv |-> conv[o], status |-> s, content |-> header[o]]]
  BY <1>2, <1>3 DEF Rows
<1>6. Rows[o] # NoOrder /\ Rows[o].conv = conv[o] /\ Rows[o].content = header[o]
  BY <1>1 DEF Rows
<1> QED
  BY <1>4, <1>5, <1>6 DEF Carts!SetStatus

\* The deletion of a conversation orphans its orders.
LEMMA DeleteOrphans ==
  ASSUME IInv, IInv', NEW k \in Conversations, DeleteConversation(k)
  PROVE  Carts!Orphan(k)
<1> USE DEF IInv
<1>1. ASSUME NEW o \in Captures, status[o] # "none", conv[o] = k
      PROVE  /\ Row(o) # NoOrder /\ Row(o).conv = k
             /\ Row(o)' = [conv |-> NoConversation, status |-> Row(o).status,
                           content |-> Row(o).content]
  <2>1. /\ Row(o) = [conv |-> conv[o], status |-> status[o], content |-> header[o]]
        /\ Row(o) # NoOrder
    BY <1>1, WholeRow
  <2>2. Row(o)' = [conv |-> NoConversation, status |-> status[o], content |-> header[o]]
    BY <1>1 DEF DeleteConversation, TypeOK, ContentsWhole, Row
  <2> QED
    BY <1>1, <2>1, <2>2
<1>2. ASSUME NEW o \in Captures, status[o] = "none" \/ conv[o] # k
      PROVE  ~(Row(o) # NoOrder /\ Row(o).conv = k) /\ Row(o)' = Row(o)
  <2>1. CASE status[o] = "none"
    BY <2>1, WholeRow DEF DeleteConversation, Row
  <2>2. CASE status[o] # "none" /\ conv[o] # k
    BY <2>2, WholeRow, SameRow DEF DeleteConversation, TypeOK
  <2> QED
    BY <1>2, <2>1, <2>2
<1>3. \A o \in Captures :
         Row(o)' = IF Row(o) # NoOrder /\ Row(o).conv = k
                   THEN [conv |-> NoConversation, status |-> Row(o).status,
                         content |-> Row(o).content]
                   ELSE Row(o)
  BY <1>1, <1>2
<1> QED
  BY <1>3 DEF Carts!Orphan, Rows

\* Every step of the code is a step of Cart or leaves the carts as they are.
LEMMA StepImplements ==
  ASSUME IInv, IInv', [Next]_vars
  PROVE  [Carts!Next]_Rows
<1> USE DEF Carts!Next
<1>1. CASE UNCHANGED orderVars
  BY <1>1, NoWriteStutters
<1>2. ASSUME NEW c \in Captures, CommitInsert(c)
      PROVE  Carts!Next
  <2>1. want[c] \in Conversations \cup {NoConversation}
    BY DEF IInv, TypeOK
  <2> QED
    BY <1>2, <2>1, InsertPlaces
<1>3. ASSUME NEW c \in Captures, CommitRewrite(c)
      PROVE  Carts!Next
  BY <1>3, RewriteAmends
<1>4. ASSUME NEW o \in Captures, NEW s \in OrderStatuses, SetStatus(o, s)
      PROVE  Carts!Next
  BY <1>4, SetStatusSets DEF Carts!OrderStatuses
<1>5. ASSUME NEW k \in Conversations, DeleteConversation(k)
      PROVE  Carts!Next
  BY <1>5, DeleteOrphans
<1> QED
  BY <1>1, <1>2, <1>3, <1>4, <1>5
  DEF Next, Capture, Advance, Begin, Resolve, Refuse, FindDraft, LockDraft, DeleteItems, InsertItems,
      InsertOrder, Fail, Quiet, vars

\* The transactions of captureCodOrder, however they overlap with each other and with the
\* admin, implement whole carts with one open draft per conversation.
THEOREM OrderCaptureImplementsCart == Spec => ImplementsCart
<1>1. Init => Carts!Init
  BY DEF Init, Carts!Init, Rows, Row
<1>2. IInv /\ IInv' /\ [Next]_vars => [Carts!Next]_Rows
  BY StepImplements
<1> QED
  BY <1>1, <1>2, Invariance, PTL DEF Spec, ImplementsCart, Carts!Spec
=============================================================================
