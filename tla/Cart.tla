-------------------------------- MODULE Cart --------------------------------
(***************************************************************************)
(* What the COD order tables promise the shop: every conversation has at   *)
(* most one open draft (its cart), an order's contents come from exactly   *)
(* one capture, and contents change only while the order is a draft.       *)
(* DraftOrders, which has the transactions and row locks of the code, is   *)
(* shown to implement this specification.                                  *)
(***************************************************************************)
CONSTANTS Orders,          \* order ids
          Contents,        \* what one capture writes: destination, money, line items
          Conversations,   \* conversation ids
          NoConversation,  \* conversation_id IS NULL
          NoOrder          \* the row does not exist

VARIABLE cart              \* the committed order rows

OrderStatuses == {"draft", "confirmed", "fulfilled", "canceled"}

\* Order o is the open draft of conversation k.
Open(o, k) == cart[o] # NoOrder /\ cart[o].conv = k /\ cart[o].status = "draft"

Init == cart = [o \in Orders |-> NoOrder]

\* A capture opens a cart; a conversation that has one cannot get a second.
Place(o, k, v) ==
    /\ cart[o] = NoOrder
    /\ k \in Conversations => \A p \in Orders : ~Open(p, k)
    /\ cart' = [cart EXCEPT ![o] = [conv |-> k, status |-> "draft", content |-> v]]

\* A later capture overwrites the contents of an order that is still a draft.
Amend(o, v) ==
    /\ cart[o] # NoOrder /\ cart[o].status = "draft"
    /\ cart' = [cart EXCEPT ![o] = [conv |-> cart[o].conv, status |-> "draft", content |-> v]]

\* The shop moves an order to any status, a second cart excepted.
SetStatus(o, s) ==
    /\ cart[o] # NoOrder
    /\ (s = "draft" /\ cart[o].conv \in Conversations) =>
          \A p \in Orders \ {o} : ~Open(p, cart[o].conv)
    /\ cart' = [cart EXCEPT ![o] = [conv |-> cart[o].conv, status |-> s,
                                    content |-> cart[o].content]]

\* A deleted conversation leaves its orders behind without their link.
Orphan(k) ==
    cart' = [o \in Orders |->
               IF cart[o] # NoOrder /\ cart[o].conv = k
               THEN [conv |-> NoConversation, status |-> cart[o].status,
                     content |-> cart[o].content]
               ELSE cart[o]]

Next ==
    \/ \E o \in Orders, k \in Conversations \cup {NoConversation}, v \in Contents : Place(o, k, v)
    \/ \E o \in Orders, v \in Contents : Amend(o, v)
    \/ \E o \in Orders, s \in OrderStatuses : SetStatus(o, s)
    \/ \E k \in Conversations : Orphan(k)

Spec == Init /\ [][Next]_cart
=============================================================================
