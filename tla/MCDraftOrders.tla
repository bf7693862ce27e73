---------------------------- MODULE MCDraftOrders ----------------------------
(* Small instances of DraftOrders: three calls of captureCodOrder over two  *)
(* conversations and no conversation at all.                                *)
EXTENDS DraftOrders, TLC

CONSTANTS c1, c2, c3, k1, k2

\* No call repeats another.
NoRetries == [c \in Captures |-> NoCapture]

\* The agent regenerated an empty reply: c2 repeats c1.
OneRetry == c2 :> c1 @@ [c \in Captures |-> NoCapture]

\* Captures and conversations are interchangeable when no call repeats another, so the
\* calls may as well begin in the order of their names and use the first conversation
\* first.  (A SYMMETRY set would not be sound for the liveness property.)
Began(c) == pc[c] # "idle"
InOrder ==
    /\ Began(c3) => Began(c2)
    /\ Began(c2) => Began(c1)
    /\ want[c1] # k2
    /\ want[c2] = k2 => want[c1] = k1
    /\ want[c3] = k2 => k1 \in {want[c1], want[c2]}
=============================================================================
