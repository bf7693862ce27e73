------------------------------ MODULE MCInbound ------------------------------
(* Small instances of Inbound: messages and postbacks, sent more than once.  *)
EXTENDS Inbound

CONSTANTS m1, m2, p1, p2
=============================================================================
