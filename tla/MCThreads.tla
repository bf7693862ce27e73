------------------------------ MODULE MCThreads ------------------------------
(* Two turns of one customer, each from an ad of its own, one redelivered    *)
(* under the same Messenger id or typed twice, two requests with one key and *)
(* one wipe.                                                                  *)
EXTENDS Threads, TLC

CONSTANTS t1, t2, s1, s2, w1, k1, p, ad1, ad2, text

MCPsidOf == [x \in Turns \cup Clicks |-> p]
MCMidOf == [t \in Turns |-> None]
MCContentOf == [t \in Turns |-> text]
MCReferralOf == t1 :> ad1 @@ t2 :> ad2 @@ k1 :> ad2
MCKeyOf == [s \in Sends |-> <<"human", 1>>]

\* What is left out of an exploration, so that it ends: everything at once.
Unsent == \A s \in Sends : send[s].pc = "new"
Unwiped == \A w \in Wipes : wipe[w].pc = "new"
Unclicked == \A k \in Clicks : click[k].pc = "new"
Unpinned == \A i \in Existing : ~rows[i].pinned
\* Turns that teach the agent nothing.
Forgetful == memory[p].working = {}
\* One generation a turn, which succeeds.
Once == \A t \in Turns : turn[t].pc \notin {"again", "retrying", "sorry"}
BotOn == \A i \in Existing : rows[i].bot
\* What a turn starts beside it ends before the turn goes on.
Prompt == \A t \in Turns : touch[t] = "none" \/ turn[t].pc = "lookup"
Scenario ==
    \/ Unsent /\ Unclicked /\ Unpinned /\ window = 0 /\ BotOn /\ Prompt /\ born <= 1 /\ Once
    \/ Unsent /\ Unclicked /\ Unpinned /\ window = 0 /\ BotOn /\ Forgetful /\ Once
    \/ turn[t2].pc = "new" /\ Unclicked /\ Unpinned /\ window = 0 /\ (Unsent \/ (Forgetful /\ Once))
    \/ Unsent /\ Unwiped /\ Unclicked /\ Forgetful /\ Once
    \/ Unsent /\ Unwiped /\ Unpinned /\ window = 0 /\ Forgetful /\ Once
=============================================================================
