------------------------------ MODULE Persona ------------------------------
(***************************************************************************)
(* The agent's persona.  The row that is active shapes the system prompt;  *)
(* the prompt is kept for a minute, for all customers, and turns that find *)
(* it over fill it again, each by itself.  setActive is a transaction of   *)
(* two statements (READ COMMITTED): it deactivates every other row, then   *)
(* activates its target, and shows both at its commit; until then it locks *)
(* the rows it has written.  A partial unique index admits one active row. *)
(***************************************************************************)
EXTENDS Naturals, FiniteSets

CONSTANTS Personas, Switches,
          Turns,         \* the turns that ask for the prompt
          First,         \* the row that is active at the start
          Default,       \* DEFAULT_PERSONA
          NoCache

VARIABLES persona,   \* persona[p]: "gone", "active" or "idle"
          blank,     \* the rows whose texts are all empty
          spc,       \* spc[s]: how far the call s of setActive has come
          target,    \* target[s]: the row it is to activate, Default before
          cache,     \* the persona block in the cached instructions
          asking,    \* the turns that wait for the active row
          fill,      \* fill[t]: the block t has read and not cached yet, or NoCache
          recent     \* history: the blocks that were the active row's since the cache last
                     \* expired with nobody filling it

switchVars == <<persona, blank, spc, target>>
personaVars == <<switchVars, cache, asking, fill, recent>>

Active == {p \in Personas : persona[p] = "active"}
\* getActive and buildPersonaBlock: a row without texts is as none.
Block == IF Active \subseteq blank THEN Default ELSE CHOOSE p \in Active \ blank : TRUE

InitPersona ==
    /\ persona = [p \in Personas |-> IF p = First THEN "active" ELSE "idle"]
    /\ blank = {}
    /\ spc = [s \in Switches |-> "new"]
    /\ target = [s \in Switches |-> Default]
    /\ cache = NoCache /\ asking = {} /\ fill = [t \in Turns |-> NoCache]
    /\ recent = {Block}

TypeOKPersona ==
    /\ persona \in [Personas -> {"gone", "active", "idle"}]
    /\ blank \subseteq Personas
    /\ spc \in [Switches -> {"new", "deactivated", "switched", "missing", "failed"}]
    /\ target \in [Switches -> Personas \cup {Default}]
    /\ cache \in Personas \cup {Default, NoCache}
    /\ asking \subseteq Turns /\ fill \in [Turns -> Personas \cup {Default, NoCache}]
    /\ recent \subseteq Personas \cup {Default}

\* The rows an open transaction has written: all that existed but the target.
LockedBy(s) == IF spc[s] = "deactivated" THEN {p \in Personas : persona[p] # "gone"} \ {target[s]} ELSE {}
Free(p) == \A s \in Switches : p \notin LockedBy(s)

\* The rest of a request about the rows.
Rows == UNCHANGED <<cache, asking, fill>> /\ recent' = recent \cup {Block'}

-----------------------------------------------------------------------------
(* setActive. *)

\* Mutant: each statement commits by itself.
Deactivate_commits(s, p) ==
    /\ spc[s] = "new"
    /\ persona' = [q \in Personas |-> IF q # p /\ persona[q] = "active" THEN "idle" ELSE persona[q]]
    /\ spc' = [spc EXCEPT ![s] = "deactivated"]
    /\ target' = [target EXCEPT ![s] = p]
    /\ UNCHANGED blank /\ Rows
\* UPDATE ... SET is_active = false WHERE id <> p; waits for the locks of another.
Deactivate(s, p) ==
    /\ spc[s] = "new"
    /\ \A q \in Personas \ {p} : Free(q)
    /\ spc' = [spc EXCEPT ![s] = "deactivated"]
    /\ target' = [target EXCEPT ![s] = p]
    /\ UNCHANGED <<persona, blank>> /\ Rows

\* UPDATE ... SET is_active = true WHERE id = target, and the commit.  The target may be
\* gone, and the commit then leaves no row active.
Activate(s) ==
    /\ spc[s] = "deactivated"
    /\ \A r \in Switches \ {s} : target[s] \notin LockedBy(r)
    /\ persona' = [p \in Personas |-> IF persona[p] = "gone" THEN "gone"
                                      ELSE IF p = target[s] THEN "active" ELSE "idle"]
    /\ spc' = [spc EXCEPT ![s] = IF persona[target[s]] = "gone" THEN "missing" ELSE "switched"]
    /\ UNCHANGED <<blank, target>> /\ Rows

\* A statement fails, or two calls wait for each other and one is chosen to: rolled back.
Abort(s) ==
    /\ spc[s] = "deactivated"
    /\ spc' = [spc EXCEPT ![s] = "failed"]
    /\ UNCHANGED <<persona, blank, target>> /\ Rows

-----------------------------------------------------------------------------
(* The other requests, one statement each. *)

\* create: always idle.  Its id is new, so no open transaction is about the row, and it is
\* made between them.
Create(p) ==
    /\ persona[p] = "gone" /\ \A s \in Switches : spc[s] # "deactivated"
    /\ persona' = [persona EXCEPT ![p] = "idle"]
    /\ blank' = blank \ {p}
    /\ UNCHANGED <<spc, target>> /\ Rows

\* update: the texts and is_active too.  A second active row breaks the unique index.
Update(p, to, empty) ==
    /\ persona[p] # "gone" /\ Free(p)
    /\ to = "active" => Active \subseteq {p} /\ \A q \in Active : Free(q)
    /\ persona' = [persona EXCEPT ![p] = to]
    /\ blank' = IF empty THEN blank \cup {p} ELSE blank \ {p}
    /\ UNCHANGED <<spc, target>> /\ Rows

Erase(p) ==
    /\ persona[p] # "gone" /\ Free(p)
    /\ persona' = [persona EXCEPT ![p] = "gone"]
    /\ blank' = blank \ {p}
    /\ UNCHANGED <<spc, target>> /\ Rows

Switch(s) == (\E p \in Personas : Deactivate(s, p)) \/ Activate(s) \/ Abort(s)
EditPersona == \E p \in Personas :
    Create(p) \/ Erase(p) \/ \E to \in {"active", "idle"}, empty \in BOOLEAN : Update(p, to, empty)

-----------------------------------------------------------------------------
(* getInstructions, once for each generation. *)

\* The minute of the cached instructions is over.
Expire ==
    /\ cache # NoCache
    /\ cache' = NoCache
    /\ recent' = IF asking = {} /\ (\A t \in Turns : fill[t] = NoCache) THEN {Block} ELSE recent
    /\ UNCHANGED <<switchVars, asking, fill>>

\* t is at the start of a call.
Calls(t) == t \notin asking /\ fill[t] = NoCache
\* The cached prompt is valid.
Cached(t) == Calls(t) /\ cache # NoCache /\ UNCHANGED personaVars
\* It is not, and the active row is asked for.
AskActive(t) ==
    /\ Calls(t) /\ cache = NoCache
    /\ asking' = asking \cup {t}
    /\ UNCHANGED <<switchVars, cache, fill, recent>>
ReadActive(t) ==
    /\ t \in asking
    /\ asking' = asking \ {t}
    /\ fill' = [fill EXCEPT ![t] = Block]
    /\ UNCHANGED <<switchVars, cache, recent>>
\* Mutant: the fallback is cached too.
ReadFails_cached(t) ==
    /\ t \in asking
    /\ asking' = asking \ {t} /\ cache' = Default
    /\ UNCHANGED <<switchVars, fill, recent>>
\* The catch: the prompt is the default's, and is not cached.
ReadFails(t) ==
    /\ t \in asking
    /\ asking' = asking \ {t}
    /\ UNCHANGED <<switchVars, cache, fill, recent>>
\* The row has come back: its prompt is cached, over a newer one if need be.
Fill(t) ==
    /\ fill[t] # NoCache
    /\ cache' = fill[t] /\ fill' = [fill EXCEPT ![t] = NoCache]
    /\ UNCHANGED <<switchVars, asking, recent>>

\* A switch that has answered with success left its target, and nothing else, active; one
\* that has not committed changed nothing; no step makes two rows active (setActive).
OnePersona ==
    [][/\ Cardinality(Active') <= 1
       /\ \A s \in Switches : spc'[s] # spc[s] =>
            CASE spc'[s] = "switched" -> Active' = {target[s]}
              [] spc'[s] = "missing" -> TRUE
              [] OTHER -> Active' = Active]_personaVars

\* "Admin edits propagate": the prompt that is cached, and any that a turn has read to cache,
\* was the active row's after the cache last expired with nobody filling it; so no edit is
\* older than the minute and a read, and a failed read's default outlives its own turn only
\* when it is the active one (getInstructions).
PersonaIsRecent ==
    {cache} \cup {fill[t] : t \in Turns} \subseteq recent \cup {NoCache}
=============================================================================
