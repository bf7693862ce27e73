----------------------------- MODULE Knowledge -----------------------------
(***************************************************************************)
(* The brand knowledge the panel edits and the agent's turns read.  An     *)
(* entry belongs to one product or to the whole store, and customers are   *)
(* told published entries only.  A request of the panel that reads before  *)
(* it writes has a step for each; the other requests are one statement.    *)
(* Which of several entries rank highest is left open.                     *)
(***************************************************************************)
EXTENDS Naturals, FiniteSets, FiniteSetsExt

CONSTANTS None,
          Products, Entries,
          FirstShelf,    \* FirstShelf[p]: the product at the start
          FirstEntry,    \* FirstEntry[e]: the entry at the start, or None
          Matching,      \* the entries whose text matches a customer's question
          MaxEntries     \* LIMIT of getRelevant

VARIABLES shelf,    \* shelf[p]: "published", "draft" or "gone"
          entry,    \* entry[e]: its product and is_published, or None
          request   \* the panel's request in flight: the fields it will write where

knowledgeVars == <<shelf, entry, request>>

Entry == [product : Products \cup {None}, published : BOOLEAN]
Fields == {"product", "published"}
\* A request that sets all the fields of no row is one that creates it.
Request == [entry : Entries, to : Entry, sets : SUBSET Fields, new : BOOLEAN]
NoRequest == [entry |-> None, to |-> None, sets |-> {}, new |-> FALSE]

InitKnowledge == shelf = FirstShelf /\ entry = FirstEntry /\ request = NoRequest

TypeOKKnowledge ==
    /\ shelf \in [Products -> {"published", "draft", "gone"}]
    /\ entry \in [Entries -> Entry \cup {None}]
    /\ request \in Request \cup {NoRequest}

\* knowledge_entries that exist now.
Kept == {e \in Entries : entry[e] # None}

-----------------------------------------------------------------------------
(* The panel. *)

\* create and update look the product up, a draft too, and write in a second transaction.
AskWrite(e, to, sets) ==
    /\ request = NoRequest
    /\ e \notin Kept => sets = Fields
    /\ "product" \in sets /\ to.product # None => shelf[to.product] # "gone"
    /\ request' = [entry |-> e, to |-> to, sets |-> sets, new |-> e \notin Kept]
    /\ UNCHANGED <<shelf, entry>>

\* togglePublish reads the row and will write the opposite.
AskToggle(e) == e \in Kept /\ AskWrite(e, [entry[e] EXCEPT !.published = ~@], {"published"})

\* The foreign key refuses a product that was deleted in between.
Refused == "product" \in request.sets /\ request.to.product # None /\ shelf[request.to.product] = "gone"

\* INSERT, or UPDATE of a row that exists still; of one that vanished it answers 404.
Write ==
    LET e == request.entry IN
    /\ request # NoRequest
    /\ entry' = IF Refused \/ (~request.new /\ e \notin Kept) THEN entry
                ELSE [entry EXCEPT ![e] = IF request.new THEN request.to
                                          ELSE [f \in Fields |-> IF f \in request.sets THEN request.to[f] ELSE @[f]]]
    /\ request' = NoRequest
    /\ UNCHANGED shelf

SetPublished(e, to) ==
    /\ e \in Kept
    /\ entry' = [entry EXCEPT ![e].published = to]
    /\ UNCHANGED <<shelf, request>>

Delete(e) ==
    /\ e \in Kept
    /\ entry' = [entry EXCEPT ![e] = None]
    /\ UNCHANGED <<shelf, request>>

\* The product's own publish flag.
SetShelf(p, to) ==
    /\ shelf[p] # "gone" /\ shelf[p] # to
    /\ shelf' = [shelf EXCEPT ![p] = to]
    /\ UNCHANGED <<entry, request>>

\* DELETE of a product takes its entries along (ON DELETE CASCADE).
DeleteProduct(p) ==
    /\ shelf[p] # "gone"
    /\ shelf' = [shelf EXCEPT ![p] = "gone"]
    /\ entry' = [e \in Entries |-> IF e \in Kept /\ entry[e].product = p THEN None ELSE entry[e]]
    /\ UNCHANGED request

EditEntries ==
    \E e \in Entries : \/ \E to \in Entry : \E sets \in SUBSET Fields \ {{}} : AskWrite(e, to, sets)
                       \/ AskToggle(e) \/ Delete(e)
                       \/ \E b \in BOOLEAN : SetPublished(e, b)
EditProducts == \E p \in Products : DeleteProduct(p) \/ \E to \in {"published", "draft"} : SetShelf(p, to)

-----------------------------------------------------------------------------
(* What a turn reads. *)

\* findRelevant: published, in scope ({None} is the store's), and matching when there is
\* a query.
Candidates(products, asked) ==
    {e \in Kept : /\ entry[e].published
                  /\ entry[e].product \in products
                  /\ asked => e \in Matching}

\* The n best of them, whichever they are.
FindRelevant(products, asked, n) ==
    LET es == Candidates(products, asked) IN kSubset(Min({n, Cardinality(es)}), es)
=============================================================================
