------------------------------ MODULE MemPort ------------------------------
(***************************************************************************)
(* What a memory level promises to the levels above it, without any        *)
(* queue, bank or bus: each upper level u asks for blocks and receives     *)
(* them.  pending[u] is what u has asked for and not received, owed[u] is  *)
(* what the memory still remembers to deliver.  The two change together:   *)
(* no answer is invented, repeated or lost, and nothing else happens.      *)
(***************************************************************************)
CONSTANTS Uppers,    \* the levels above (each owns a "returned" queue)
          Blocks     \* block addresses

VARIABLES pending, owed
vars == <<pending, owed>>

Init == /\ pending = [u \in Uppers |-> {}]
        /\ owed = [u \in Uppers |-> {}]

\* u asks for b; an upper level merges in its MSHRs, so it asks once at a time.
Ask(u, b) == /\ b \notin pending[u]
             /\ pending' = [pending EXCEPT ![u] = @ \cup {b}]
             /\ owed' = pending'

\* One answer for b, delivered to all the levels in to (merged requests).
Answer(b, to) == /\ to # {}
                 /\ \A u \in to : b \in pending[u]
                 /\ pending' = [u \in Uppers |-> IF u \in to THEN pending[u] \ {b}
                                                            ELSE pending[u]]
                 /\ owed' = pending'

Next == \/ \E u \in Uppers, b \in Blocks : Ask(u, b)
        \/ \E b \in Blocks, to \in SUBSET Uppers : Answer(b, to)

Spec == Init /\ [][Next]_vars
=============================================================================
