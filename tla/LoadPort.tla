------------------------------ MODULE LoadPort ------------------------------
(***************************************************************************)
(* What a cache promises to the levels above it, without any queue, tag or *)
(* MSHR: every load an upper level issues stays pending until the cache    *)
(* answers it, once.  waiting[l] is what was asked for with l (or          *)
(* Nothing), held[l] what the cache still remembers of it.  One answer may *)
(* serve several loads, of several upper levels, at a time.                *)
(***************************************************************************)
CONSTANTS Requests,  \* who asks, and for which block
          Loads,     \* identities of loads in flight
          Nothing    \* not a request

VARIABLES waiting, held
vars == <<waiting, held>>

Init == /\ waiting = [l \in Loads |-> Nothing]
        /\ held = waiting

Issue(r, l) == /\ waiting[l] = Nothing
               /\ waiting' = [waiting EXCEPT ![l] = r]
               /\ held' = waiting'

Answer(S) == /\ S # {}
             /\ \A l \in S : waiting[l] # Nothing
             /\ waiting' = [l \in Loads |-> IF l \in S THEN Nothing ELSE waiting[l]]
             /\ held' = waiting'

Next == \/ \E r \in Requests, l \in Loads : Issue(r, l)
        \/ \E S \in SUBSET Loads : Answer(S)

Spec == Init /\ [][Next]_vars
=============================================================================
