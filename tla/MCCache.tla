------------------------------ MODULE MCCache ------------------------------
(* Instances of Cache for TLC: every block in one set, addresses with and    *)
(* without offsets.                                                          *)
EXTENDS Cache, TLC

CONSTANTS b1, b2

\* One address per block (L2C, LLC), or two addresses of one block (L1D).
MCBlockOf == [a \in Addresses |-> IF a \in {b1, b2} THEN a ELSE b1]
MCSetOf == [b \in Blocks |-> 0]
Symmetric == Permutations(Loads)
=============================================================================
