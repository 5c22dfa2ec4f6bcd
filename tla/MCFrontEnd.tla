----------------------------- MODULE MCFrontEnd -----------------------------
(* Instances of FrontEnd for TLC: two windows in one block, one in another.  *)
EXTENDS FrontEnd

CONSTANTS w1, w2, w3
MCBlockOf == [w \in Windows |-> IF w = w3 THEN 2 ELSE 1]
=============================================================================
