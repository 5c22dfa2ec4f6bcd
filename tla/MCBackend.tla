----------------------------- MODULE MCBackend -----------------------------
(* Instances of Backend for TLC: one register, two addresses of two blocks,  *)
(* and the kinds of instruction that can get in each other's way: one that   *)
(* waits for r and produces it, one that loads r, one that stores r, and one *)
(* with two loads and two stores.                                            *)
EXTENDS Backend

CONSTANTS r, a, b

Instr(src, dst, load, store) ==
  [source_registers |-> src, destination_registers |-> dst,
   source_memory |-> load, destination_memory |-> store]
MCBlockOf == [x \in Addresses |-> x]

MCInstructions == {Instr({r}, {r}, <<>>, <<>>), Instr({}, {r}, <<a>>, <<>>),
                   Instr({r}, {}, <<>>, <<a>>), Instr({}, {}, <<a, b>>, <<b, a>>)}
=============================================================================
