---------------------------- MODULE MCBasicCore -----------------------------
(* BasicCore on short traces: stores that loads wait for, an instruction that *)
(* reads and writes the same word, chains through registers, a branch.        *)
EXTENDS BasicCore

CONSTANTS r1, r2, A, B

Plain == NoInstruction
Load(w, from, to) == [Plain EXCEPT !.source_memory = w, !.source_registers = from,
                                   !.destination_registers = to]
Store(w, from)    == [Plain EXCEPT !.destination_memory = w, !.source_registers = from]
Update(w)         == [Plain EXCEPT !.source_memory = w, !.destination_memory = w]
Branch(from)      == [Plain EXCEPT !.is_branch = TRUE, !.source_registers = from]
Compute(from, to) == [Plain EXCEPT !.source_registers = from, !.destination_registers = to]

MCPrograms ==
  {<<Compute({}, {r1}), Store(A, {r1}), Store(B, {}), Load(A, {}, {r2}), Load(B, {r2}, {r1})>>,
   <<Load(B, {}, {r1}), Branch({r1}), Store(A, {}), Load(A, {}, {}), Load(A, {}, {})>>,
   <<Update(A), Update(A), Load(A, {}, {r1}), Compute({r1, r2}, {r2}), Branch({r2})>>,
   <<Load(A, {}, {r1}), Load(A, {}, {r2}), Store(A, {}), Load(A, {}, {r1}), Store(B, {r1})>>}
=============================================================================
