------------------------------- MODULE MCDram -------------------------------
(***************************************************************************)
(* A small DRAM channel: two banks in one rank, one column, two rows, so   *)
(* that blocks 0 and 2 share bank 0 in different rows and 1 has bank 1.    *)
(* The first write after an answer is of block 0, the next one of 1.       *)
(***************************************************************************)
EXTENDS Dram

Address == INSTANCE DramAddress WITH DRAM_CHANNELS <- 1, DRAM_RANKS <- 1,
             DRAM_BANKS <- 2, DRAM_COLUMNS <- 1, DRAM_ROWS <- 2
MCBlocks == 0..2
MCBankOf == [b \in MCBlocks |-> Address!op_idx(b)]
MCRowOf  == [b \in MCBlocks |-> Address!dram_get_row(b)]
MCWrites == [c \in 1..WriteCredit |-> IF c = WriteCredit THEN {0} ELSE {1}]
=============================================================================
