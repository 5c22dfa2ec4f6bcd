---------------------------- MODULE DramAddress ----------------------------
(***************************************************************************)
(* The address mapping of the DRAM controller (dram_get_* in               *)
(* src/dram_controller.cc), on block numbers (address >> LOG2_BLOCK_SIZE): *)
(*                                                                         *)
(*     | row | rank | column | bank | channel |                            *)
(*                                                                         *)
(* The sizes are powers of two, so >> and & are \div and %.                *)
(***************************************************************************)
EXTENDS Integers

CONSTANTS DRAM_CHANNELS, DRAM_RANKS, DRAM_BANKS, DRAM_COLUMNS, DRAM_ROWS

dram_get_channel(b) == b % DRAM_CHANNELS
dram_get_bank(b)    == (b \div DRAM_CHANNELS) % DRAM_BANKS
dram_get_column(b)  == (b \div (DRAM_BANKS * DRAM_CHANNELS)) % DRAM_COLUMNS
dram_get_rank(b)    == (b \div (DRAM_BANKS * DRAM_COLUMNS * DRAM_CHANNELS)) % DRAM_RANKS
dram_get_row(b)     ==
  (b \div (DRAM_RANKS * DRAM_BANKS * DRAM_COLUMNS * DRAM_CHANNELS)) % DRAM_ROWS

\* The index into DRAM_CHANNEL::bank_request.
op_idx(b) == dram_get_rank(b) * DRAM_BANKS + dram_get_bank(b)
size      == DRAM_CHANNELS * DRAM_RANKS * DRAM_BANKS * DRAM_ROWS * DRAM_COLUMNS
=============================================================================
