\* Two banks, the first with two blocks of one row and one of another, a write queue of three slots, both of whose marks are 2; the times as they compare in the code.
SPECIFICATION FairDramSpec
CONSTANTS
  Blocks = {0, 2, 4, 8}
  DRAM_CHANNELS = 2
  DRAM_RANKS = 1
  DRAM_BANKS = 2
  DRAM_ROWS = 2
  DRAM_COLUMNS = 2
  None = none
  RQ_SIZE = 2
  WQ_SIZE = 3
  tCAS = 2
  tMISS = 2
  TURN_AROUND = 1
  RETURN_TIME = 1
  MaxAsks = 6
INVARIANTS BanksMatchQueues RowHitsAreReal
PROPERTIES ImplementsMemPort EverythingIsServed
