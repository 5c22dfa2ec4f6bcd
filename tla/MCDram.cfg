\* One upper level, bank conflicts and row misses, two reads and three writes (where both watermarks are 2).
SPECIFICATION FairSpec
CONSTANTS
  Uppers = {u1}
  None = None
  Blocks <- MCBlocks
  BankOf <- MCBankOf
  RowOf <- MCRowOf
  NumBanks = 2
  RQ_SIZE = 2
  WQ_SIZE = 3
  tCAS = 1
  tMISS = 1
  TURN_AROUND = 1
  RETURN_TIME = 2
  WriteCredit = 2
  Writes <- MCWrites
INVARIANTS IInv
PROPERTIES WritesReachBank ImplementsMemPort ModesMakeProgress ReadsAnswered
