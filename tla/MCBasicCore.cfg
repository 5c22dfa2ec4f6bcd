CONSTANTS
  r1 = r1
  r2 = r2
  A = A
  B = B
  Nothing = Nothing
  Registers = {r1, r2}
  Words = {A, B}
  Programs <- MCPrograms
  ROB_SIZE = 4
  SCHEDULER_SIZE = 3
  LQ_SIZE = 2
  SQ_SIZE = 2
SPECIFICATION FairCoreSpec
INVARIANTS RingsAgree LoadsGetTheYoungestStore
PROPERTIES EverythingRetires
CHECK_DEADLOCK FALSE
