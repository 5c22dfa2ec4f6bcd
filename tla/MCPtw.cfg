SPECIFICATION FairSpec
CONSTANTS
  Cpus = {c1, c2}
  Cpu = c1
  None = None
  Addresses = {0, 4}
  OtherAddresses = {0}
  Loads = {l1}
  pt_levels = 2
  RADIX = 2
  PTES = 2
  FirstPage = 1
  last_ppage = 12
  NumUppers = 1
  RQ_SIZE = 1
  PSCL_WAY = 1
  BLOCK = 2
  MAX_READ = 1
  MAX_FILL = 1
  HIT_LATENCY = 0
  minor_fault_penalty = 1
  LOWER_SIZE = 2
  MaxWalks = 2
INVARIANTS AnswersAreCurrent PagesNeverShared
PROPERTIES UsesVmem ImplementsLoadPort LoadsAnswered
