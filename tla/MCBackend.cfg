SPECIFICATION FairSpec
CONSTANTS
  r = r
  a = a
  b = b
  Registers = {r}
  Addresses = {a, b}
  BlockOf <- MCBlockOf
  Instructions <- MCInstructions
  DISPATCH_BUFFER_SIZE = 3
  ROB_SIZE = 3
  LQ_SIZE = 2
  SQ_SIZE = 2
  SCHEDULER_SIZE = 2
  RETIRE_WIDTH = 2
  EXEC_WIDTH = 2
  DISPATCH_WIDTH = 3
  LQ_WIDTH = 2
  SQ_WIDTH = 1
  L1D_BANDWIDTH = 1
  SCHEDULING_LATENCY = 0
  EXEC_LATENCY = 1
  DISPATCH_LATENCY = 0
  L1D_SIZE = 2
  TraceLength = 3
INVARIANTS QueuesAgree LoadsSeeOlderStores RegistersAreReady
PROPERTIES EverythingRetires
