SPECIFICATION FairSpec
CONSTANTS
  w1 = w1
  w2 = w2
  w3 = w3
  Windows = {w1, w2, w3}
  BlockOf <- MCBlockOf
  IFETCH_BUFFER_SIZE = 3
  DECODE_BUFFER_SIZE = 2
  DISPATCH_BUFFER_SIZE = 1
  DIB_WAY = 1
  FETCH_WIDTH = 2
  DECODE_WIDTH = 1
  L1I_BANDWIDTH = 2
  DECODE_LATENCY = 1
  BRANCH_MISPREDICT_PENALTY = 1
  L1I_SIZE = 2
  TraceLength = 4
INVARIANTS FetchesArePending MispredictionStopsFetch
PROPERTIES EverythingIsDispatched
