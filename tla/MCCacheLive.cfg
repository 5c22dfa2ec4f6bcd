SPECIFICATION FairSpec
CONSTANTS
  b1 = b1
  b2 = b2
  None = None
  Addresses = {b1, b2}
  Loads = {l1}
  BlockOf <- MCBlockOf
  SetOf <- MCSetOf
  match_offset_bits = FALSE
  NumUppers = 1
  NUM_WAY = 1
  MSHR_SIZE = 1
  RQ_SIZE = 2
  WQ_SIZE = 2
  PQ_SIZE = 1
  HIT_LATENCY = 1
  FILL_LATENCY = 1
  MAX_TAG = 1
  MAX_FILL = 1
  prefetch_as_load = FALSE
  MayBypass = FALSE
  LOWER_SIZE = 1
  MaxInFlight = 2
PROPERTIES LoadsAnswered
