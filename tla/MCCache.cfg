SPECIFICATION Spec
CONSTANTS
  b1 = b1
  b2 = b2
  None = None
  Addresses = {b1, b2}
  Loads = {l1, l2}
  BlockOf <- MCBlockOf
  SetOf <- MCSetOf
  match_offset_bits = FALSE
  NumUppers = 2
  NUM_WAY = 1
  MSHR_SIZE = 2
  RQ_SIZE = 2
  WQ_SIZE = 2
  PQ_SIZE = 1
  HIT_LATENCY = 1
  FILL_LATENCY = 1
  MAX_TAG = 1
  MAX_FILL = 1
  prefetch_as_load = FALSE
  MayBypass = TRUE
  LOWER_SIZE = 2
  MaxInFlight = 2
SYMMETRY Symmetric
INVARIANTS PipelinesAgree WrittenBlocksStayDirty
PROPERTIES ImplementsLoadPort
