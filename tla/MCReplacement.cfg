SPECIFICATION Spec
CONSTANTS
  None = None
  Blocks = {a, b, c, d}
  Sets <- MCSets
  Home = "home"
  Tables = {"table"}
  Tags = {a, b, c, d}
  PlaceOf <- MCPlaceOf
  PCMAP_SIZE = 2
  k_sparse = 2
  GLIDER_THRESHOLD_HIGH = 2
  GLIDER_THRESHOLD_LOW = 0
  regularization_threshold = 1
  levels <- MCLevels
  dynamic_thresholds <- MCThresholds
  OPTGEN_SIZE = 4
  TIMER_SIZE = 8
  SAMPLER_HIST = 3
  MAX_PCMAP = 3
  NUM_WAY = 3
  cache_size = 2
  Traffic <- MCTraffic
  Policies = {"lru", "base", "s4lru", "srrip", "drrip", "ship", "red", "hawkeye", "glider"}
  maxRRPV = 3
  MAXRRIP = 5
  MIDRRIP = 2
  NUM_SEGMENTS = 3
  MaxCycle = 4
SYMMETRY Symmetric
INVARIANTS LruKeepsTheMostRecent ReusedLinesStay RripOrdersLines SamplerIsAnLruStack OptgenIsOptimal
CHECK_DEADLOCK FALSE
