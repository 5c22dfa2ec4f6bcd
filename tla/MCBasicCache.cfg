\* Three data and code blocks, two ways, two misses at a time.
SPECIFICATION FairSpec
CONSTANTS
  Kinds = {"L1D", "L2C", "LLC", "STLB"}
  Loads = {l1, l2}
  CodeBlocks = {c1}
  DataBlocks = {d1, d2}
  None = None
  NUM_WAY = 2
  RQ_SIZE = 2
  WQ_SIZE = 2
  PQ_SIZE = 2
  MSHR_SIZE = 2
  UPPER_MSHR_SIZE = 1
  MaxAsks = 5
INVARIANTS WaitersAreServed WrittenBlocksStayDirty
PROPERTIES EverythingIsAnswered
CHECK_DEADLOCK FALSE
