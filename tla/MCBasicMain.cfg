SPECIFICATION FairSpec
CONSTANTS
  NUM_CPUS = 2
  VPages = {1, 2}
  DRAM_PAGES = 2
  MaxFrame = 2
  Adjacent = {1, 2}
  STLB_WAY = 2
  STLB_LATENCY = 2
  PAGE_TABLE_LATENCY = 2
  SWAP_LATENCY = 2
  warmup_instructions = 0
  simulation_instructions = 1
  RETIRE_WIDTH = 2
INVARIANTS TablesAgree TranslationsAreCurrent CoresAreMeasuredAlike
PROPERTIES SimulationEnds
