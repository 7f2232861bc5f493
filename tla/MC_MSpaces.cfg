CONSTANTS
  SIZE_T_BITS    <- MC_SIZE_T_BITS
  TREEBIN_SHIFT  <- MC_TREEBIN_SHIFT
  PAGE_SIZE      <- MC_PAGE_SIZE
  TRIM_THRESHOLD <- MC_TRIM_THRESHOLD
  HEAP_BASE      <- MC_HEAP_BASE
  BRK_LIMIT      <- MC_BRK_LIMIT
  Spaces         <- MC_Spaces
  Base           <- MC_Base
  RegionSize     <- MC_RegionSize
  MSTATE_SIZE    <- MC_MSTATE_SIZE
  Capacities     <- MC_Capacities
  Requests       <- MC_Requests
  Alignments     <- MC_Alignments
  Pads           <- MC_Pads
  CallocArgs     <- MC_CallocArgs
  ICallocArgs    <- MC_NoIalloc
  Comallocs      <- MC_NoIalloc
  PageRequests   <- MC_NoIalloc
  MaxLive        <- MC_MaxLive
SPECIFICATION Spec
INVARIANTS
  TypeOK
  ArenaLayoutOK
  ArenaViewOK
PROPERTIES
  MemoryIsolation
VIEW MC_View
