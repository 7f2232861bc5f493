CONSTANTS
  SIZE_T_BITS    <- MC_SIZE_T_BITS
  TREEBIN_SHIFT  <- MC_TREEBIN_SHIFT
  PAGE_SIZE      <- MC_PAGE_SIZE
  TRIM_THRESHOLD <- MC_TRIM_THRESHOLD
  HEAP_BASE      <- MC_HEAP_BASE
  BRK_LIMIT      <- MC_BRK_LIMIT
  Pads           <- MC_Pads
  Requests       <- MC_Requests
  MaxLive        <- MC_AlignedMaxLive
  Alignments     <- MC_WideAlignments
  CallocArgs     <- MC_NoCallocArgs
  ICallocArgs    <- MC_NoIalloc
  Comallocs      <- MC_NoIalloc
  PageRequests   <- MC_NoIalloc
SPECIFICATION Spec
INVARIANTS
  MemalignReturns
VIEW MC_View
