CONSTANTS
  SIZE_T_BITS    <- MC_SIZE_T_BITS
  TREEBIN_SHIFT  <- MC_TREEBIN_SHIFT
  PAGE_SIZE      <- MC_PAGE_SIZE
  TRIM_THRESHOLD <- MC_TRIM_THRESHOLD
  HEAP_BASE      <- MC_HEAP_BASE
  BRK_LIMIT      <- MC_BRK_LIMIT
  Pads           <- MC_Pads
  Requests       <- MC_AlignedRequests
  MaxLive        <- MC_AlignedMaxLive
  Alignments     <- MC_Alignments
  CallocArgs     <- MC_CallocArgs
  ICallocArgs    <- MC_NoIalloc
  Comallocs      <- MC_NoIalloc
  PageRequests   <- MC_WrapPage
SPECIFICATION Spec
INVARIANTS
  ClientViewOK
VIEW MC_View
