CONSTANTS
  SIZE_T_BITS    <- MC_SIZE_T_BITS
  TREEBIN_SHIFT  <- MC_TREEBIN_SHIFT
  PAGE_SIZE      <- MC_PAGE_SIZE
  TRIM_THRESHOLD <- MC_TRIM_THRESHOLD
  HEAP_BASE      <- MC_HEAP_BASE
  BRK_LIMIT      <- MC_BRK_LIMIT
  Pads           <- MC_Pads
  Requests       <- MC_AlignedRequests
  MaxLive        <- MC_AlignedMaxLive
  Alignments     <- MC_Alignments
  CallocArgs     <- MC_CallocArgs
  ICallocArgs    <- MC_ICallocArgs
  Comallocs      <- MC_Comallocs
  PageRequests   <- MC_PageRequests
SPECIFICATION Spec
INVARIANTS
  ChunkLayoutOK
  ClientViewOK
  NoFalseAlarm
  DebugChecksPass
  ClientChunksTight
  MallinfoAccounts
  TreeIndexBitsOK
PROPERTIES
  AbstractHeapSpec
VIEW MC_View
