CONSTANTS
  D1 = D1
  D2 = D2
  NoSize = NoSize
  B1 = B1
  B2 = B2
  B3 = B3
  B4 = B4
  B5 = B5
  B6 = B6
  B7 = B7
  Slots       <- MC_DoubleSlots
  Buffers     <- MC_ProducerBuffers
  Pixels      <- MC_OnePixel
  Rects       <- MC_OneRect
  Dims        <- MC_Dims
  DefaultDims = D1
  NoDims      = NoSize
  ProducerApis  <- MC_Apis
  SwapIntervals <- MC_Intervals
  MaxAppHeld    <- MC_OneHeld
SPECIFICATION Spec
INVARIANTS
  SlotCacheCoherent
  LockedNotConsumed
  CachedBehindSound
PROPERTIES
  DequeuedAsAsked
CONSTRAINT MC_SlotsExplicit
VIEW MC_View
