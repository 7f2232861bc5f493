CONSTANTS
  D1 = D1
  D2 = D2
  NoSize = NoSize
  B1 = B1
  B2 = B2
  B3 = B3
  B4 = B4
  B5 = B5
  B6 = B6
  B7 = B7
  Slots       <- MC_DoubleSlots
  Buffers     <- MC_DoubleBuffers
  Pixels      <- MC_Pixels
  Rects       <- MC_Rects
  Dims        <- MC_Dims
  DefaultDims = D1
  NoDims      = NoSize
  ProducerApis  <- MC_NoApis
  SwapIntervals <- MC_NoIntervals
  MaxAppHeld    <- MC_NoneHeld
SPECIFICATION Spec
INVARIANTS
  LockedBufferShowsFrame
VIEW MC_View
