CONSTANTS
  Threads = {t1, t2, t3}
  NoThread = NoThread
  PAGE_SIZE <- MC_PageSize
  DEFAULT_MMAP_THRESHOLD <- MC_MmapThreshold
  DEFAULT_TRIM_THRESHOLD <- MC_TrimThreshold
  Values <- MC_Values
SPECIFICATION Spec
INVARIANTS
  MalloptSticks
