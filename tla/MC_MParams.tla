----------------------------- MODULE MC_MParams -----------------------------
EXTENDS MParams

(* Three threads race through their first call; mallopt values: one page *)
(* multiple M_GRANULARITY accepts and one it refuses (no power of 2).   *)
MC_PageSize == 4096
MC_MmapThreshold == 262144
MC_TrimThreshold == 2097152
MC_Values == {8192, 12288}
=============================================================================
