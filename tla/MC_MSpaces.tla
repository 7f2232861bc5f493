----------------------------- MODULE MC_MSpaces -----------------------------
(***************************************************************************)
(* MSpaces for TLC: DLHeap's 16-bit scale (64-byte pages, 8 small bins),  *)
(* two handles with 256-byte regions side by side, a 16-byte              *)
(* malloc_state chunk.                                                     *)
(***************************************************************************)
EXTENDS MSpaces

MC_SIZE_T_BITS    == 16
MC_TREEBIN_SHIFT  == 6
MC_PAGE_SIZE      == 64
MC_TRIM_THRESHOLD == 128
MC_HEAP_BASE      == 64
MC_BRK_LIMIT      == 64 + 512 + 8

MC_Spaces      == {"s1", "s2"}
MC_Base        == [s \in MC_Spaces |-> IF s = "s1" THEN 64 ELSE 64 + 256]
MC_RegionSize  == 256
MC_MSTATE_SIZE == 16

\* create_mspace maps 128 bytes for capacity 40 and 256 for 160;
\* create_mspace_with_base refuses 40 and takes 160.  A small-bin and a
\* tree request, memalign at 32, an overflowing calloc.
MC_Capacities == {40, 160}
MC_Requests   == {20, 100}
MC_Alignments == {32}
MC_Pads       == {0}
MC_CallocArgs == {<<2, 2^15>>}
MC_MaxLive    == 2

(* States are told apart by the words an arena will read again (as in     *)
(* MC_DLHeap): the heads of its chunks, top and fencepost, and the        *)
(* prev_foot after each free chunk.  Words of destroyed arenas and stale  *)
(* words inside chunks are not read before they are written.              *)
TagWordsOf(s) ==
  LET a == Arena(s) IN
  {c + H!SIZE_T_SIZE : c \in A(s)!ChunkSet \cup {a.top, a.top + a.topsize}}
  \cup {c + H!chunksize(a, c) : c \in A(s)!FreeChunks}
MC_View ==
  <<[w \in UNION {TagWordsOf(s) : s \in spaces} \cap H!Addrs |-> mem[w]], ms, live>>

\* No independent_calloc/comalloc, valloc or pvalloc calls.
MC_NoIalloc == {}
=============================================================================
