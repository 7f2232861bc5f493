----------------------------- MODULE MC_DLHeapMT -----------------------------
(***************************************************************************)
(* DLHeapMT for TLC: the arena constants of MC_DLHeap, two client threads. *)
(***************************************************************************)
EXTENDS DLHeapMT

MC_SIZE_T_BITS    == 16
MC_TREEBIN_SHIFT  == 6
MC_PAGE_SIZE      == 64
MC_TRIM_THRESHOLD == 128
MC_HEAP_BASE      == 64
MC_BRK_LIMIT      == 64 + 256

\* A minimum, a small-bin and a tree request; memalign at 32 bytes (so it
\* carves a leader or a trailer); two blocks held at once besides the
\* chunks waiting for their deferred free.
MC_Requests   == {20, 100}
MC_Alignments == {32}
MC_MaxLive    == 2
MC_Pads       == {0}
MC_NoCallocArgs == {}

(* As MC_DLHeap's view: the words the allocator will read again.          *)
TagWords == {c + H!SIZE_T_SIZE : c \in H!ChunkSet \cup {h.top, h.top + h.topsize}}
            \cup {H!NextOf(c) : c \in H!FreeChunks}
MC_View == <<[w \in TagWords \cap H!Addrs |-> h.mem[w]], [h EXCEPT !.mem = 0],
             live, pending>>

\* No independent_calloc/comalloc, valloc or pvalloc calls.
MC_NoIalloc == {}
=============================================================================
