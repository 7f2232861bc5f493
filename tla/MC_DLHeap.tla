----------------------------- MODULE MC_DLHeap -----------------------------
(***************************************************************************)
(* DLHeap instantiated for TLC: 16-bit size_t, 64-byte pages, tree bins   *)
(* from 64 bytes (so 8 small bins), and a 256-byte sbrk limit.            *)
(***************************************************************************)
EXTENDS DLHeap

MC_SIZE_T_BITS    == 16
MC_TREEBIN_SHIFT  == 6
MC_PAGE_SIZE      == 64
MC_TRIM_THRESHOLD == 128
MC_HEAP_BASE      == 64
MC_BRK_LIMIT      == 64 + 256

\* Requests of a minimum (16-byte), a small-bin (24-byte) and a tree
\* (104-byte) chunk.  Three blocks at once give holes on both sides of a
\* block, a dv next to binned chunks and tree chunks above a small one.
MC_Requests       == {1, 20, 100}
MC_MaxLive        == 3
MC_Pads           == {0}
MC_NoAlignments   == {}
MC_NoCallocArgs   == {}

\* The aligned run: memalign with a 32-byte alignment, calloc with a product
\* that overflows size_t and one that does not, and a request at
\* MAX_REQUEST; two blocks at once.
MC_AlignedRequests == {1, 20, 100, 2^16 - 64}
MC_Alignments      == {32}
MC_CallocArgs      == {<<2, 2^15>>, <<3, 4>>}
MC_AlignedMaxLive  == 2
\* independent_calloc of no element and of two 4-byte elements, and
\* independent_comalloc of one 20-byte element and of a 1- and a 100-byte
\* element (different chunk sizes, one of them a tree chunk), with and
\* without the caller's array; valloc and pvalloc of 20 bytes.
MC_ICallocArgs     == {<<0, 4>>, <<2, 4>>}
MC_Comallocs       == {<<20>>, <<1, 100>>}
MC_PageRequests    == {20}

\* A request whose padding for sys_alloc wraps (>= MAX_REQUEST), next to a
\* small one.
MC_HugeRequests   == {20, 2^16 - 64}
\* An alignment above 2^(SIZE_T_BITS-1) that is not a power of two.
MC_WideAlignments == {2^15 + 1}
\* A pvalloc request within a page of MAX_SIZE_T: rounding it up to a page
\* wraps to 0.
MC_WrapPage == {2^16 - 10}

(* States are told apart by the words the allocator will read again: the  *)
(* head of every chunk, of top and of the fencepost, and the prev_foot    *)
(* after every free chunk.  Stale words inside chunks are only read by    *)
(* set_inuse on a fresh split, whose PINUSE is set again at once.          *)
TagWords == {c + SIZE_T_SIZE : c \in ChunkSet \cup {h.top, h.top + h.topsize}}
            \cup {NextOf(c) : c \in FreeChunks}
MC_View == <<[w \in TagWords \cap Addrs |-> h.mem[w]], [h EXCEPT !.mem = 0], live>>

\* No independent_calloc/comalloc, valloc or pvalloc calls.
MC_NoIalloc == {}
=============================================================================
