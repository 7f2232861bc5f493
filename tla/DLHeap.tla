------------------------------- MODULE DLHeap -------------------------------
(***************************************************************************)
(* The global arena (gm) of bionic's dlmalloc (libc/bionic/dlmalloc.c), as *)
(* built for the 32-bit target: FOOTERS 0, MSPACES 0, PROCEED_ON_ERROR 0,  *)
(* INSECURE 0, MORECORE = sbrk with MORECORE_CONTIGUOUS 1.                  *)
(*                                                                         *)
(* The heap is an array of 4-byte words.  A chunk at address p keeps its   *)
(* prev_foot in word p and its head (size | CINUSE | PINUSE) in word p+4,  *)
(* exactly as struct malloc_chunk; chunk headers are written and read by   *)
(* the same macros as the code, so stale headers left inside merged chunks *)
(* stay in memory.  The fd/bk/child/parent links of free chunks are        *)
(* abstracted to one sequence per bin: small bins are LIFO (insert and     *)
(* take at B->fd), tree bins keep insertion order, and a tree fit takes    *)
(* the oldest chunk of the best-fitting size, which is the node the trie   *)
(* of insert_large_chunk/unlink_large_chunk holds in the tree.             *)
(*                                                                         *)
(* Each public call runs under PREACTION/POSTACTION (the arena lock), so   *)
(* it is one step.  A call is an operator from the arena record h to its   *)
(* successor, so that realloc and memalign can compose the internal        *)
(* malloc and free calls they make.  A failed runtime check               *)
(* (CHUNK_ERROR_DETECTION, USAGE_ERROR_ACTION) calls ABORT: the arena is   *)
(* marked aborted and no further call is made.                             *)
(*                                                                         *)
(* The operating system is sbrk with a hard limit BRK_LIMIT.  This module  *)
(* keeps to one contiguous segment: the mmap calls of sys_alloc fail and   *)
(* mparams.mmap_threshold is MAX_SIZE_T (M_MMAP_THRESHOLD), so no chunk is *)
(* directly mapped.                                                        *)
(***************************************************************************)
EXTENDS Integers, Sequences, SequencesExt, FiniteSets, Bitwise, TLC

CONSTANTS
  SIZE_T_BITS,    \* width of size_t arithmetic (32 on the target)
  TREEBIN_SHIFT,  \* log2 of MIN_LARGE_SIZE (8 in the code)
  PAGE_SIZE,      \* mparams.page_size = mparams.granularity
  TRIM_THRESHOLD, \* mparams.trim_threshold
  HEAP_BASE,      \* the program break before the first sbrk
  BRK_LIMIT,      \* sbrk fails when the break would pass this address
  Requests,       \* byte counts the client passes to malloc and realloc
  Alignments,     \* alignments the client passes to memalign
  Pads,           \* pads the client passes to malloc_trim
  CallocArgs,     \* <<n_elements, elem_size>> pairs the client passes to calloc
  ICallocArgs,    \* <<n_elements, elem_size>> pairs for independent_calloc
  Comallocs,      \* sizes[] arrays the client passes to independent_comalloc
  PageRequests,   \* byte counts the client passes to valloc and pvalloc
  MaxLive         \* most blocks the client holds at once

ASSUME HEAP_BASE > 0 /\ HEAP_BASE % PAGE_SIZE = 0 /\ BRK_LIMIT >= HEAP_BASE
ASSUME \E k \in 3..SIZE_T_BITS : PAGE_SIZE = 2^k

(***************************************************************************)
(* Sizes and their arithmetic (dlmalloc.c 1417-1437, 1786-1820, 2141-2148) *)
(***************************************************************************)
MAX_SIZE_T       == 2^SIZE_T_BITS - 1
HALF_MAX_SIZE_T  == MAX_SIZE_T \div 2
Wrap(x)          == x % (MAX_SIZE_T + 1)
SIZE_T_SIZE      == 4
CHUNK_OVERHEAD   == SIZE_T_SIZE
MALLOC_ALIGNMENT == 8
CHUNK_ALIGN_MASK == MALLOC_ALIGNMENT - 1
MIN_CHUNK_SIZE   == 16
MAX_REQUEST      == Wrap((MAX_SIZE_T + 1 - MIN_CHUNK_SIZE) * 4)
MIN_REQUEST      == MIN_CHUNK_SIZE - CHUNK_OVERHEAD - 1
TOP_FOOT_SIZE    == 40   \* align_offset(0) + pad_request(sizeof(msegment)) + MIN_CHUNK_SIZE

pad_request(req) ==
  LET s == Wrap(req + CHUNK_OVERHEAD + CHUNK_ALIGN_MASK) IN s - (s % MALLOC_ALIGNMENT)

request2size(req) == IF req < MIN_REQUEST THEN MIN_CHUNK_SIZE ELSE pad_request(req)

granularity_align(s) == LET t == Wrap(s + PAGE_SIZE) IN t - (t % PAGE_SIZE)

SMALLBIN_SHIFT    == 3
MIN_LARGE_SIZE    == 2^TREEBIN_SHIFT
NSMALLBINS        == MIN_LARGE_SIZE \div 8
NTREEBINS         == 32
MAX_SMALL_REQUEST == MIN_LARGE_SIZE - 1 - CHUNK_ALIGN_MASK - CHUNK_OVERHEAD
is_small(s)           == s \div 8 < NSMALLBINS
small_index(s)        == s \div 8
small_index2size(i)   == i * 8

RECURSIVE Log2(_)
Log2(x) == IF x <= 1 THEN 0 ELSE 1 + Log2(x \div 2)

(* The reference for a tree bin: two bins per power of 2 above            *)
(* MIN_LARGE_SIZE, the odd one for the upper half; this is also what the  *)
(* i386 build computes with bsrl (2590-2603).                              *)
tree_index_ref(S) ==
  LET X == S \div MIN_LARGE_SIZE IN
  IF X = 0 THEN 0
  ELSE IF X > 65535 THEN NTREEBINS - 1
  ELSE LET K == Log2(X) IN 2 * K + ((S \div 2^(K + TREEBIN_SHIFT - 1)) % 2)

(* (v >> 16) of an unsigned int v given as a signed difference: bits      *)
(* 16-31 of v modulo 2^32 (\div rounds down, so a negative v wraps).      *)
hi16(v) == (v \div 2^16) % 2^16

(* Mutant: the first step of the bit scan tests Y < 2^12 instead of 2^8. *)
compute_tree_index_n8(S) ==
  LET X == S \div MIN_LARGE_SIZE IN
  IF X = 0 THEN 0
  ELSE IF X > 65535 THEN NTREEBINS - 1
  ELSE LET Y1 == X
           N1 == hi16(Y1 - 4096) & 8
           Y2 == Y1 * 2^N1
           K1 == hi16(Y2 - 4096) & 4
           Y3 == Y2 * 2^K1
           K2 == hi16(Y3 - 16384) & 2
           K  == 14 - (N1 + K1 + K2) + (Y3 * 2^K2) \div 2^15
       IN  2 * K + ((S \div 2^(K + TREEBIN_SHIFT - 1)) & 1)

(* compute_tree_index as the 32-bit ARM build has it (not __GNUC__ i386): *)
(* the bit index K of X found without a loop, by shifting Y left by 8, 4  *)
(* and 2 while its top bits are clear, the bin then 2K plus the next bit. *)
compute_tree_index(S) ==
  LET X == S \div MIN_LARGE_SIZE IN
  IF X = 0 THEN 0
  ELSE IF X > 65535 THEN NTREEBINS - 1
  ELSE LET Y1 == X
           N1 == hi16(Y1 - 256) & 8
           Y2 == Y1 * 2^N1
           K1 == hi16(Y2 - 4096) & 4
           Y3 == Y2 * 2^K1
           K2 == hi16(Y3 - 16384) & 2
           K  == 14 - (N1 + K1 + K2) + (Y3 * 2^K2) \div 2^15
       IN  2 * K + ((S \div 2^(K + TREEBIN_SHIFT - 1)) & 1)

(***************************************************************************)
(* The arena record: struct malloc_state gm, the heap words and the break. *)
(***************************************************************************)
VARIABLES
  h,     \* gm, the heap memory words and the program break
  live   \* the client's view: allocated pointer -> bytes it asked for

vars == <<h, live>>

Addrs == {a \in HEAP_BASE..BRK_LIMIT : a % 4 = 0}

InitArena ==
  [mem        |-> [a \in Addrs |-> 0],
   smallmap   |-> {},   treemap  |-> {},
   smallbins  |-> [i \in 0..NSMALLBINS-1 |-> <<>>],
   treebins   |-> [i \in 0..NTREEBINS-1 |-> <<>>],
   dv |-> 0, dvsize |-> 0, top |-> 0, topsize |-> 0,
   least_addr |-> 0, trim_check |-> 0,
   footprint  |-> 0, max_footprint |-> 0,
   seg_base   |-> 0, seg_size |-> 0,
   noncontig  |-> FALSE,
   sflags     |-> 0,
   mstate     |-> 0,
   brk        |-> HEAP_BASE,
   aborted    |-> FALSE,
   hung       |-> FALSE]

Abort(a) == [a EXCEPT !.aborted = TRUE]

(***************************************************************************)
(* Chunk headers (dlmalloc.c 1831-1880, 2760-2800 with FOOTERS 0).         *)
(***************************************************************************)
PINUSE_BIT == 1
CINUSE_BIT == 2
INUSE_BITS == 3

head(a, p)      == a.mem[p + SIZE_T_SIZE]
prev_foot(a, p) == a.mem[p]
chunksize(a, p) == head(a, p) - (head(a, p) % 4)
cinuse(a, p)    == (head(a, p) \div 2) % 2 = 1
pinuse(a, p)    == head(a, p) % 2 = 1
chunk2mem(p)    == p + 2 * SIZE_T_SIZE
mem2chunk(m)    == m - 2 * SIZE_T_SIZE
WithPinuse(v)   == IF v % 2 = 1 THEN v ELSE v + PINUSE_BIT

PutWord(a, w, v) ==
  IF w \in DOMAIN a.mem THEN [a EXCEPT !.mem[w] = v]
  ELSE Assert(FALSE, "write outside the heap")

PutHead(a, p, v) == PutWord(a, p + SIZE_T_SIZE, v)
set_foot(a, p, s) == PutWord(a, p + s, s)
clear_pinuse(a, p) == PutHead(a, p, head(a, p) - (head(a, p) % 2))

set_size_and_pinuse_of_free_chunk_nofoot(a, p, s) == PutHead(a, p, s + PINUSE_BIT)

set_size_and_pinuse_of_free_chunk(a, p, s) ==
  set_foot(PutHead(a, p, s + PINUSE_BIT), p, s)

set_free_with_pinuse(a, p, s, n) ==
  set_size_and_pinuse_of_free_chunk(clear_pinuse(a, n), p, s)


set_inuse(a, p, s) ==
  LET a1 == PutHead(a, p, (head(a, p) % 2) + s + CINUSE_BIT)
  IN  PutHead(a1, p + s, WithPinuse(head(a1, p + s)))

set_inuse_and_pinuse(a, p, s) ==
  LET a1 == PutHead(a, p, s + INUSE_BITS)
  IN  PutHead(a1, p + s, WithPinuse(head(a1, p + s)))

set_size_and_pinuse_of_inuse_chunk(a, p, s) == PutHead(a, p, s + INUSE_BITS)

ok_address(a, p) == p >= a.least_addr
ok_next(p, n)    == p < n

(***************************************************************************)
(* Bins (dlmalloc.c 4234-4494).  smallbins[i] lists the chunks from B->fd  *)
(* on; treebins[i] lists the chunks of bin i in insertion order.  A        *)
(* linked-list integrity check (F->bk == P && B->fd == P) fails exactly    *)
(* when the chunk to unlink is not in the list, which is how the model     *)
(* states it.                                                              *)
(***************************************************************************)
insert_small_chunk_strict(a, P, S) ==
  IF S <= MIN_CHUNK_SIZE THEN Abort(a)
  ELSE [a EXCEPT !.smallmap = @ \cup {small_index(S)},
                 !.smallbins[small_index(S)] = <<P>> \o @]

insert_small_chunk(a, P, S) ==
  IF S < MIN_CHUNK_SIZE THEN Abort(a)
  ELSE [a EXCEPT !.smallmap = @ \cup {small_index(S)},
                 !.smallbins[small_index(S)] = <<P>> \o @]

unlink_small_chunk(a, P, S) ==
  LET I == small_index(S) IN
  IF ~Contains(a.smallbins[I], P) \/ chunksize(a, P) # small_index2size(I)
  THEN Abort(a)
  ELSE LET rest == Remove(a.smallbins[I], P) IN
       [a EXCEPT !.smallbins[I] = rest,
                 !.smallmap = IF rest = <<>> THEN @ \ {I} ELSE @]

unlink_first_small_chunk(a, I) ==
  unlink_small_chunk(a, Head(a.smallbins[I]), small_index2size(I))

replace_dv_drop(a, P, S) == [a EXCEPT !.dvsize = S, !.dv = P]

replace_dv(a, P, S) ==
  LET a1 == IF a.dvsize = 0 THEN a
            ELSE IF ~is_small(a.dvsize) THEN Abort(a)
            ELSE insert_small_chunk(a, a.dv, a.dvsize)
  IN  [a1 EXCEPT !.dvsize = S, !.dv = P]

insert_large_chunk(a, X, S) ==
  LET I == compute_tree_index(S) IN
  [a EXCEPT !.treemap = @ \cup {I}, !.treebins[I] = Append(@, X)]

(* Mutant: the tree map bit is left set when the bin empties.            *)
unlink_large_chunk_keepmap(a, X) ==
  LET I == compute_tree_index(chunksize(a, X)) IN
  IF ~Contains(a.treebins[I], X) THEN Abort(a)
  ELSE [a EXCEPT !.treebins[I] = Remove(a.treebins[I], X)]

(* X->index is compute_tree_index of the size X had when it was inserted. *)
unlink_large_chunk(a, X) ==
  LET I == compute_tree_index(chunksize(a, X)) IN
  IF ~Contains(a.treebins[I], X) THEN Abort(a)
  ELSE LET rest == Remove(a.treebins[I], X) IN
       [a EXCEPT !.treebins[I] = rest,
                 !.treemap = IF rest = <<>> THEN @ \ {I} ELSE @]

insert_chunk(a, P, S) ==
  IF is_small(S) THEN insert_small_chunk(a, P, S) ELSE insert_large_chunk(a, P, S)

unlink_chunk(a, P, S) ==
  IF is_small(S) THEN unlink_small_chunk(a, P, S) ELSE unlink_large_chunk(a, P)

(* The chunk a trie search settles on among the chunks C of bin i: the    *)
(* smallest, and of those the tree node, i.e. the earliest inserted.      *)
TreePick(a, i, C) ==
  LET best == Min({chunksize(a, c) : c \in C})
      s    == a.treebins[i]
  IN  s[Min({k \in 1..Len(s) : s[k] \in C /\ chunksize(a, s[k]) = best})]

(***************************************************************************)
(* Results of the internal calls: the arena and the returned pointer.     *)
(***************************************************************************)
Ret(a, m) == [a |-> a, m |-> m]

(* Split chunk v of a tree bin for a request of nb bytes; the remainder   *)
(* goes to the bins (tmalloc_large) or becomes the dv (tmalloc_small).    *)
(* The remainder r of a split tree chunk: binned, or the new dv.         *)
BinRemainder(a, r, rsize, toDv) ==
  IF toDv THEN replace_dv(a, r, rsize) ELSE insert_chunk(a, r, rsize)

(* a1 is the arena after unlink_large_chunk(v).                           *)
TreeSplitUnlinked(a1, v, nb, toDv) ==
  LET rsize == chunksize(a1, v) - nb IN
  IF a1.aborted THEN Ret(a1, 0)
  ELSE IF rsize < MIN_CHUNK_SIZE
  THEN Ret(set_inuse_and_pinuse(a1, v, rsize + nb), chunk2mem(v))
  ELSE Ret(BinRemainder(set_size_and_pinuse_of_free_chunk(
                          set_size_and_pinuse_of_inuse_chunk(a1, v, nb), v + nb, rsize),
                        v + nb, rsize, toDv), chunk2mem(v))

TreeSplit(a, v, nb, toDv) == TreeSplitUnlinked(unlink_large_chunk(a, v), v, nb, toDv)

(* The checks of tmalloc_large on the chunk v its search settled on.      *)
tmalloc_large_take(a, v, nb) ==
  IF ~(chunksize(a, v) - nb < Wrap(a.dvsize - nb)) THEN Ret(a, 0)
  ELSE IF ~ok_address(a, v) THEN Ret(Abort(a), 0)
  ELSE TreeSplit(a, v, nb, FALSE)

tmalloc_large_onebin(a, nb) ==
  LET idx  == compute_tree_index(nb)
      fit  == {c \in ToSet(a.treebins[idx]) : chunksize(a, c) >= nb}
  IN  IF fit = {} THEN Ret(a, 0)
      ELSE tmalloc_large_take(a, TreePick(a, idx, fit), nb)

tmalloc_large(a, nb) ==
  LET idx  == compute_tree_index(nb)
      fit  == {c \in ToSet(a.treebins[idx]) : chunksize(a, c) >= nb}
      left == {i \in a.treemap : i > idx}
  IN  IF fit = {} /\ left = {} THEN Ret(a, 0)
      ELSE IF fit # {} THEN tmalloc_large_take(a, TreePick(a, idx, fit), nb)
      ELSE tmalloc_large_take(a, TreePick(a, Min(left), ToSet(a.treebins[Min(left)])), nb)

tmalloc_small(a, nb) ==
  LET i == Min(a.treemap)
      v == TreePick(a, i, ToSet(a.treebins[i]))
  IN  IF ~ok_address(a, v) THEN Ret(Abort(a), 0) ELSE TreeSplit(a, v, nb, TRUE)

(***************************************************************************)
(* Top and the system allocator (dlmalloc.c 4605-4617, 4750-4975).         *)
(***************************************************************************)
align_offset(A) ==
  IF A % MALLOC_ALIGNMENT = 0 THEN 0 ELSE MALLOC_ALIGNMENT - (A % MALLOC_ALIGNMENT)

init_top(a, p, psize) ==
  LET off == align_offset(chunk2mem(p))
      t   == p + off
      ts  == psize - off
      a1  == PutHead(PutHead(a, t, ts + PINUSE_BIT), t + ts, TOP_FOOT_SIZE)
  IN  [a1 EXCEPT !.top = t, !.topsize = ts, !.trim_check = TRIM_THRESHOLD]

(* Carve nb bytes off the front of top (the split-top step of dlmalloc    *)
(* and of sys_alloc).                                                     *)
split_top_nopinuse(a, nb) ==
  LET p  == a.top
      a1 == [a EXCEPT !.topsize = @ - nb, !.top = p + nb]
  IN  Ret(set_size_and_pinuse_of_inuse_chunk(
            PutHead(a1, p + nb, a1.topsize), p, nb), chunk2mem(p))

split_top(a, nb) ==
  LET p  == a.top
      a1 == [a EXCEPT !.topsize = @ - nb, !.top = p + nb]
  IN  Ret(set_size_and_pinuse_of_inuse_chunk(
            PutHead(a1, p + nb, a1.topsize + PINUSE_BIT), p, nb), chunk2mem(p))

(* sbrk(n) with n >= 0: fails when the break would pass BRK_LIMIT.        *)
CanSbrk(a, n) == a.brk + n <= BRK_LIMIT
Sbrk(a, n)    == [a EXCEPT !.brk = @ + n]

(* sys_alloc.  mmap_alloc (nb >= mmap_threshold) and CALL_MMAP return     *)
(* MFAIL here, so the two sbrk paths remain: the contiguous one while     *)
(* the arena is not marked noncontiguous, then the noncontiguous one.     *)
(* The break always equals the end of the segment (no foreign sbrk), so  *)
(* the contiguous call's br == ss->base+ss->size test holds and new space *)
(* always lies at the segment end (the append case).                     *)
(* The new space of tsize bytes at tbase: footprint and max_footprint,   *)
(* then a first segment with top at its base, or the segment and top      *)
(* extended (the append case).                                            *)
sys_alloc_grow(a, tbase, tsize) ==
  LET a1 == [a EXCEPT !.footprint = @ + tsize,
                      !.max_footprint = IF a.footprint + tsize > @
                                        THEN a.footprint + tsize ELSE @]
  IN  IF a.top = 0
      THEN init_top([a1 EXCEPT
                       !.least_addr = IF @ = 0 \/ tbase < @ THEN tbase ELSE @,
                       !.seg_base = tbase, !.seg_size = tsize],
                    tbase, tsize - TOP_FOOT_SIZE)
      ELSE init_top([a1 EXCEPT !.seg_size = @ + tsize], a.top, a.topsize + tsize)

(* Allocate from new or extended top space, else fail.                   *)
sys_alloc_split(a, nb) == IF nb < a.topsize THEN split_top(a, nb) ELSE Ret(a, 0)

(* The contiguous sbrk size: the whole request on the first call, else   *)
(* the part top does not cover.                                          *)
sys_alloc_contig_size(a, nb) ==
  IF a.top = 0 THEN granularity_align(nb + TOP_FOOT_SIZE + 1)
  ELSE granularity_align(Wrap(nb - a.topsize + TOP_FOOT_SIZE + 1))

(* cok: the contiguous call got casize bytes; otherwise the noncontiguous *)
(* path asks for nasize bytes (its two sbrk calls return br and br+asize, *)
(* kept when br < end).                                                   *)
sys_alloc_sbrk(a, nb, cok, casize, nasize) ==
  LET ncall == ~cok /\ nasize < HALF_MAX_SIZE_T /\ CanSbrk(a, nasize)
      nok   == ncall /\ nasize > 0 /\ nasize > Wrap(nb + TOP_FOOT_SIZE)
  IN  IF cok THEN sys_alloc_split(sys_alloc_grow(Sbrk(a, casize), a.brk, casize), nb)
      ELSE IF nok THEN sys_alloc_split(sys_alloc_grow(Sbrk(a, nasize), a.brk, nasize), nb)
      ELSE Ret(IF ncall THEN Sbrk(a, nasize) ELSE a, 0)

sys_alloc(a, nb) ==
  LET casize == sys_alloc_contig_size(a, nb)
      cok    == ~a.noncontig /\ casize < HALF_MAX_SIZE_T /\ CanSbrk(a, casize)
  IN  sys_alloc_sbrk(IF a.noncontig \/ cok THEN a ELSE [a EXCEPT !.noncontig = TRUE],
                     nb, cok, casize, granularity_align(nb + TOP_FOOT_SIZE + 1))

(***************************************************************************)
(* dlmalloc (dlmalloc.c 5512-5651).                                        *)
(***************************************************************************)
(* Mutant: dv exhausted unless the remainder is above MIN_CHUNK_SIZE.   *)
malloc_from_dv_or_top_tight(a, nb) ==
  IF nb <= a.dvsize
  THEN LET rsize == a.dvsize - nb
           p     == a.dv
       IN  IF rsize > MIN_CHUNK_SIZE
           THEN Ret(set_size_and_pinuse_of_inuse_chunk(
                      set_size_and_pinuse_of_free_chunk(
                        [a EXCEPT !.dv = p + nb, !.dvsize = rsize], p + nb, rsize),
                      p, nb), chunk2mem(p))
           ELSE Ret(set_inuse_and_pinuse([a EXCEPT !.dvsize = 0, !.dv = 0], p, a.dvsize),
                    chunk2mem(p))
  ELSE IF nb < a.topsize THEN split_top(a, nb)
  ELSE sys_alloc(a, nb)

(* The steps after the bins: split or exhaust dv, split top, sys_alloc.   *)
malloc_from_dv_or_top(a, nb) ==
  IF nb <= a.dvsize
  THEN LET rsize == a.dvsize - nb
           p     == a.dv
       IN  IF rsize >= MIN_CHUNK_SIZE
           THEN Ret(set_size_and_pinuse_of_inuse_chunk(
                      set_size_and_pinuse_of_free_chunk(
                        [a EXCEPT !.dv = p + nb, !.dvsize = rsize], p + nb, rsize),
                      p, nb), chunk2mem(p))
           ELSE Ret(set_inuse_and_pinuse([a EXCEPT !.dvsize = 0, !.dv = 0], p, a.dvsize),
                    chunk2mem(p))
  ELSE IF nb < a.topsize THEN split_top(a, nb)
  ELSE sys_alloc(a, nb)

(* Take the first chunk of small bin i for a request of nb bytes: whole  *)
(* for a remainderless fit, else split with the remainder as the new dv   *)
(* (with 4-byte size_t a fit from a higher bin always leaves >= 16).      *)
take_small_chunk(a1, p, i, nb, whole) ==
  LET rsize == small_index2size(i) - nb IN
  IF a1.aborted THEN Ret(a1, 0)
  ELSE IF whole
  THEN Ret(set_inuse_and_pinuse(a1, p, small_index2size(i)), chunk2mem(p))
  ELSE Ret(replace_dv(set_size_and_pinuse_of_free_chunk(
             set_size_and_pinuse_of_inuse_chunk(a1, p, nb), p + nb, rsize),
             p + nb, rsize), chunk2mem(p))

take_small_bin(a, i, nb, whole) ==
  IF chunksize(a, Head(a.smallbins[i])) # small_index2size(i) THEN Ret(Abort(a), 0)
  ELSE take_small_chunk(unlink_first_small_chunk(a, i), Head(a.smallbins[i]), i, nb, whole)

(* The chunk size dlmalloc computes for a request.                        *)
malloc_nb(bytes) ==
  IF bytes <= MAX_SMALL_REQUEST THEN request2size(bytes)
  ELSE IF bytes >= MAX_REQUEST THEN MAX_SIZE_T
  ELSE pad_request(bytes)

(* The bin steps of dlmalloc; Ret(a, 0) when none of them serves nb.    *)
malloc_from_bins(a, bytes) ==
  LET nb == malloc_nb(bytes) IN
  IF bytes <= MAX_SMALL_REQUEST
  THEN LET idx    == small_index(nb)
           higher == {i \in a.smallmap : i > idx}
       IN  IF idx \in a.smallmap THEN take_small_bin(a, idx, nb, TRUE)
           ELSE IF idx + 1 \in a.smallmap THEN take_small_bin(a, idx + 1, nb, TRUE)
           ELSE IF nb > a.dvsize /\ higher # {} THEN take_small_bin(a, Min(higher), nb, FALSE)
           ELSE IF nb > a.dvsize /\ a.treemap # {} THEN tmalloc_small(a, nb)
           ELSE Ret(a, 0)
  ELSE IF bytes < MAX_REQUEST /\ a.treemap # {} THEN tmalloc_large(a, nb)
  ELSE Ret(a, 0)

(* r is the result of the bin steps: served, aborted, or on to dv and top. *)
malloc_after_bins(r, nb) ==
  IF r.m # 0 \/ r.a.aborted THEN r ELSE malloc_from_dv_or_top(r.a, nb)

dlmalloc(a, bytes) == malloc_after_bins(malloc_from_bins(a, bytes), malloc_nb(bytes))

(* The whole granularity units of top beyond pad to give back, keeping   *)
(* at least one.                                                          *)
trim_extra_all(topsize, pad) ==
  ((topsize - pad + (PAGE_SIZE - 1)) \div PAGE_SIZE) * PAGE_SIZE

trim_extra(topsize, pad) ==
  ((topsize - pad + (PAGE_SIZE - 1)) \div PAGE_SIZE - 1) * PAGE_SIZE

(* The clamp of the sbrk branch, so that sbrk's argument stays positive.  *)
trim_sbrk_extra(extra) ==
  IF extra >= HALF_MAX_SIZE_T THEN HALF_MAX_SIZE_T + 1 - PAGE_SIZE ELSE extra

(* Give released bytes at the end of top back (the segment shrinks).     *)
trim_release_keepfp(a, released) ==
  init_top([a EXCEPT !.seg_size = @ - released], a.top, a.topsize - released)

trim_release(a, released) ==
  init_top([a EXCEPT !.seg_size = @ - released, !.footprint = @ - released],
           a.top, a.topsize - released)

(***************************************************************************)
(* Segment flags (msegment.sflags): 0 for sbrk space, IS_MMAPPED_BIT for  *)
(* a mapped segment, EXTERN_BIT for memory the caller of                  *)
(* create_mspace_with_base supplied.                                       *)
(***************************************************************************)
IS_MMAPPED_BIT == 1
EXTERN_BIT     == 8
is_mmapped_segment(a) == a.sflags % 2 = 1
is_extern_segment(a)  == (a.sflags \div EXTERN_BIT) % 2 = 1

(* has_segment_link (dlmalloc.c 2268-2276): the arena's single segment    *)
(* record m->seg lies in the segment.  gm's is in the static _gm_ (mstate *)
(* 0 here); an mspace's malloc_state is the first chunk of its segment.   *)
segment_holds(a, A) == A >= a.seg_base /\ A < a.seg_base + a.seg_size
has_segment_link(a) == segment_holds(a, a.mstate)

(***************************************************************************)
(* sys_trim (dlmalloc.c 5020-5083).  An arena has one segment, so top is  *)
(* in it, and release_unused_segments, which never looks at the first     *)
(* segment, releases nothing.  An extern segment is never shrunk; a       *)
(* mapped one only when no segment record is pinned in it, which for the  *)
(* mapped segment of an mspace is never; sbrk space is given back when    *)
(* the break is still at the segment's end.                               *)
(***************************************************************************)
sys_trim_released(a, pad1) ==
  LET extra == trim_extra(a.topsize, pad1) IN
  IF ~(a.topsize > pad1) \/ is_extern_segment(a) THEN a
  ELSE IF is_mmapped_segment(a)
  THEN IF a.seg_size >= extra /\ ~has_segment_link(a) THEN trim_release(a, extra) ELSE a
  ELSE IF a.brk = a.seg_base + a.seg_size
  THEN trim_release(Sbrk(a, -trim_sbrk_extra(extra)), trim_sbrk_extra(extra))
  ELSE a

(* Released bytes shrink the segment; on failure autotrim is disabled.    *)
sys_trim_result(a, a1) ==
  IF a1.seg_size # a.seg_size THEN Ret(a1, 1)
  ELSE Ret([a EXCEPT !.trim_check = MAX_SIZE_T], 0)

sys_trim(a, pad) ==
  IF ~(pad < MAX_REQUEST /\ a.top # 0) THEN Ret(a, 0)
  ELSE sys_trim_result(a, sys_trim_released(a, pad + TOP_FOOT_SIZE))

(***************************************************************************)
(* dlfree (dlmalloc.c 5653-5754).                                          *)
(***************************************************************************)
(* The forward half of dlfree: p (already merged backward) of psize,      *)
(* followed by next.                                                      *)
(* a is the arena once top has absorbed the freed chunk: trim when top  *)
(* passes trim_check (should_trim).                                       *)
free_into_top(a) ==
  IF a.topsize > a.trim_check THEN sys_trim(a, 0).a ELSE a

(* a1 is the arena after unlinking next; p now spans size bytes and is   *)
(* either the dv or binned.                                               *)
free_merged_next(a1, p, size) ==
  IF a1.aborted THEN a1
  ELSE IF p = a1.dv
  THEN [set_size_and_pinuse_of_free_chunk(a1, p, size) EXCEPT !.dvsize = size]
  ELSE insert_chunk(set_size_and_pinuse_of_free_chunk(a1, p, size), p, size)

free_forward(a, p, psize, next) ==
  IF ~(ok_next(p, next) /\ pinuse(a, next)) THEN Ret(Abort(a), 0)
  ELSE IF cinuse(a, next)
  THEN Ret(insert_chunk(set_free_with_pinuse(a, p, psize, next), p, psize), 0)
  ELSE IF next = a.top
  THEN Ret(free_into_top(
             PutHead([a EXCEPT !.topsize = @ + psize, !.top = p,
                               !.dv = IF p = a.dv THEN 0 ELSE @,
                               !.dvsize = IF p = a.dv THEN 0 ELSE @],
                     p, a.topsize + psize + PINUSE_BIT)), 0)
  ELSE IF next = a.dv
  THEN Ret(set_size_and_pinuse_of_free_chunk(
             [a EXCEPT !.dvsize = @ + psize, !.dv = p], p, a.dvsize + psize), 0)
  ELSE Ret(free_merged_next(unlink_chunk(a, next, chunksize(a, next)), p,
                            psize + chunksize(a, next)), 0)

(* a1 is the arena after consolidating backward into prev (unlinked     *)
(* unless it is the dv); go on forward unless the unlink failed.          *)
free_backward(a1, prev, psize, next) ==
  IF a1.aborted THEN Ret(a1, 0) ELSE free_forward(a1, prev, psize, next)

dlfree(a, mem) ==
  LET p     == mem2chunk(mem)
      psize == chunksize(a, p)
      next  == p + psize
  IN  IF mem = 0 THEN Ret(a, 0)
      ELSE IF ~(ok_address(a, p) /\ cinuse(a, p)) THEN Ret(Abort(a), 0)
      ELSE IF pinuse(a, p) THEN free_forward(a, p, psize, next)
      ELSE LET prevsize == prev_foot(a, p)
               prev     == p - prevsize
           IN  IF prevsize % 2 = IS_MMAPPED_BIT
               THEN Assert(FALSE, "free of a directly mapped chunk")
               ELSE IF ~ok_address(a, prev) THEN Ret(Abort(a), 0)
               ELSE IF prev = a.dv /\ head(a, next) % 4 = INUSE_BITS
               THEN Ret(set_free_with_pinuse([a EXCEPT !.dvsize = psize + prevsize],
                                             prev, psize + prevsize, next), 0)
               ELSE free_backward(IF prev = a.dv THEN a ELSE unlink_chunk(a, prev, prevsize),
                                  prev, psize + prevsize, next)

(***************************************************************************)
(* internal_realloc (dlmalloc.c 5206-5287).  The free of the split-off    *)
(* remainder and the malloc-copy-free fallback run after POSTACTION, as   *)
(* separate locked calls.  internal_realloc_locked is the call up to      *)
(* POSTACTION together with the internal_malloc of the fallback (the      *)
(* section before it only reads the caller's own chunk); its result names *)
(* the pointers the caller then passes to internal_free.                  *)
(***************************************************************************)
RetF(a, m, frees) == [a |-> a, m |-> m, frees |-> frees]
NoFrees(r)        == RetF(r.a, r.m, <<>>)

(* Shrink in place: split the chunk at nb; the tail is freed afterwards. *)
realloc_shrink(a, oldp, oldsize, nb) ==
  set_inuse(set_inuse(a, oldp, nb), oldp + nb, oldsize - nb)

(* The extra chunk handed to internal_free after POSTACTION.             *)
realloc_extra_none(oldp, nb) == <<>>

realloc_extra(oldp, nb) == <<chunk2mem(oldp + nb)>>

(* The malloc-copy-free fallback, r being the result of the malloc.      *)
realloc_move(r, oldmem) ==
  IF r.m = 0 \/ r.a.aborted THEN NoFrees(r) ELSE RetF(r.a, r.m, <<oldmem>>)

(* realloc extends a chunk in place only into top, and only when top      *)
(* keeps a positive size.                                                 *)
can_extend_into_top_anynext(a, next, oldsize, nb) == oldsize + a.topsize > nb

can_extend_into_top(a, next, oldsize, nb) ==
  next = a.top /\ oldsize + a.topsize > nb

internal_realloc_locked(a, oldmem, bytes) ==
  LET oldp    == mem2chunk(oldmem)
      oldsize == chunksize(a, oldp)
      next    == oldp + oldsize
      nb      == request2size(bytes)
  IN  IF bytes >= MAX_REQUEST THEN RetF(a, 0, <<>>)
      ELSE IF ~(ok_address(a, oldp) /\ cinuse(a, oldp) /\ ok_next(oldp, next)
                /\ pinuse(a, next))
      THEN RetF(Abort(a), 0, <<>>)
      ELSE IF ~pinuse(a, oldp) /\ prev_foot(a, oldp) % 2 = IS_MMAPPED_BIT
      THEN Assert(FALSE, "realloc of a directly mapped chunk")
      ELSE IF oldsize >= nb
      THEN IF oldsize - nb >= MIN_CHUNK_SIZE
           THEN RetF(realloc_shrink(a, oldp, oldsize, nb), oldmem, realloc_extra(oldp, nb))
           ELSE RetF(a, oldmem, <<>>)
      ELSE IF can_extend_into_top(a, next, oldsize, nb)
      THEN LET newtopsize == oldsize + a.topsize - nb IN
           RetF(PutHead([set_inuse(a, oldp, nb) EXCEPT
                          !.top = oldp + nb, !.topsize = newtopsize],
                        oldp + nb, newtopsize + PINUSE_BIT), oldmem, <<>>)
      ELSE realloc_move(dlmalloc(a, bytes), oldmem)

(* The internal_free calls a realloc or memalign makes after POSTACTION,  *)
(* skipped once the process has aborted.                                  *)
free_if_running(a, mem) == IF a.aborted THEN a ELSE dlfree(a, mem).a

(* A locked section followed at once by the caller's deferred frees.     *)
Completed(r) == Ret(FoldLeft(free_if_running, r.a, r.frees), r.m)

internal_realloc(a, oldmem, bytes) == Completed(internal_realloc_locked(a, oldmem, bytes))

(***************************************************************************)
(* internal_memalign (dlmalloc.c 5290-5377).  The alignment is raised to  *)
(* MIN_CHUNK_SIZE and to a power of two by doubling from 16; the doubling *)
(* of a size_t wraps to 0 past 2^(SIZE_T_BITS-1) and then never ends.     *)
(***************************************************************************)
PowersOfTwo == {2^k : k \in 4..SIZE_T_BITS - 1}

memalign_alignment(al) ==
  LET x == IF al < MIN_CHUNK_SIZE THEN MIN_CHUNK_SIZE ELSE al IN
  IF x \in PowersOfTwo THEN x
  ELSE IF \E q \in PowersOfTwo : q >= x THEN Min({q \in PowersOfTwo : q >= x})
  ELSE 0   \* the loop "while (a < alignment) a <<= 1" does not terminate

(* Give back the leading space of the chunk at mem so that the payload is *)
(* aligned, then the trailing space beyond nb; returns the arena, the     *)
(* aligned chunk and the leader and trailer to free (0 when none).        *)
(* Give back the spare room beyond nb at the end of the chunk q.        *)
memalign_trim_nohead(a, q, leader, nb) ==
  LET size == chunksize(a, q) IN
  IF size > nb + MIN_CHUNK_SIZE
  THEN [a |-> set_inuse(a, q + nb, size - nb), p |-> q,
        leader |-> leader, trailer |-> chunk2mem(q + nb)]
  ELSE [a |-> a, p |-> q, leader |-> leader, trailer |-> 0]

memalign_trim(a, q, leader, nb) ==
  LET size == chunksize(a, q) IN
  IF size > nb + MIN_CHUNK_SIZE
  THEN [a |-> set_inuse(set_inuse(a, q, nb), q + nb, size - nb), p |-> q,
        leader |-> leader, trailer |-> chunk2mem(q + nb)]
  ELSE [a |-> a, p |-> q, leader |-> leader, trailer |-> 0]

memalign_carve_nolead(a, mem, al, nb) ==
  LET p   == mem2chunk(mem)
      pos == mem2chunk(((mem + al - 1) \div al) * al)
  IN  IF mem % al = 0 THEN memalign_trim(a, p, 0, nb)
      ELSE memalign_trim(set_inuse(set_inuse(a, pos, chunksize(a, p) - (pos - p)),
                                   p, pos - p), pos, chunk2mem(p), nb)

memalign_carve(a, mem, al, nb) ==
  LET p   == mem2chunk(mem)
      br  == mem2chunk(((mem + al - 1) \div al) * al)
      pos == IF br - p >= MIN_CHUNK_SIZE THEN br ELSE br + al
  IN  IF mem % al = 0 THEN memalign_trim(a, p, 0, nb)
      ELSE memalign_trim(set_inuse(set_inuse(a, pos, chunksize(a, p) - (pos - p)),
                                   p, pos - p), pos, chunk2mem(p), nb)

(* The final checks on the carved chunk c; the leader and trailer (0 when *)
(* none) are freed after POSTACTION.                                      *)
memalign_finish(c, al, nb) ==
  IF ~(chunksize(c.a, c.p) >= nb /\ chunk2mem(c.p) % al = 0) THEN RetF(Abort(c.a), 0, <<>>)
  ELSE RetF(c.a, chunk2mem(c.p), SelectSeq(<<c.leader, c.trailer>>, LAMBDA x : x # 0))

(* r is the result of the over-sized internal_malloc.                     *)
memalign_from(r, al, nb) ==
  IF r.m = 0 \/ r.a.aborted THEN NoFrees(r)
  ELSE memalign_finish(memalign_carve(r.a, r.m, al, nb), al, nb)

(* al is the rounded alignment, 0 when the rounding loop never ends.      *)
memalign_aligned(a, al, bytes) ==
  IF al = 0 THEN RetF([a EXCEPT !.hung = TRUE], 0, <<>>)
  ELSE IF bytes >= MAX_REQUEST - al THEN RetF(a, 0, <<>>)
  ELSE memalign_from(dlmalloc(a, Wrap(request2size(bytes) + al + MIN_CHUNK_SIZE
                                      - CHUNK_OVERHEAD)), al, request2size(bytes))

internal_memalign_locked(a, alignment, bytes) ==
  IF alignment <= MALLOC_ALIGNMENT THEN NoFrees(dlmalloc(a, bytes))
  ELSE memalign_aligned(a, memalign_alignment(alignment), bytes)

internal_memalign(a, alignment, bytes) ==
  Completed(internal_memalign_locked(a, alignment, bytes))

(* dlcalloc (dlmalloc.c 5756-5768): reject n * size overflowing size_t.   *)
dlcalloc_nocheck(a, n, size) == dlmalloc(a, Wrap(n * size))

dlcalloc(a, n, size) ==
  IF n # 0 /\ MAX_SIZE_T \div n < size THEN Ret(a, 0)
  ELSE dlmalloc(a, Wrap(n * size))

(***************************************************************************)
(* ialloc (dlmalloc.c 5380-5504), the core of independent_calloc and       *)
(* independent_comalloc: one internal_malloc of the whole aggregate, with *)
(* direct mmap disabled around it (no chunk is mmapped in this model, so   *)
(* disable_mmap/enable_mmap and the !is_mmapped check change nothing),    *)
(* then the chunk is cut into the elements under PREACTION.  A result is  *)
(* the arena, the element pointers in order, and the pointer array ialloc *)
(* allocated (0 when the caller gave one or the call failed).             *)
(***************************************************************************)
IallocRet(a, elems, arr) == [a |-> a, elems |-> elems, arr |-> arr]

(* The chunk size of each element: request2size(sizes[0]) for all when     *)
(* opts bit 0 is set (element_size), request2size(sizes[i]) otherwise.     *)
element_sizes(n, sizes, opts) ==
  [i \in 1..n |-> request2size(IF opts % 2 = 1 THEN sizes[1] ELSE sizes[i])]

(* contents_size: n * element_size, or the sum of the element sizes, in   *)
(* size_t arithmetic with no overflow check.                              *)
contents_size(n, sizes, opts) ==
  IF opts % 2 = 1 THEN Wrap(n * request2size(sizes[1]))
  ELSE FoldLeft(LAMBDA acc, es : Wrap(acc + es), 0, element_sizes(n, sizes, opts))

array_size(n, chunks) == IF chunks THEN 0 ELSE request2size(Wrap(n * SIZE_T_SIZE))

(* memset(mem, 0, len): clear the words [m, m + len).                     *)
memset0(a, m, len) ==
  IF len = 0 \/ m + len - SIZE_T_SIZE <= BRK_LIMIT
  THEN [a EXCEPT !.mem = [w \in DOMAIN a.mem |->
                            IF w >= m /\ w < m + len THEN 0 ELSE a.mem[w]]]
  ELSE Assert(FALSE, "write outside the heap")

(* opts bit 1: clear remainder_size - SIZE_T_SIZE - array_size bytes.     *)
ialloc_zero(a, mem, remainder_size, asize, opts) ==
  IF (opts \div 2) % 2 = 1
  THEN memset0(a, mem, Wrap(remainder_size - SIZE_T_SIZE - asize)) ELSE a

(* The pointer array ialloc allocates is the chunk at p + contents_size,  *)
(* holding the rest of the aggregate chunk.                               *)
ialloc_array(a, p, remainder_size, csize) ==
  set_size_and_pinuse_of_inuse_chunk(a, p + csize, Wrap(remainder_size - csize))

(* The split loop: every element but the last gets its own size and the   *)
(* next starts after it; the last absorbs what is left.                   *)
RECURSIVE ialloc_split_exact(_, _, _, _, _)
ialloc_split_exact(a, p, remainder_size, es, marray) ==
  IF Len(es) = 1
  THEN IallocRet(set_size_and_pinuse_of_inuse_chunk(a, p, es[1]),
                 Append(marray, chunk2mem(p)), 0)
  ELSE ialloc_split_exact(set_size_and_pinuse_of_inuse_chunk(a, p, es[1]),
                          p + es[1], Wrap(remainder_size - es[1]), Tail(es),
                          Append(marray, chunk2mem(p)))

RECURSIVE ialloc_split(_, _, _, _, _)
ialloc_split(a, p, remainder_size, es, marray) ==
  IF Len(es) = 1
  THEN IallocRet(set_size_and_pinuse_of_inuse_chunk(a, p, remainder_size),
                 Append(marray, chunk2mem(p)), 0)
  ELSE ialloc_split(set_size_and_pinuse_of_inuse_chunk(a, p, es[1]),
                    p + es[1], Wrap(remainder_size - es[1]), Tail(es),
                    Append(marray, chunk2mem(p)))

WithArray(r, arr) == IallocRet(r.a, r.elems, arr)

ialloc_carve(a, p, remainder_size, es, csize, chunks) ==
  IF chunks THEN ialloc_split(a, p, remainder_size, es, <<>>)
  ELSE WithArray(ialloc_split(ialloc_array(a, p, remainder_size, csize),
                              p, csize, es, <<>>),
                 chunk2mem(p + csize))

ialloc_from(r, es, csize, asize, opts, chunks) ==
  IF r.m = 0 THEN IallocRet(r.a, <<>>, 0)
  ELSE ialloc_carve(ialloc_zero(r.a, r.m, chunksize(r.a, mem2chunk(r.m)), asize, opts),
                    mem2chunk(r.m), chunksize(r.a, mem2chunk(r.m)), es, csize, chunks)

(* With n = 0 ialloc returns the caller's array, or a malloc(0) block as  *)
(* an empty array.                                                        *)
ialloc_empty(r) == IallocRet(r.a, <<>>, r.m)

ialloc(a, n, sizes, opts, chunks) ==
  IF n = 0
  THEN IF chunks THEN IallocRet(a, <<>>, 0) ELSE ialloc_empty(dlmalloc(a, 0))
  ELSE ialloc_from(dlmalloc(a, Wrap(contents_size(n, sizes, opts)
                                    + array_size(n, chunks) - CHUNK_OVERHEAD)),
                   element_sizes(n, sizes, opts), contents_size(n, sizes, opts),
                   array_size(n, chunks), opts, chunks)

(* independent_calloc (5811-5817): sizes is the one-element array         *)
(* <<elem_size>>, opts = 3 (same size, cleared); independent_comalloc      *)
(* (5819-5824): opts = 0.                                                 *)
dlindependent_calloc(a, n, elem_size, chunks) == ialloc(a, n, <<elem_size>>, 3, chunks)
dlindependent_comalloc(a, n, sizes, chunks) == ialloc(a, n, sizes, 0, chunks)

(* pvalloc (5833-5838) rounds the request up to a page in size_t:          *)
(* (bytes + pagesz - 1) & ~(pagesz - 1).                                  *)
pvalloc_bytes(bytes) ==
  LET t == Wrap(bytes + PAGE_SIZE - 1) IN t - (t % PAGE_SIZE)

(***************************************************************************)
(* The client: one thread calling the public entry points on blocks it    *)
(* owns.  live maps each pointer it holds to the request and alignment it *)
(* was obtained with.  It never frees a pointer twice or one it does not  *)
(* hold, so every abort is a false alarm of the allocator's own checks.   *)
(***************************************************************************)
Running == ~h.aborted /\ ~h.hung

Granted(r, req, al) ==
  /\ h' = r.a
  /\ live' = IF r.m = 0 THEN live ELSE (r.m :> [req |-> req, align |-> al]) @@ live

Malloc(n) ==
  /\ Running /\ Cardinality(DOMAIN live) < MaxLive
  /\ Granted(dlmalloc(h, n), n, MALLOC_ALIGNMENT)

Calloc(n, size) ==
  /\ Running /\ Cardinality(DOMAIN live) < MaxLive
  /\ Granted(dlcalloc(h, n, size), n * size, MALLOC_ALIGNMENT)

Free(p) ==
  /\ Running
  /\ h' = dlfree(h, p).a
  /\ live' = [q \in DOMAIN live \ {p} |-> live[q]]

(* realloc keeps the old block when it fails, and frees it when it moves. *)
Reallocated(r, p, n) ==
  /\ h' = r.a
  /\ live' = IF r.m = 0 THEN live
             ELSE (r.m :> [req |-> n, align |-> MALLOC_ALIGNMENT])
                    @@ [q \in DOMAIN live \ {p} |-> live[q]]

Realloc(p, n) ==
  /\ Running
  /\ Reallocated(internal_realloc(h, p, n), p, n)

Memalign(al, n) ==
  /\ Running /\ Cardinality(DOMAIN live) < MaxLive
  /\ Granted(internal_memalign(h, al, n), n,
             IF al > MALLOC_ALIGNMENT THEN al ELSE MALLOC_ALIGNMENT)

Trim(pad) ==
  /\ Running
  /\ h' = sys_trim(h, pad).a
  /\ UNCHANGED live

(* independent_calloc/comalloc hand the client every element, and the    *)
(* pointer array when ialloc allocated it: element i was asked for         *)
(* reqs[i] bytes, the array for n pointers of SIZE_T_SIZE bytes.         *)
IallocBlocks(r, n, reqs) ==
  [m \in ToSet(r.elems) \cup ({r.arr} \ {0}) |->
     [req   |-> IF m = r.arr THEN Wrap(n * SIZE_T_SIZE)
                ELSE reqs[CHOOSE k \in DOMAIN r.elems : r.elems[k] = m],
      align |-> MALLOC_ALIGNMENT]]

IallocGranted(r, n, reqs) ==
  /\ h' = r.a
  /\ live' = IallocBlocks(r, n, reqs) @@ live

RoomFor(n, chunks) ==
  Cardinality(DOMAIN live) + n + (IF chunks THEN 0 ELSE 1) <= MaxLive

IndependentCalloc(n, elem_size, chunks) ==
  /\ Running /\ RoomFor(n, chunks)
  /\ IallocGranted(dlindependent_calloc(h, n, elem_size, chunks), n,
                   [i \in 1..n |-> elem_size])

IndependentComalloc(sizes, chunks) ==
  /\ Running /\ RoomFor(Len(sizes), chunks)
  /\ IallocGranted(dlindependent_comalloc(h, Len(sizes), sizes, chunks),
                   Len(sizes), sizes)

(* valloc and pvalloc: memalign to mparams.page_size.                      *)
Valloc(n) ==
  /\ Running /\ Cardinality(DOMAIN live) < MaxLive
  /\ Granted(internal_memalign(h, PAGE_SIZE, n), n, PAGE_SIZE)

Pvalloc(n) ==
  /\ Running /\ Cardinality(DOMAIN live) < MaxLive
  /\ Granted(internal_memalign(h, PAGE_SIZE, pvalloc_bytes(n)), n, PAGE_SIZE)

Init == h = InitArena /\ live = <<>>

Next ==
  \/ \E n \in Requests : Malloc(n)
  \/ \E args \in CallocArgs : Calloc(args[1], args[2])
  \/ \E p \in DOMAIN live : Free(p)
  \/ \E p \in DOMAIN live, n \in Requests : Realloc(p, n)
  \/ \E al \in Alignments, n \in Requests : Memalign(al, n)
  \/ \E pad \in Pads : Trim(pad)
  \/ \E args \in ICallocArgs, chunks \in BOOLEAN :
       IndependentCalloc(args[1], args[2], chunks)
  \/ \E sizes \in Comallocs, chunks \in BOOLEAN : IndependentComalloc(sizes, chunks)
  \/ \E n \in PageRequests : Valloc(n) \/ Pvalloc(n)

Spec == Init /\ [][Next]_vars

-----------------------------------------------------------------------------
(***************************************************************************)
(* The consistency checks of the DEBUG build (dlmalloc.c 3710-4148), which *)
(* this build compiles out.  Each do_check_* is the conjunction of its    *)
(* CHUNK_ERROR_DETECTION conditions: TRUE when none of them would fire.   *)
(* fd/bk and the trie links are not stored, so "p->fd->bk == p &&         *)
(* p->bk->fd == p" becomes "p is linked in a bin" and the parent/child     *)
(* tests of do_check_tree are left out.                                   *)
(***************************************************************************)
FENCEPOST_HEAD == INUSE_BITS + SIZE_T_SIZE
MMAP_FOOT_PAD  == 4 * SIZE_T_SIZE

is_aligned(A)       == A % MALLOC_ALIGNMENT = 0
next_chunk(a, p)    == p + chunksize(a, p)
prev_chunk(a, p)    == p - prev_foot(a, p)
next_pinuse(a, p)   == pinuse(a, next_chunk(a, p))
is_mmapped(a, p)    == ~pinuse(a, p) /\ prev_foot(a, p) % 2 = IS_MMAPPED_BIT

minsize_for_tree_index(i) ==
  2^(i \div 2 + TREEBIN_SHIFT) + (i % 2) * 2^(i \div 2 + TREEBIN_SHIFT - 1)

(* A word of the heap, read by a check that may look past the segment.    *)
word(a, w) == IF w \in DOMAIN a.mem THEN a.mem[w] ELSE 0

linked(a, p) ==
  \/ \E i \in DOMAIN a.smallbins : p \in ToSet(a.smallbins[i])
  \/ \E i \in DOMAIN a.treebins  : p \in ToSet(a.treebins[i])

(* bin_find: x is in the bin its size selects, when that bin is marked.   *)
bin_find(a, x) ==
  LET size == chunksize(a, x) IN
  IF is_small(size)
  THEN small_index(size) \in a.smallmap /\ x \in ToSet(a.smallbins[small_index(size)])
  ELSE LET tidx == compute_tree_index(size) IN
       tidx \in a.treemap /\ x \in ToSet(a.treebins[tidx])

do_check_any_chunk(a, p) ==
  /\ is_aligned(chunk2mem(p)) \/ head(a, p) = FENCEPOST_HEAD
  /\ ok_address(a, p)

do_check_top_chunk(a, p) ==
  LET sz == chunksize(a, p) IN
  /\ segment_holds(a, p)
  /\ do_check_any_chunk(a, p)
  /\ sz = a.topsize /\ sz > 0
  /\ sz = (a.seg_base + a.seg_size - p) - TOP_FOOT_SIZE
  /\ pinuse(a, p) /\ ~next_pinuse(a, p)

do_check_mmapped_chunk(a, p) ==
  LET sz  == chunksize(a, p)
      len == sz + (prev_foot(a, p) - IS_MMAPPED_BIT) + MMAP_FOOT_PAD
  IN  /\ is_mmapped(a, p)
      /\ do_check_any_chunk(a, p)
      /\ ~is_small(sz)
      /\ len % PAGE_SIZE = 0
      /\ word(a, p + sz + SIZE_T_SIZE) = FENCEPOST_HEAD
      /\ word(a, p + sz + 2 * SIZE_T_SIZE) = 0

do_check_inuse_chunk(a, p) ==
  /\ do_check_any_chunk(a, p)
  /\ cinuse(a, p) /\ next_pinuse(a, p)
  /\ is_mmapped(a, p) \/ pinuse(a, p) \/ next_chunk(a, prev_chunk(a, p)) = p
  /\ is_mmapped(a, p) => do_check_mmapped_chunk(a, p)

do_check_free_chunk(a, p) ==
  LET sz   == chunksize(a, p)
      next == p + sz
  IN  /\ do_check_any_chunk(a, p)
      /\ ~cinuse(a, p) /\ ~next_pinuse(a, p) /\ ~is_mmapped(a, p)
      /\ p # a.dv /\ p # a.top =>
           IF sz >= MIN_CHUNK_SIZE
           THEN /\ sz % 8 = 0 /\ is_aligned(chunk2mem(p))
                /\ prev_foot(a, next) = sz
                /\ pinuse(a, p)
                /\ next = a.top \/ cinuse(a, next)
                /\ linked(a, p)
           ELSE sz = SIZE_T_SIZE

(* Checked on the chunk malloc returns for a padded request of s bytes.   *)
do_check_malloced_chunk(a, mem, s) ==
  mem # 0 =>
    LET p  == mem2chunk(mem)
        sz == chunksize(a, p)
    IN  /\ do_check_inuse_chunk(a, p)
        /\ sz % 8 = 0 /\ sz >= MIN_CHUNK_SIZE /\ sz >= s
        /\ is_mmapped(a, p) \/ sz < s + MIN_CHUNK_SIZE

(* do_check_tree on the chunks of tree bin idx: each sized for the bin.  *)
do_check_tree(a, idx) ==
  \A k \in DOMAIN a.treebins[idx] :
    LET u     == a.treebins[idx][k]
        tsize == chunksize(a, u)
    IN  /\ compute_tree_index(tsize) = idx
        /\ tsize >= MIN_LARGE_SIZE
        /\ tsize >= minsize_for_tree_index(idx)
        /\ idx = NTREEBINS - 1 \/ tsize < minsize_for_tree_index(idx + 1)
        /\ do_check_any_chunk(a, u)
        /\ ~cinuse(a, u) /\ ~next_pinuse(a, u)

do_check_treebin(a, i) ==
  /\ a.treebins[i] = <<>> => i \notin a.treemap
  /\ i \in a.treemap => do_check_tree(a, i)

(* p->bk is the chunk linked in front of p, the previous element of the  *)
(* sequence, or the bin header for the first.                            *)
do_check_smallbin(a, i) ==
  /\ a.smallbins[i] = <<>> => i \notin a.smallmap
  /\ i \in a.smallmap =>
       \A k \in DOMAIN a.smallbins[i] :
         LET p == a.smallbins[i][k]
             q == next_chunk(a, p)
         IN  /\ do_check_free_chunk(a, p)
             /\ small_index(chunksize(a, p)) = i
             /\ k = 1 \/ chunksize(a, a.smallbins[i][k - 1]) = chunksize(a, p)
             /\ head(a, q) # FENCEPOST_HEAD => do_check_inuse_chunk(a, q)

(* traverse_and_check: the chunks from the segment base up to top or a    *)
(* fencepost (a zero size would make the code loop forever; here it ends  *)
(* the walk, and the check on its end fails).                             *)
RECURSIVE traverse(_, _)
traverse(a, q) ==
  IF ~segment_holds(a, q) \/ q = a.top \/ head(a, q) = FENCEPOST_HEAD
     \/ chunksize(a, q) = 0
  THEN <<>>
  ELSE <<q>> \o traverse(a, next_chunk(a, q))

traverse_ends(a, s) ==
  LET q == IF s = <<>> THEN a.seg_base ELSE next_chunk(a, Last(s)) IN
  ~segment_holds(a, q) \/ q = a.top \/ head(a, q) = FENCEPOST_HEAD

traverse_and_check(a) ==
  LET s == traverse(a, a.seg_base) IN
  /\ traverse_ends(a, s)
  /\ pinuse(a, a.seg_base)
  /\ \A k \in DOMAIN s :
       IF cinuse(a, s[k])
       THEN ~bin_find(a, s[k]) /\ do_check_inuse_chunk(a, s[k])
       ELSE /\ s[k] = a.dv \/ bin_find(a, s[k])
            /\ k = 1 \/ cinuse(a, s[k - 1])
            /\ do_check_free_chunk(a, s[k])
  /\ a.topsize + TOP_FOOT_SIZE + FoldSeq(LAMBDA q, t : chunksize(a, q) + t, 0, s)
       <= a.footprint

do_check_malloc_state(a) ==
  /\ \A i \in DOMAIN a.smallbins : do_check_smallbin(a, i)
  /\ \A i \in DOMAIN a.treebins : do_check_treebin(a, i)
  /\ a.dvsize # 0 =>
       /\ do_check_any_chunk(a, a.dv)
       /\ a.dvsize = chunksize(a, a.dv) /\ a.dvsize >= MIN_CHUNK_SIZE
       /\ ~bin_find(a, a.dv)
  /\ a.top # 0 =>
       /\ do_check_top_chunk(a, a.top)
       /\ a.topsize = chunksize(a, a.top) /\ a.topsize > 0
       /\ ~bin_find(a, a.top)
  /\ a.top # 0 => traverse_and_check(a)
  /\ a.footprint <= a.max_footprint

(* internal_mallinfo (4153-4189): the counts of a walk over the segment.  *)
chunk_bytes(a, s) == FoldSeq(LAMBDA q, t : chunksize(a, q) + t, 0, s)

(* Mutant: top's foot counted as in use.                                *)
mallinfo_of_nofoot(a, s, free) ==
  LET mfree == a.topsize + chunk_bytes(a, free)
      sum   == a.topsize + TOP_FOOT_SIZE + chunk_bytes(a, s)
  IN  [arena |-> sum, ordblks |-> 1 + Len(free), hblkhd |-> a.footprint - sum,
       usmblks |-> a.max_footprint, uordblks |-> a.footprint - mfree,
       fordblks |-> mfree, keepcost |-> a.topsize]

mallinfo_of(a, s, free) ==
  LET mfree == a.topsize + TOP_FOOT_SIZE + chunk_bytes(a, free)
      sum   == a.topsize + TOP_FOOT_SIZE + chunk_bytes(a, s)
  IN  [arena |-> sum, ordblks |-> 1 + Len(free), hblkhd |-> a.footprint - sum,
       usmblks |-> a.max_footprint, uordblks |-> a.footprint - mfree,
       fordblks |-> mfree, keepcost |-> a.topsize]

mallinfo_walk(a, s) == mallinfo_of(a, s, SelectSeq(s, LAMBDA q : ~cinuse(a, q)))

internal_mallinfo(a) ==
  IF a.top = 0
  THEN [arena |-> 0, ordblks |-> 0, hblkhd |-> 0, usmblks |-> 0,
        uordblks |-> 0, fordblks |-> 0, keepcost |-> 0]
  ELSE mallinfo_walk(a, traverse(a, a.seg_base))

-----------------------------------------------------------------------------
(***************************************************************************)
(* Properties.                                                             *)
(***************************************************************************)
Initialized == h.top # 0
SegEnd      == h.seg_base + h.seg_size

(* The chunks from p up to top, following the size fields; stops at any   *)
(* size that is not a positive multiple of 8 or that overshoots top.      *)
RECURSIVE ChunksFrom(_, _)
ChunksFrom(a, p) ==
  IF p >= a.top \/ chunksize(a, p) = 0 \/ chunksize(a, p) % 8 # 0 THEN <<>>
  ELSE <<p>> \o ChunksFrom(a, p + chunksize(a, p))

Chunks      == ChunksFrom(h, h.seg_base)
ChunkSet    == ToSet(Chunks)
NextOf(c)   == c + chunksize(h, c)
FreeChunks  == {c \in ChunkSet : ~cinuse(h, c)}
InuseChunks == ChunkSet \ FreeChunks
BinnedChunks ==
  UNION {ToSet(h.smallbins[i]) : i \in DOMAIN h.smallbins}
  \cup UNION {ToSet(h.treebins[i]) : i \in DOMAIN h.treebins}

TypeOK ==
  /\ h.mem \in [Addrs -> 0..MAX_SIZE_T]
  /\ h.smallmap \subseteq 0..NSMALLBINS-1 /\ h.treemap \subseteq 0..NTREEBINS-1
  /\ \A i \in DOMAIN h.smallbins : h.smallbins[i] \in Seq(Addrs)
  /\ \A i \in DOMAIN h.treebins : h.treebins[i] \in Seq(Addrs)
  /\ {h.dv, h.top, h.least_addr, h.seg_base} \subseteq Addrs \cup {0}
  /\ {h.dvsize, h.topsize, h.footprint, h.max_footprint, h.seg_size,
      h.trim_check} \subseteq 0..MAX_SIZE_T
  /\ h.brk \in Addrs
  /\ h.noncontig \in BOOLEAN /\ h.aborted \in BOOLEAN /\ h.hung \in BOOLEAN
  /\ live \in [DOMAIN live -> [req : Nat, align : Nat]]

(* The boundary tags written by malloc, free, realloc, memalign and the    *)
(* top splits describe the heap: the chunks tile the segment from its base *)
(* to top, top and the fencepost fill the rest, each chunk's in-use bit is *)
(* copied into the PINUSE bit of the next, a free chunk's size is repeated *)
(* in the next chunk's prev_foot, and no two free chunks touch (free       *)
(* coalesces in both directions).                                         *)
ChunkLayoutOK ==
  Initialized /\ ~h.aborted =>
  /\ (IF Chunks = <<>> THEN h.seg_base ELSE NextOf(Last(Chunks))) = h.top
  /\ h.top + h.topsize + TOP_FOOT_SIZE = SegEnd
  /\ head(h, h.top) = h.topsize + PINUSE_BIT
  /\ head(h, h.top + h.topsize) = TOP_FOOT_SIZE
  /\ h.seg_base \in ChunkSet \cup {h.top} => pinuse(h, h.seg_base)
  /\ \A c \in ChunkSet :
       /\ chunksize(h, c) >= MIN_CHUNK_SIZE
       /\ pinuse(h, NextOf(c)) = cinuse(h, c)
       /\ ~cinuse(h, c) => /\ prev_foot(h, NextOf(c)) = chunksize(h, c)
                           /\ cinuse(h, NextOf(c)) \/ NextOf(c) = h.top

(* Every free chunk other than top is reachable exactly once: it is the   *)
(* dv or sits in the bin its size selects, never both; the bitmaps name   *)
(* exactly the non-empty bins; dv and dvsize agree with the heap.         *)
FreeIndexOK ==
  Initialized /\ ~h.aborted =>
  /\ FreeChunks = BinnedChunks \cup (IF h.dvsize = 0 THEN {} ELSE {h.dv})
  /\ h.dvsize # 0 => /\ h.dv \notin BinnedChunks
                     /\ h.dv \in FreeChunks /\ chunksize(h, h.dv) = h.dvsize
  /\ h.dvsize = 0 => h.dv = 0
  /\ \A i \in DOMAIN h.smallbins :
       /\ IsInjective(h.smallbins[i])
       /\ \A k \in DOMAIN h.smallbins[i] :
            chunksize(h, h.smallbins[i][k]) = small_index2size(i)
       /\ (i \in h.smallmap <=> h.smallbins[i] # <<>>)
  /\ \A i \in DOMAIN h.treebins :
       /\ IsInjective(h.treebins[i])
       /\ \A k \in DOMAIN h.treebins[i] :
            LET sz == chunksize(h, h.treebins[i][k]) IN
            ~is_small(sz) /\ compute_tree_index(sz) = i
       /\ (i \in h.treemap <=> h.treebins[i] # <<>>)

(* What the client holds is what the heap says is in use: each pointer it *)
(* got from malloc, calloc, realloc or memalign is the payload of an      *)
(* in-use chunk with room for the bytes it asked for, aligned as asked,   *)
(* and every in-use chunk is one of them (none lost, none shared).        *)
ClientViewOK ==
  ~h.aborted =>
  /\ {mem2chunk(m) : m \in DOMAIN live} = InuseChunks
  /\ \A m \in DOMAIN live :
       /\ chunksize(h, mem2chunk(m)) - CHUNK_OVERHEAD >= live[m].req
       /\ m % live[m].align = 0

(* The bytes obtained with sbrk are exactly the one segment: footprint    *)
(* equals its size, the break sits at its end, and max_footprint never     *)
(* falls below footprint.                                                 *)
FootprintOK ==
  /\ h.footprint = h.seg_size
  /\ h.brk = IF Initialized THEN SegEnd ELSE HEAP_BASE
  /\ h.max_footprint >= h.footprint

(* With a client that frees only what it holds, no integrity check of     *)
(* the allocator (CHUNK_ERROR_DETECTION, USAGE_ERROR_ACTION) fires.        *)
NoFalseAlarm == ~h.aborted

(* malloc turns to the system only as a last resort: a malloc step that  *)
(* grows the footprint or returns null is taken only when no free chunk   *)
(* (binned or dv) holds the padded request and top is not larger than it. *)
(* This is the order of dlmalloc's small-bin, tree (tmalloc_small,         *)
(* tmalloc_large), dv and top steps before sys_alloc, across bins of all  *)
(* sizes.                                                                  *)
UsesFreeChunkFirst ==
  [][\A n \in Requests :
       Malloc(n) /\ (h'.footprint > h.footprint \/ live' = live) =>
         /\ \A c \in FreeChunks : chunksize(h, c) < malloc_nb(n)
         /\ h.topsize <= malloc_nb(n)]_vars

(* Spec 4.4 step 7 and section 7: a request that fails leaves the arena    *)
(* unchanged and a size whose padding would wrap is rejected, never        *)
(* truncated.  A call that grants the client nothing obtains nothing from  *)
(* the system and does not switch the arena to noncontiguous growth.       *)
FailedCallObtainsNothing ==
  [][live' = live => /\ h'.footprint <= h.footprint
                     /\ h'.noncontig = h.noncontig]_vars

(* Spec 6: memalign accepts any alignment and rounds it up to a power of  *)
(* two.  The rounding loop of internal_memalign ends for every alignment. *)
MemalignReturns == ~h.hung


(* The branch-free bit scan of compute_tree_index finds the same bin as  *)
(* the reference (the bin whose size range holds S) for every X = S >>    *)
(* TREEBIN_SHIFT up to 0xFFFF and past it, at both ends of both halves of *)
(* each range - the whole input space of its unsigned int arithmetic.      *)
(* It is a fact about the code alone; it is asserted of the states before  *)
(* the arena is set up, so that TLC evaluates it on the initial state.     *)
TreeIndexBitsAgree ==
  \A X \in 0..65536, r \in {0, 8, MIN_LARGE_SIZE \div 2, MIN_LARGE_SIZE - 8} :
    compute_tree_index(X * MIN_LARGE_SIZE + r) = tree_index_ref(X * MIN_LARGE_SIZE + r)

TreeIndexBitsOK == ~Initialized => TreeIndexBitsAgree

(* A DEBUG build would never report a false alarm: in every state a     *)
(* correct client reaches, none of the CHUNK_ERROR_DETECTION conditions of *)
(* do_check_malloc_state fires - the bins, the dv, top, and the walk over *)
(* the segment, including do_check_tree's size range of each tree bin     *)
(* (minsize_for_tree_index), which is computed independently of the       *)
(* compute_tree_index that placed the chunk there.                         *)
DebugChecksPass ==
  Initialized /\ ~h.aborted => do_check_malloc_state(h)

(* What do_check_malloced_chunk asserts for every chunk malloc returns,   *)
(* for every block the client holds from malloc, calloc or realloc: an    *)
(* in-use chunk at least as large as the padded request and less than     *)
(* MIN_CHUNK_SIZE larger (any splittable remainder went back to dv, the   *)
(* bins or top), across the dv, small-bin, tree, top and realloc paths.   *)
ClientChunksTight ==
  ~h.aborted =>
    \A p \in DOMAIN live :
      live[p].align = MALLOC_ALIGNMENT =>
        do_check_malloced_chunk(h, p, malloc_nb(live[p].req))

(* mallinfo reports what the client holds: no mmapped bytes (hblkhd 0),   *)
(* uordblks the bytes of the chunks of the client's blocks, fordblks the   *)
(* rest of the footprint, and one free block per free chunk plus top.     *)
MallinfoAccounts ==
  Initialized /\ ~h.aborted =>
    LET mi == internal_mallinfo(h) IN
    /\ mi.hblkhd = 0
    /\ mi.uordblks = MapThenSumSet(LAMBDA p : chunksize(h, mem2chunk(p)), DOMAIN live)
    /\ mi.uordblks + mi.fordblks = h.footprint
    /\ mi.ordblks = Cardinality(FreeChunks) + 1

(* The refinement mapping to the abstract allocator: each pointer the     *)
(* client holds is a block from the pointer to the end of its chunk's      *)
(* usable bytes, chunksize - CHUNK_OVERHEAD (dlmalloc_usable_size,         *)
(* overhead_for of a chunk that is not mmapped).                          *)
ClientBlocks ==
  [p \in DOMAIN live |->
     [lo |-> p, hi |-> p + chunksize(h, mem2chunk(p)) - CHUNK_OVERHEAD,
      req |-> live[p].req, align |-> live[p].align]]

Abs == INSTANCE AbstractHeap WITH blocks <- ClientBlocks

(* Spec sections 4-6 seen by the client: every step of malloc, calloc,    *)
(* realloc, memalign, free and malloc_trim is a step of the abstract       *)
(* allocator.  A call adds, removes or replaces only the block it is       *)
(* about, a new block is as large and aligned as asked and overlaps none   *)
(* the client holds, and no call moves, grows or shrinks another block.    *)
AbstractHeapSpec == Abs!Spec

=============================================================================
