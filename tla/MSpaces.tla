------------------------------- MODULE MSpaces -------------------------------
(***************************************************************************)
(* dlmalloc's user mspaces (dlmalloc.c 5906-6750, compiled with MSPACES   *)
(* 1): several arenas in one address space, each a malloc_state with one  *)
(* segment, created in a region the caller supplies                       *)
(* (create_mspace_with_base) or one obtained with mmap (create_mspace).   *)
(*                                                                         *)
(* The mspace entry points are the global ones applied to the arena the   *)
(* caller names: mspace_malloc and mtk_mspace_malloc are dlmalloc's code, *)
(* mspace_free and mtk_mspace_free dlfree's, mspace_realloc and           *)
(* mspace_memalign call internal_realloc and internal_memalign, whose     *)
(* internal_malloc and internal_free are mspace_malloc and mspace_free.   *)
(* So each call is DLHeap's operator on the arena's record, with the      *)
(* memory words shared by all arenas.  FOOTERS is 0: ok_magic is (1), and *)
(* nothing ties a chunk to its arena.  One client thread; each call runs  *)
(* in one step (PREACTION/POSTACTION when the arena is locked).           *)
(*                                                                         *)
(* The environment: Base[s] is where the region of handle s lies, RegionSize *)
(* bytes that mmap returns for create_mspace (when the mapping fits) or     *)
(* that the caller owns for create_mspace_with_base.  Growing an arena     *)
(* fails: sys_alloc's mmap calls fail and the process break is at its      *)
(* limit, so every arena keeps its single segment.                         *)
(***************************************************************************)
EXTENDS Integers, Sequences, SequencesExt, FiniteSets, TLC

CONSTANTS
  SIZE_T_BITS, TREEBIN_SHIFT, PAGE_SIZE, TRIM_THRESHOLD, HEAP_BASE,
  BRK_LIMIT, Requests, Alignments, Pads, CallocArgs, MaxLive,
  ICallocArgs, Comallocs, PageRequests,
  Spaces,       \* mspace handles the client creates
  Base,         \* Spaces -> the address of each handle's region
  RegionSize,   \* bytes of each region
  Capacities,   \* capacities passed to create_mspace and create_mspace_with_base
  MSTATE_SIZE   \* pad_request(sizeof(struct malloc_state))

VARIABLES
  mem,      \* the memory words, shared by all arenas
  ms,       \* handle -> its malloc_state (the DLHeap record, mem left out)
  spaces,   \* the handles created and not destroyed
  live      \* pointer -> [req, align, space] for every block the client holds

vars == <<mem, ms, spaces, live>>

H == INSTANCE DLHeap WITH h <- [mem |-> mem], live <- live

(* The arena record of handle s with the shared memory.                   *)
Arena(s) == [ms[s] EXCEPT !.mem = mem]

(* A record for a handle that is not a live mspace.                       *)
NoArena == [H!InitArena EXCEPT !.mem = <<>>]

LiveOf(s) == [p \in {q \in DOMAIN live : live[q].space = s} |->
                [req |-> live[p].req, align |-> live[p].align]]

ASSUME \A s \in Spaces : Base[s] >= HEAP_BASE /\ Base[s] + RegionSize < BRK_LIMIT

(***************************************************************************)
(* Creating and destroying an mspace (dlmalloc.c 5906-5984).              *)
(***************************************************************************)
(* init_user_mstate: the malloc_state in a chunk of msize bytes at the     *)
(* front of the region (its words zeroed by memset), then top over the     *)
(* rest; the arena is noncontiguous from the start.                        *)
mstate_chunk(a0, tbase, tsize, sflags) ==
  LET msp == tbase + H!align_offset(H!chunk2mem(tbase))
      a1  == [a0 EXCEPT !.mem = [w \in DOMAIN @ |->
                IF w >= H!chunk2mem(msp) /\ w < H!chunk2mem(msp) + MSTATE_SIZE
                THEN 0 ELSE @[w]]]
  IN  [H!PutHead(a1, msp, MSTATE_SIZE + H!INUSE_BITS) EXCEPT
         !.least_addr = tbase, !.seg_base = tbase, !.seg_size = tsize,
         !.footprint = tsize, !.max_footprint = tsize, !.noncontig = TRUE,
         !.sflags = sflags, !.brk = BRK_LIMIT, !.mstate = H!chunk2mem(msp)]

(* mn, the chunk after the malloc_state's.                                *)
mn_of(tbase) == tbase + H!align_offset(H!chunk2mem(tbase)) + MSTATE_SIZE

(* top without room for the segment record and fencepost.                 *)
init_user_mstate_nofoot(a0, tbase, tsize, sflags) ==
  H!init_top(mstate_chunk(a0, tbase, tsize, sflags), mn_of(tbase),
             tbase + tsize - mn_of(tbase))

init_user_mstate(a0, tbase, tsize, sflags) ==
  H!init_top(mstate_chunk(a0, tbase, tsize, sflags), mn_of(tbase),
             tbase + tsize - mn_of(tbase) - H!TOP_FOOT_SIZE)

(* The new arena r of handle s.                                           *)
Created(s, r) ==
  /\ mem' = r.mem
  /\ ms' = [ms EXCEPT ![s] = [r EXCEPT !.mem = <<>>]]
  /\ spaces' = spaces \cup {s}
  /\ UNCHANGED live

(* The capacity tests of create_mspace and create_mspace_with_base; a     *)
(* capacity failing them makes the call return 0 and change nothing.     *)
create_mspace_ok(cap) ==
  cap < H!Wrap(-(MSTATE_SIZE + H!TOP_FOOT_SIZE + PAGE_SIZE))

create_mspace_with_base_ok_nomin(cap) ==
  cap < H!Wrap(-(MSTATE_SIZE + H!TOP_FOOT_SIZE + PAGE_SIZE))

create_mspace_with_base_ok(cap) ==
  /\ cap > MSTATE_SIZE + H!TOP_FOOT_SIZE
  /\ cap < H!Wrap(-(MSTATE_SIZE + H!TOP_FOOT_SIZE + PAGE_SIZE))

(* create_mspace: mmap the granularity-aligned size (fresh pages read 0). *)
CreateMspace(s, cap) ==
  LET tsize == H!granularity_align(IF cap = 0 THEN PAGE_SIZE
                                   ELSE cap + H!TOP_FOOT_SIZE + MSTATE_SIZE)
  IN  /\ s \notin spaces /\ create_mspace_ok(cap) /\ tsize <= RegionSize
      /\ Created(s, init_user_mstate(
                      [Arena(s) EXCEPT !.mem = [w \in DOMAIN @ |->
                         IF w >= Base[s] /\ w < Base[s] + tsize THEN 0 ELSE @[w]]],
                      Base[s], tsize, H!IS_MMAPPED_BIT))

CreateMspaceWithBase(s, cap) ==
  /\ s \notin spaces /\ create_mspace_with_base_ok(cap) /\ cap <= RegionSize
  /\ Created(s, init_user_mstate(Arena(s), Base[s], cap, H!EXTERN_BIT))

(* destroy_mspace: munmap the segment unless it is extern (the byte count *)
(* it returns is not modelled); the client's blocks in it are gone.        *)
DestroyMspace(s) ==
  /\ s \in spaces
  /\ ms' = [ms EXCEPT ![s] = NoArena]
  /\ spaces' = spaces \ {s}
  /\ live' = [p \in DOMAIN live \ DOMAIN LiveOf(s) |-> live[p]]
  /\ UNCHANGED mem

(***************************************************************************)
(* The per-arena calls (dlmalloc.c 6003-6644).                            *)
(***************************************************************************)
mspace_malloc(a, bytes)     == H!dlmalloc(a, bytes)
mtk_mspace_malloc(a, bytes) == H!dlmalloc(a, bytes)
mspace_free(a, m)           == H!dlfree(a, m)
mtk_mspace_free(a, m)       == H!dlfree(a, m)

mspace_calloc_nocheck(a, n, size) == mspace_malloc(a, H!Wrap(n * size))

mspace_calloc(a, n, size) ==
  IF n # 0 /\ H!MAX_SIZE_T \div n < size THEN H!Ret(a, 0)
  ELSE mspace_malloc(a, H!Wrap(n * size))

mspace_realloc(a, oldmem, bytes) ==
  IF oldmem = 0 THEN mspace_malloc(a, bytes) ELSE H!internal_realloc(a, oldmem, bytes)

mspace_memalign(a, al, bytes) == H!internal_memalign(a, al, bytes)
mspace_trim(a, pad)           == H!sys_trim(a, pad)

(* mspace_merge_objects (Android): b's chunk must follow a's; a's head   *)
(* then grows by b's size.                                                *)
merge_nocheck(a, pa, pb) ==
  IF ~(H!ok_address(a, pb) /\ H!cinuse(a, pb)) THEN H!Ret(H!Abort(a), 0)
  ELSE H!Ret(H!PutHead(a, pa, H!head(a, pa) + H!chunksize(a, pb)), H!chunk2mem(pa))

merge(a, pa, pb) ==
  IF pa + H!chunksize(a, pa) # pb THEN H!Ret(a, 0)
  ELSE IF ~(H!ok_address(a, pb) /\ H!cinuse(a, pb)) THEN H!Ret(H!Abort(a), 0)
  ELSE H!Ret(H!PutHead(a, pa, H!head(a, pa) + H!chunksize(a, pb)), H!chunk2mem(pa))

mspace_merge_objects(a, mema, memb) ==
  IF mema = 0 \/ memb = 0 THEN H!Ret(a, 0)
  ELSE IF ~(H!ok_address(a, H!mem2chunk(mema)) /\ H!cinuse(a, H!mem2chunk(mema)))
  THEN H!Ret(H!Abort(a), 0)
  ELSE merge(a, H!mem2chunk(mema), H!mem2chunk(memb))

(***************************************************************************)
(* The client.  An abort ends the process: no call runs after one.         *)
(***************************************************************************)
Running == \A s \in Spaces : ~ms[s].aborted /\ ~ms[s].hung

Room == Cardinality(DOMAIN live) < MaxLive

(* The arena of s after a call with result r.                              *)
Done(s, r) ==
  /\ mem' = r.a.mem
  /\ ms' = [ms EXCEPT ![s] = [r.a EXCEPT !.mem = <<>>]]

Granted(s, r, req, al) ==
  /\ Done(s, r)
  /\ live' = IF r.m = 0 THEN live
             ELSE (r.m :> [req |-> req, align |-> al, space |-> s]) @@ live
  /\ UNCHANGED spaces

Malloc(s, n) ==
  /\ Running /\ s \in spaces /\ Room
  /\ Granted(s, mspace_malloc(Arena(s), n), n, H!MALLOC_ALIGNMENT)

MtkMalloc(s, n) ==
  /\ Running /\ s \in spaces /\ Room
  /\ Granted(s, mtk_mspace_malloc(Arena(s), n), n, H!MALLOC_ALIGNMENT)

Released(p, r) ==
  /\ Done(live[p].space, r)
  /\ live' = [q \in DOMAIN live \ {p} |-> live[q]]
  /\ UNCHANGED spaces

Free(p) ==
  /\ Running
  /\ Released(p, mspace_free(Arena(live[p].space), p))

MtkFree(p) ==
  /\ Running
  /\ Released(p, mtk_mspace_free(Arena(live[p].space), p))

Calloc(s, n, size) ==
  /\ Running /\ s \in spaces /\ Room
  /\ Granted(s, mspace_calloc(Arena(s), n, size), n * size, H!MALLOC_ALIGNMENT)

(* realloc keeps the old block when it fails, and frees it when it moves. *)
Reallocated(s, r, p, n) ==
  /\ Done(s, r)
  /\ live' = IF r.m = 0 THEN live
             ELSE (r.m :> [req |-> n, align |-> H!MALLOC_ALIGNMENT, space |-> s])
                    @@ [q \in DOMAIN live \ {p} |-> live[q]]
  /\ UNCHANGED spaces

Realloc(p, n) ==
  /\ Running
  /\ Reallocated(live[p].space, mspace_realloc(Arena(live[p].space), p, n), p, n)

Memalign(s, al, n) ==
  /\ Running /\ s \in spaces /\ Room
  /\ Granted(s, mspace_memalign(Arena(s), al, n), n,
             IF al > H!MALLOC_ALIGNMENT THEN al ELSE H!MALLOC_ALIGNMENT)

Trim(s, pad) ==
  /\ Running /\ s \in spaces
  /\ Done(s, mspace_trim(Arena(s), pad))
  /\ UNCHANGED <<spaces, live>>

(* Merge b into a: on success the client holds a alone.                   *)
Merged(s, r, b) ==
  /\ Done(s, r)
  /\ live' = IF r.m = 0 THEN live ELSE [q \in DOMAIN live \ {b} |-> live[q]]
  /\ UNCHANGED spaces

MergeObjects(a, b) ==
  /\ Running /\ live[b].space = live[a].space
  /\ Merged(live[a].space, mspace_merge_objects(Arena(live[a].space), a, b), b)

Init ==
  /\ mem = [w \in H!Addrs |-> 0]
  /\ ms = [s \in Spaces |-> NoArena]
  /\ spaces = {}
  /\ live = <<>>

Next ==
  \/ \E s \in Spaces, cap \in Capacities :
       CreateMspace(s, cap) \/ CreateMspaceWithBase(s, cap)
  \/ \E s \in Spaces : DestroyMspace(s)
  \/ \E s \in Spaces, n \in Requests :
       Malloc(s, n) \/ MtkMalloc(s, n)
  \/ \E p \in DOMAIN live : Free(p) \/ MtkFree(p)
  \/ \E s \in Spaces, args \in CallocArgs : Calloc(s, args[1], args[2])
  \/ \E p \in DOMAIN live, n \in Requests : Realloc(p, n)
  \/ \E s \in Spaces, al \in Alignments, n \in Requests : Memalign(s, al, n)
  \/ \E s \in Spaces, pad \in Pads : Trim(s, pad)
  \/ \E a, b \in DOMAIN live : a # b /\ MergeObjects(a, b)

Spec == Init /\ [][Next]_vars

-----------------------------------------------------------------------------
(***************************************************************************)
(* Properties.  A(s) is DLHeap's view of the arena of handle s and the     *)
(* client's blocks in it.                                                  *)
(***************************************************************************)
A(s) == INSTANCE DLHeap WITH h <- Arena(s), live <- LiveOf(s)

InSegment(a, w) == w >= a.seg_base /\ w < a.seg_base + a.seg_size

TypeOK ==
  /\ spaces \subseteq Spaces
  /\ \A p \in DOMAIN live : live[p].space \in spaces
  /\ \A s \in spaces : A(s)!TypeOK /\ ms[s].sflags \in {H!IS_MMAPPED_BIT, H!EXTERN_BIT}

(* Each mspace stays a well-formed heap of its own whatever calls the      *)
(* client makes on it and on the others: its boundary tags tile its       *)
(* segment from the malloc_state's chunk to top and the fencepost, and     *)
(* its bins and dv index exactly its free chunks; no integrity check       *)
(* fires.  merge_objects, which writes a head without PREACTION, keeps     *)
(* this too.                                                               *)
ArenaLayoutOK ==
  \A s \in spaces :
    /\ ~ms[s].aborted
    /\ A(s)!ChunkLayoutOK
    /\ A(s)!FreeIndexOK

(* The in-use chunks of each mspace are its malloc_state's chunk and the   *)
(* blocks the client got from that mspace, none lost or shared; each block *)
(* has the bytes asked for (calloc's product included) and the alignment. *)
ArenaViewOK ==
  \A s \in spaces :
    ~ms[s].aborted =>
    /\ {H!mem2chunk(m) : m \in DOMAIN LiveOf(s)} \cup {ms[s].seg_base} = A(s)!InuseChunks
    /\ \A m \in DOMAIN LiveOf(s) :
         /\ H!chunksize(Arena(s), H!mem2chunk(m)) - H!CHUNK_OVERHEAD >= live[m].req
         /\ m % live[m].align = 0

(* Spec 8, arena isolation: a call on one mspace writes only memory of    *)
(* that mspace's segment (as it is before or after the call: create       *)
(* writes the new segment); no other arena's words and no word outside    *)
(* every arena change.                                                     *)
MemoryIsolation ==
  [][\E s \in Spaces :
       \A w \in H!Addrs : mem'[w] # mem[w] => InSegment(ms[s], w) \/ InSegment(ms'[s], w)]_vars
=============================================================================
