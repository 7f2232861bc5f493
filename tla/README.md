# TLA+ models of bionic's dlmalloc

The verified code is `src/bionic/libc/bionic/dlmalloc.c`. It is Doug Lea's
malloc 2.8.x as built into bionic, with extra integrity checks
(`CHUNK_ERROR_DETECTION`) that log and then abort. The other files under
`src/` are Android graphics, media and driver glue. They have no allocator
state and are listed in `PROJECT.json` as not modelled.

## The system

The build: 32-bit `size_t`, `MALLOC_ALIGNMENT` 8, `FOOTERS` 0, `INSECURE` 0,
`MORECORE` = `sbrk`, and `DEBUG` off (the `check_*` macros are empty).

* **Chunk layout.** Every chunk starts with `prev_foot` and `head`.
  * `head` holds the size and the bits PINUSE and CINUSE.
  * A free chunk repeats its size in the `prev_foot` of the next chunk.
  * `top` is the free space at the end of the segment. A fencepost head of
    `TOP_FOOT_SIZE` closes it.
* **Free-list index.**
  * 32 small bins (doubly linked, LIFO) and 32 tree bins (bitwise tries).
  * Two bitmaps naming the bins that are not empty.
  * The designated victim `dv`: the last split remainder, preferred for
    small requests.
* **Allocator core.**
  * `dlmalloc` tries, in order: an exact small bin, the next small bin, a
    larger small bin (split, remainder becomes dv), the smallest tree chunk,
    then dv, then top, then `sys_alloc`.
  * `dlfree` coalesces backward and forward, with special cases for dv and
    top, and calls `sys_trim` when top exceeds `trim_check`.
  * `internal_realloc` shrinks in place, grows into top, or falls back to
    malloc-copy-free.
  * `internal_memalign` over-allocates, then frees a leader and a trailer.
  * `dlcalloc` checks `n * size` for overflow.
* **Segment manager.**
  * `sys_alloc` grows the heap with `sbrk`. It tries contiguously first.
    After a failure it calls `disable_contiguous` for good and uses the
    noncontiguous path.
  * `sys_trim` gives whole granules of top back, always keeping one. It
    shrinks an sbrk segment with a negative sbrk. It never shrinks an extern
    segment, or an mmapped segment that holds a segment record
    (`has_segment_link`, 5038). Every mmapped user mspace holds its own
    `malloc_state` in its segment, so `mspace_trim` never gives memory back.
* **Arenas (mspaces).** `MSPACES` defaults to 0 (dlmalloc.c 550-556). The
  code is modelled as it reads with `MSPACES` 1.
* **Locking.** `PREACTION`/`POSTACTION` take `gm->mutex`, and `init_mparams`
  sets up the global parameters once.
  * `USE_LOCKS` also defaults to 0 (dlmalloc.c 575-577).
  * The locking models (`MParams`, `DLHeapMT`) assume `USE_LOCKS` 1. That
    value would come from bionic's build flags, which are not under `src/`.

The components interact through one `malloc_state` (`_gm_`), whose fields are
listed at dlmalloc.c 2150–2203.

## Modules

| module | models |
|---|---|
| `DLHeap.tla` | the allocator on the global arena: chunk layout, bins, dv, top, `sys_alloc`, `sys_trim` and the public calls, driven by one client |
| `AbstractHeap.tla` | what any allocator promises its client: a set of disjoint blocks, each as large and as aligned as asked |
| `DLHeapMT.tla` | the global arena shared by two threads, with the frees that realloc and memalign make after `POSTACTION` as separate steps |
| `MParams.tla` | `init_mparams`, `PREACTION`/`POSTACTION` and `dlmallopt` as three threads run their first calls |
| `MSpaces.tla` | the mspace API (`create_mspace*`, `destroy_mspace`, `mspace_*`, `mtk_mspace_*`, `mspace_merge_objects`): two arenas over one memory |
| `SurfaceTextureClient.tla` | `SurfaceTextureClient.cpp`: the software-rendering path (lock, unlockAndPost and the calls they rest on) and the ANativeWindow hooks an EGL producer calls (dequeue, queue, cancel, setSwapInterval, the running-behind query, connect/disconnect), against the buffer-queue contract in synchronous and asynchronous mode |
| `MC_*.tla` | constants and a state `VIEW` for TLC, one per module above that is checked |

How the modules compose:

* `DLHeapMT` and `MSpaces` `INSTANCE DLHeap` and apply its call
  operators. They never re-translate malloc or free.
  * In `MSpaces`, each arena is a `malloc_state` record over the shared `mem`.
  * `A(s) == INSTANCE DLHeap WITH h <- Arena(s), ...` states DLHeap's layout
    invariants for each arena.
* `DLHeap` and `DLHeapMT` instantiate `AbstractHeap`, mapping each client
  pointer to `[lo |-> p, hi |-> p + chunksize - overhead, req, align]`.
  * The run then checks `AbstractHeapSpec` as a `PROPERTY`.
  * The pass shows that the detailed allocator refines the abstract one.

### How `DLHeap` corresponds to the code

* **State.**
  * `h` is the `malloc_state` together with the heap memory. `h.mem` maps
    every 4-byte word address in `HEAP_BASE..BRK_LIMIT` to its value, so
    `head`, `prev_foot` and all the `set_*` macros read and write real words.
  * The bins are sequences of chunk addresses. A small bin is LIFO, matching
    `insert_small_chunk`, which links at the front, and `unlink_first_small_chunk`.
  * A tree bin keeps insertion order. `TreePick` returns what the trie search
    of `tmalloc_large`/`tmalloc_small` returns: the smallest size, and among
    equal sizes the node that is in the tree, which is the earliest inserted.
  * The bitmaps are sets of bin indices.
  * `h.brk` is the program break, and `h.noncontig` the
    `USE_NONCONTIGUOUS_BIT`.
  * `aborted` means an integrity check fired (`CHUNK_ERROR_DETECTION`,
    `USAGE_ERROR_ACTION`, both `ABORT`). `hung` means memalign's loop does
    not terminate.
  * `live` is the client's view: each pointer it holds, with the request and
    the alignment it asked for.
* **Operations.** Each public call is a pure operator from arena to
  `[a, m]` (arena, returned pointer), and one action per entry point applies
  it: `Malloc`, `Calloc`, `Free`, `Realloc`, `Memalign`, `Trim`.
  * Internal calls are operators of the same name: `tmalloc_large`,
    `sys_alloc`, `sys_trim`, `insert_chunk`, `replace_dv`, and so on.
  * An operator covers the whole call, including the trailing `sys_trim` in
    free and the frees that realloc and memalign make after `POSTACTION`.
* **What the linked lists become.** The fd/bk and child pointers are not
  stored, so the corruption checks on them become checks that the chunk is
  in its bin.
* **Dead branches.** With `mmap_threshold` above every modelled request and
  `CALL_MMAP` failing, the `is_mmapped` branches are unreachable. They are
  `Assert`s, which TLC would report.
* **Size arithmetic.** `size_t` arithmetic is taken modulo `2^SIZE_T_BITS`
  (`Wrap`, `granularity_align`), because the wrap is where the findings are.
* **ialloc.** `ialloc` translates the whole call. That covers the array
  and contents sizes, the aggregate `internal_malloc`, the `memset` of
  `independent_calloc`, the pointer-array chunk and the split loop
  (`ialloc_split`, recursive over the element sizes).
  * Its result is the arena, the element pointers in order, and the array
    chunk it allocated.
  * The client takes every element and the array as blocks.
  * `AbstractHeap` has an `AllocSeveral` step for this.
  * `disable_mmap`/`enable_mmap` change nothing, because no chunk is
    mmapped here.
* `PROJECT.json` `map` gives the lines of every definition.

### How `SurfaceTextureClient` corresponds to the code

* **State.** The client's members (`mReqWidth`..., `mLockedBuffer`,
  `mPostedBuffer`, `mDirtyRegion`, `mSlots`, `mConsumerRunningBehind`) are
  variables. `bq` is the queue as the contract describes it: the connected
  api, each slot's state and buffer, the FIFO of queued slots and the
  synchronous flag. `gb` gives each graphic buffer its size and the pixels
  at which it differs from the frame drawn so far. `appHeld` is what an EGL
  producer holds from `dequeueBuffer`.
* **Operations.** One action per entry point: `Lock`, `UnlockAndPost`,
  `Disconnect`, `SetBufferCount`, the two dimension setters, and, behind the
  hooks, `Connect`, `DequeueBuffer`, `QueueBuffer`, `CancelBuffer`,
  `SetSwapInterval` and `QueryRunningBehind`. `Acquire` is the consumer.
  Each call is one step, as each holds `mMutex` (lock and unlockAndPost are
  single-threaded by contract).
* **Results the queue chooses** (RELEASE_ALL_BUFFERS, a failed
  `requestBuffer`, the handle of a new buffer) are `\E` over small sets.

## Runs

| run | cfg | expect | checks |
|---|---|---|---|
| heap_core | `MC_DLHeap.cfg` | pass | TypeOK, ChunkLayoutOK, FreeIndexOK, ClientViewOK, FootprintOK, NoFalseAlarm, UsesFreeChunkFirst |
| heap_aligned | `MC_DLHeap_aligned.cfg` | pass | ChunkLayoutOK, ClientViewOK, NoFalseAlarm, DebugChecksPass, ClientChunksTight, MallinfoAccounts, TreeIndexBitsOK, AbstractHeapSpec, with memalign, calloc, independent_calloc/comalloc, valloc and pvalloc |
| heap_two_threads | `MC_DLHeapMT.cfg` | pass | ChunkLayoutOK, FreeIndexOK, ClientViewMT, NoFalseAlarm, AbstractHeapSpec |
| mparams_first_calls | `MC_MParams.cfg` | pass | TypeOK, MutualExclusion, InitPublished |
| mspaces_isolation | `MC_MSpaces.cfg` | pass | TypeOK, ArenaLayoutOK, ArenaViewOK, MemoryIsolation |
| stc_reconfigure | `MC_STC_reconfig.cfg` | pass | SlotCacheCoherent, LockedNotConsumed, CachedBehindSound, DequeuedAsAsked |
| oversize_malloc_grows | `MC_DLHeap_hugefail.cfg` | violation | FailedCallObtainsNothing |
| memalign_wide_alignment_hangs | `MC_DLHeap_memalign.cfg` | violation | MemalignReturns |
| pvalloc_wraps_to_minimum | `MC_DLHeap_pvalloc.cfg` | violation | ClientViewOK |
| mallopt_overwritten_by_late_init | `MC_MParams_mallopt.cfg` | violation | MalloptSticks |
| stc_copyback_after_free | `MC_STC_freed.cfg` | violation | LockedBufferShowsFrame |
| stc_slot_stranded | `MC_STC_leak.cfg` | violation | DequeuedSlotOwned |

What each property states:

* **ChunkLayoutOK:**
  * the chunks tile the segment up to top;
  * each PINUSE bit mirrors the previous chunk's CINUSE;
  * free chunks carry a correct foot;
  * no two free chunks are adjacent.
* **FreeIndexOK:**
  * each free chunk other than top is the dv or in exactly one bin, namely
    the one its size selects;
  * the bitmaps match the bins.
* **ClientViewOK:**
  * the in-use chunks are exactly the client's blocks, with no loss and no
    sharing;
  * each block is large enough and aligned as asked.
* **FootprintOK:** `footprint` equals the segment, and the break is at its
  end.
* **NoFalseAlarm:** a correct client never triggers an abort.
* **UsesFreeChunkFirst:** a malloc that grows the heap or returns null
  happens only when no free chunk and not top fits.

* **AbstractHeapSpec:** every call is a step of `AbstractHeap`, so no call
  moves, grows or shrinks a block it does not name (a refinement check).
* **ClientViewMT:** `ClientViewOK` for two threads. Every chunk that realloc
  or memalign has split off and not yet freed after `POSTACTION` is pending
  for exactly one thread: nothing leaks and nothing is freed twice.
* **MutualExclusion / InitPublished:** the locked bodies of calls never
  overlap. A thread past `GLOBALLY_INITIALIZE()` finds `magic`, `gm->mutex`
  and `USE_LOCK_BIT` set up, and set up exactly once.
* **ArenaLayoutOK / ArenaViewOK:** `ChunkLayoutOK`, `FreeIndexOK` and
  `ClientViewOK` for each mspace on its own. This includes
  `mspace_merge_objects`, which writes a head outside `PREACTION`.
* **MemoryIsolation** (action property): every word a step writes lies in
  the segment of one arena, before or after that step. No mspace call writes
  into another mspace's memory.
* **SlotCacheCoherent / LockedNotConsumed:** the client's slot cache matches
  the buffer the queue holds in each slot, and the client never draws into a
  buffer the consumer may be reading.
* **CachedBehindSound:** `query(NATIVE_WINDOW_CONSUMER_RUNNING_BEHIND)`
  answers 0 from `mConsumerRunningBehind` without asking the queue. The
  property says that answer is never wrong: while the cache says "not
  behind", fewer than two frames are pending. It must survive connect,
  lock/unlockAndPost, the producer's queueBuffer in both queue modes, a
  failed queueBuffer (whose output is then any value), the consumer and
  disconnect.
* **DequeuedAsAsked** (action property): every buffer that `dequeueBuffer`
  hands out, from `lock()` or to the producer, has the size the client asks
  for: `mReqWidth`, else `mUserWidth`, else the consumer's default. This
  holds whether the slot's buffer was kept, reallocated by the queue
  (`BUFFER_NEEDS_REALLOCATION`, which makes the client call `requestBuffer`)
  or dropped from the cache by RELEASE_ALL_BUFFERS, `setBufferCount` or
  `disconnect`. A client that ignores the reallocation flag and reuses its
  cached buffer breaks it, and so does one that drops the `mUserWidth`
  fallback at 185.
* **DebugChecksPass:** `do_check_malloc_state` (the `DEBUG` build's full
  walk: every bin, every tree node, top, dv, and the traversal of the
  segment) finds nothing wrong in any reachable state.
* **ClientChunksTight:** every block the client holds passes
  `do_check_malloced_chunk` for the size it asked, i.e. a split left no
  remainder of `MIN_CHUNK_SIZE` or more inside the block.
* **MallinfoAccounts:** `internal_mallinfo` adds up: no mmapped bytes, the
  in-use bytes are the client's chunks, in-use plus free is the footprint,
  and the free-chunk count is the free chunks plus top.
* **TreeIndexBitsOK:** the branch-free `compute_tree_index` of the ARM build
  (2604-2621) agrees with the `bsr` version (2590-2603) on every size up to
  `2^16` chunks of `MIN_LARGE_SIZE`, at each boundary of a bin; it is
  checked once, in the initial state.

Each property of a passing run has a mutant in `PROJECT.json`: a plausible
bug in the mapped code that TLC shows the property catching.

### Findings

1. **Oversize malloc grows the heap.**
   * A malloc of at least `MAX_REQUEST` bytes forces `nb = MAX_SIZE_T` (5599).
     `sys_alloc` then computes `granularity_align(nb + TOP_FOOT_SIZE + 1)` at
     4805 and 4832. That value wraps to one granule, and `sys_alloc` sbrk's
     it.
   * The call returns null, but the arena has grown a page, been initialized,
     or been switched to noncontiguous growth.
   * TLC shows this in two states.
   * This contradicts spec §4.4 step 7 and §7.
2. **memalign never returns.**
   * `while (a < alignment) a <<= 1;` (5300) never ends for a non-power-of-two
     alignment above `2^(w-1)`, because `a` wraps to 0.
   * This contradicts spec §6 and §7.

3. **A successful mallopt is undone.**
   * `init_mparams` writes the default thresholds (2813-2814) and the
     granularity (2853) outside `magic_init_mutex`, without re-checking.
   * A thread still inside its first call's `init_mparams` therefore
     overwrites a value that another thread's `mallopt` has just set and
     reported successful.
   * This contradicts the comment at 1560 ("initialized only once").
4. **pvalloc of a huge size returns a minimum block** (run
   `pvalloc_wraps_to_minimum`).
   * `dlpvalloc` rounds up to a page with
     `(bytes + pagesz - 1) & ~(pagesz - 1)` (5837) and no overflow check.
   * For bytes within a page of `MAX_SIZE_T` the result is 0, and
     `dlmemalign(pagesz, 0)` returns a 16-byte chunk.
   * `ClientViewOK` fails after one `pvalloc(2^16-10)`.
   * This contradicts spec §7: an overflowing size is rejected.
5. **Copy-back after the buffers are freed.**
   * `freeAllBuffers` keeps the slots' dirty regions (692).
   * `canCopyBack` compares only size and format (790).
   * A reallocated buffer therefore gets a partial copy-back over garbage.
6. **A queue slot is stranded DEQUEUED** (`DequeuedSlotOwned`: every
   DEQUEUED slot is the cached slot of a buffer the client holds locked or
   the producer holds from dequeueBuffer). Two paths reach it, and TLC
   reports either one depending on how the workers interleave; with one
   worker it reports the first.
   * `dequeueBuffer` returns requestBuffer's error (203-206) without
     cancelling the slot it has already dequeued.
   * `disconnect(api)` calls `freeAllBuffers()` (545) before the queue's
     disconnect, which refuses an api that is not connected. The cleared
     cache stays. A CPU client holding a locked buffer (or an EGL producer
     holding a dequeued one) can then no longer post or cancel it:
     `getSlotFromBufferLocked` returns BAD_VALUE.
   * The run gives the window one producer api (EGL) besides the CPU, and
     lets the producer hold one buffer.
   * A three-slot variant of finding 5, a separate run in an earlier
     version, was dropped. `stc_copyback_after_free` shows the same
     violation with two slots.

7. **Size arithmetic that wraps in ialloc** (dlmalloc.c 5425, 5431).
   spec.md says wrapping size arithmetic is rejected before use, but these
   two computations have no check.
   * TLC, on the aligned instance with the inputs below, shows each one.
   * `independent_comalloc(2, {20, 2^16-20})` with the caller's array: the
     sum of chunk sizes wraps to 8, and malloc returns a 16-byte chunk.
     * The first element's 24-byte chunk runs into top.
     * The second element's head, with the wrapped size 16 - 24, is
       written inside top.
     * `ChunkLayoutOK` fails after that single call.
   * `independent_calloc(2, 2^15)`: the product wraps. The split loop writes
     the second element's head far past the heap, which stops TLC at
     `PutWord`'s assertion.
   * The kept run `heap_aligned` calls these entry points only with
     sizes that fit. Its properties would fail with the wrapping inputs
     above, which are recorded here and as hazards. The pvalloc wrap
     (finding 4) has a run of its own.

## Bounds and why they suffice

* **`size_t` width.** `SIZE_T_BITS` = 16, so every wrap the code is exposed
  to (MAX_REQUEST, granularity_align, dvsize - nb, calloc's product) happens
  with small numbers. The layout constants (8-byte alignment, 4-byte words,
  MIN_CHUNK_SIZE 16, TOP_FOOT_SIZE 40) are the 32-bit build's own.
* **Bins.** `TREEBIN_SHIFT` = 6 instead of 8, which gives 8 small bins and
  moves the tree bins down to 64 bytes. Three request sizes (1, 20 and 100
  bytes) then reach an exact small bin, a higher small bin, the dv, a tree
  bin and top.
* **Heap size.** A 256-byte break limit with 64-byte pages allows growth,
  contiguous failure (the noncontiguous path) and trimming.
* **Live blocks.**
  * MaxLive = 3 in heap_core. Three blocks give a hole on each side of a
    block, which both-way coalescing needs. They also give dv next to a
    binned chunk, and a tree chunk above a small request. Two blocks were
    not enough for the `replace_dv` and next-tree-bin mutants to be caught.
  * MaxLive = 2 in heap_aligned, where memalign's over-allocation uses most
    of the heap.
  * The ialloc inputs in heap_aligned reach both `n_elements == 0` returns.
    They also reach the array chunk and the caller's array, `opts` 3 and 0,
    elements of equal and of different chunk sizes, and a tree-sized
    element. A caller's array with a leftover dv or binned chunk gives the
    last element slop to absorb. The mutant in which the last element keeps
    only its own size (`ialloc_split_exact`) breaks `ChunkLayoutOK` there.
* **`VIEW MC_View`.**
  * The view keeps the words the allocator can read again: the chunk heads,
    top, the fencepost, and the foot after each free chunk. Stale payload
    words are left out.
  * The only stale word read is a `head`, by `set_inuse` on a fresh split,
    and that step ORs PINUSE back in at once. So two states with the same
    view have the same futures.

* **Threads.**
  * Three threads in `MParams`: two race through `init_mparams` while a
    third is already past it, which the `mallopt` finding needs.
  * Two threads in `DLHeapMT` sharing at most two live blocks. A realloc or
    memalign leaves its thread one or two pending frees.
* **mspaces.**
  * Two regions of 256 bytes at 64 and 320, and `MSTATE_SIZE` 16 (the
    `malloc_state` chunk shrunk with the bins).
  * Capacities 40 and 160.
    * 40 is below `create_mspace_with_base`'s minimum of
      `msize + TOP_FOOT_SIZE`, so that call refuses it. `create_mspace`
      rounds it up to a page.
    * 160 leaves room for blocks and a trim.
  * `BRK_LIMIT` has 8 bytes of slack past the second region, so a mutant
    that writes past it is reported by the invariant and not by an `Assert`.
* **SurfaceTextureClient.** Two slots, two buffer dimensions and two
  rectangles. These reach reallocation, copy-back and every slot state.
  * In `stc_reconfigure` the producer holds one buffer at a time and the
    swap intervals are -1 and 2, which clamp to both modes. One pixel is
    enough there, as no property of that run is about pixels. Two pending
    frames, the running-behind threshold, are reached in synchronous mode.
  * Buffer handles are model values, and a reallocation takes any unused
    one. `MC_View` renames each handle by its first position in a fixed
    walk of the state (queue slots, slot cache, locked, posted, held), so
    states that differ only in handle names are counted once. TLC's
    `SYMMETRY` did the same but tried 7! permutations per state.
  * `CONSTRAINT MC_SlotsExplicit` is always true and prunes nothing.
    Under a `VIEW`, TLC fingerprints only the view, so it would keep the slot
    cache that `freeAllBuffers` builds as an unevaluated function
    constructor, and cannot write that to its disk queue. Evaluating the
    constraint turns it into an explicit function.

## Fairness and liveness

* No fairness is assumed and no liveness property is claimed.
  * In `MParams` the locked body of a call is one abstract step that
    reaches `POSTACTION`, and every `PREACTION` in the code has its
    `POSTACTION`. "Every call returns" would then follow from the model's
    shape, plus a fairness of `gm->mutex` that pthread mutexes do not
    promise. So it says nothing about the code and is not stated.
  * dlmalloc's calls run to completion under the lock.
  * The only loop that can fail to end is memalign's. It cannot make
    progress at all, so it is checked as a state invariant
    (`MemalignReturns`, the `hung` flag).
* The blocking call of the buffer queue (`dequeueBuffer` waits for a free
  slot) is behind Binder, outside the repository.
  * `CHECK_DEADLOCK` stays on for the STC runs.
  * A state where the client can make no call is reported.

## Not modelled

* **Direct-mapped chunks** (`mmap_alloc`, `mmap_resize`, the `is_mmapped`
  branches of free, realloc and memalign). The mmap threshold is above every
  modelled request.
* **Multiple segments** (`add_segment`, `prepend_alloc`,
  `release_unused_segments`). `CALL_MMAP` fails, so there is one segment per
  arena.
* **Double free.** A second free of a pointer is caught either by the
  CINUSE check at entry (5673). When the first free coalesced the chunk
  backward, the stale head passes that check, but the second free then
  aborts in the unlink checks on the predecessor (4261, 4270) or in the
  `ok_pinuse(next)` test (5705). The model's `dlfree` has the same checks
  (membership in the bin for the unlink), so it aborts in the same places.
  No run asks about it separately.
* **Other calls.**
  * `posix_memalign`, which is `dlmemalign` plus an errno value.
  * `mspace_independent_calloc/comalloc` (6607-6630). They are DLHeap's
    `ialloc` after the `ok_magic` check, and `heap_aligned` checks `ialloc`.
    Adding them to the two-arena instance takes its run from about 3 to
    more than 4 minutes.
  * `malloc_stats`, `malloc_usable_size` and the mspace walkers, all
    read-only. `internal_mallinfo` and the `DEBUG` checkers are modelled
    as operators that the properties evaluate.
  * `mspace_set_max_allowed_footprint`, which `USE_MAX_ALLOWED_FOOTPRINT`
    compiles out.
* **Cross-arena free.** With `FOOTERS` 0, `mspace_free` trusts the handle it
  is given (6151). That is caller misuse, listed as a hazard without a run.
* **Debug records and logging** (`ChunkDebug_Info`, `error_log`). They are
  modelled only as the abort they end in.
* **SurfaceTextureClient setters and queries** that no modelled path reads:
  usage, crop, scaling mode, transform, timestamp, format and geometry, and
  the read-only queries. Also the FPS profiling in `queueBuffer`, and two
  threads calling in at once (each call is one step).
* **The non-allocator files under `src/`**, other than
  `SurfaceTextureClient.cpp`. They are headers and glue with no state of
  their own.
