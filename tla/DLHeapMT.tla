------------------------------ MODULE DLHeapMT ------------------------------
(***************************************************************************)
(* The global arena of dlmalloc used by several client threads, in the     *)
(* build with USE_LOCKS (dlmalloc.c 2301-2318, 5206-5377).                 *)
(*                                                                         *)
(* Every public call holds gm->mutex from PREACTION to POSTACTION, so the *)
(* locked section of a call is one step, computed by the call operators   *)
(* of DLHeap.  Two calls leave the lock before they are done:             *)
(* internal_realloc releases it and then passes the split-off remainder,  *)
(* or the old block after the malloc-copy-free fallback, to internal_free *)
(* (dlfree, which locks again); internal_memalign releases it and then    *)
(* frees the leader and the trailer it carved off.  Here those frees are  *)
(* the thread's pending list, each one a step of its own that other       *)
(* threads' calls may precede.  A thread with frees pending makes no new  *)
(* call: it is still inside realloc or memalign.                           *)
(*                                                                         *)
(* The blocks are shared: any thread may free or realloc any block the    *)
(* client holds, never one it has already passed to free.                 *)
(***************************************************************************)
EXTENDS Integers, Sequences, SequencesExt, FiniteSets, TLC

CONSTANTS
  SIZE_T_BITS, TREEBIN_SHIFT, PAGE_SIZE, TRIM_THRESHOLD, HEAP_BASE,
  BRK_LIMIT, Requests, Alignments, Pads, CallocArgs, MaxLive,
  ICallocArgs, Comallocs, PageRequests,
  Threads         \* the client threads

VARIABLES
  h,        \* gm, the heap memory words and the program break
  live,     \* pointer -> [req, align] for every block the client holds
  pending   \* thread -> the pointers it will still pass to internal_free

vars == <<h, live, pending>>

H == INSTANCE DLHeap

Idle(t) == pending[t] = <<>>

Init ==
  /\ h = H!InitArena
  /\ live = <<>>
  /\ pending = [t \in Threads |-> <<>>]

(* malloc, calloc, free and malloc_trim: one locked section each.        *)
LockedCall ==
  \/ \E n \in Requests : H!Malloc(n)
  \/ \E args \in CallocArgs : H!Calloc(args[1], args[2])
  \/ \E p \in DOMAIN live : H!Free(p)
  \/ \E pad \in Pads : H!Trim(pad)

Call(t) == Idle(t) /\ LockedCall /\ UNCHANGED pending

(* The locked section of a realloc or memalign: the thread leaves it with *)
(* the result r and the frees r.frees still to make.                      *)
Defer(t, r) == pending' = [pending EXCEPT ![t] = r.frees]

ReallocAt(t, r, p, n) == H!Reallocated(r, p, n) /\ Defer(t, r)

Realloc(t, p, n) ==
  /\ Idle(t) /\ H!Running
  /\ ReallocAt(t, H!internal_realloc_locked(h, p, n), p, n)

MemalignAt(t, r, al, n) ==
  /\ H!Granted(r, n, IF al > H!MALLOC_ALIGNMENT THEN al ELSE H!MALLOC_ALIGNMENT)
  /\ Defer(t, r)

Memalign(t, al, n) ==
  /\ Idle(t) /\ H!Running /\ Cardinality(DOMAIN live) < MaxLive
  /\ MemalignAt(t, H!internal_memalign_locked(h, al, n), al, n)

(* One internal_free made after POSTACTION: a dlfree of its own.          *)
FinishFree(t) ==
  /\ ~Idle(t) /\ H!Running
  /\ h' = H!dlfree(h, Head(pending[t])).a
  /\ pending' = [pending EXCEPT ![t] = Tail(@)]
  /\ UNCHANGED live

Next ==
  \E t \in Threads :
    \/ Call(t)
    \/ \E p \in DOMAIN live, n \in Requests : Realloc(t, p, n)
    \/ \E al \in Alignments, n \in Requests : Memalign(t, al, n)
    \/ FinishFree(t)

Spec == Init /\ [][Next]_vars

-----------------------------------------------------------------------------
(***************************************************************************)
(* Properties.                                                             *)
(***************************************************************************)
PendingMems == UNION {ToSet(pending[t]) : t \in Threads}

(* The heap invariants of the single-threaded model hold at every point   *)
(* between two locked sections, also while chunks split off by realloc   *)
(* or memalign wait, in use, for their deferred free.                     *)
ChunkLayoutOK == H!ChunkLayoutOK
FreeIndexOK   == H!FreeIndexOK

(* No integrity check fires although other threads' calls run between a  *)
(* realloc or memalign and the frees it makes after POSTACTION.           *)
NoFalseAlarm == H!NoFalseAlarm

(* Every in-use chunk is either a block the client holds or one that a    *)
(* thread inside realloc or memalign is about to free, never both and     *)
(* never awaited by two threads: nothing leaks in the window after        *)
(* POSTACTION and nothing is freed twice.  The client's blocks are as     *)
(* large and as aligned as asked.                                          *)
ClientViewMT ==
  ~h.aborted =>
  /\ {H!mem2chunk(m) : m \in DOMAIN live \cup PendingMems} = H!InuseChunks
  /\ DOMAIN live \cap PendingMems = {}
  /\ \A t \in Threads : IsInjective(pending[t])
  /\ \A t, u \in Threads : t # u => ToSet(pending[t]) \cap ToSet(pending[u]) = {}
  /\ \A m \in DOMAIN live :
       /\ H!chunksize(h, H!mem2chunk(m)) - H!CHUNK_OVERHEAD >= live[m].req
       /\ m % live[m].align = 0

(* The abstract allocator again, now with the deferred frees of other    *)
(* threads between any two calls: such a free never moves, grows or       *)
(* shrinks a block the client holds.                                       *)
AbstractHeapSpec == H!AbstractHeapSpec
=============================================================================
