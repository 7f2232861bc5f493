------------------------ MODULE SurfaceTextureClient ------------------------
(***************************************************************************)
(* The software-rendering path of SurfaceTextureClient                     *)
(* (frameworks/native/libs/gui/SurfaceTextureClient.cpp): lock() and       *)
(* unlockAndPost(), with the dequeueBuffer, queueBuffer, connect,          *)
(* disconnect, setBufferCount and setBuffers*Dimensions calls they rest   *)
(* on; the ANativeWindow hooks an EGL producer calls instead (dequeue,     *)
(* queue, cancel, setSwapInterval, query); and the buffer queue            *)
(* (ISurfaceTexture) on the other side of Binder.                          *)
(*                                                                         *)
(* lock() hands the caller a buffer that must already show the current    *)
(* frame everywhere except the dirty region the caller is about to redraw: *)
(* it copies the "area that is invalid and not repainted this round" from  *)
(* the last posted buffer (mPostedBuffer), working that area out from      *)
(* mDirtyRegion and the per-slot dirty regions.                           *)
(*                                                                         *)
(* Pixel contents are abstracted to one ghost set per graphic buffer:      *)
(* stale[b] is the set of pixels at which b differs from the frame the    *)
(* application has drawn so far.  Drawing region R into b clears R from    *)
(* stale[b] and adds R to every other buffer (the frame changed there);    *)
(* copyBlt(dst, src, reg) gives dst src's pixels in reg; a freshly         *)
(* allocated buffer holds garbage, stale everywhere.  Width, height and    *)
(* format are folded into one value of Dims; the pixels are the same set  *)
(* for every Dims, which is all the copy-back logic compares.              *)
(*                                                                         *)
(* The buffer queue is not in this repository.  It is modelled as the      *)
(* ISurfaceTexture contract the client relies on: a                       *)
(* slot is FREE, DEQUEUED (owned by the client), QUEUED or ACQUIRED (by    *)
(* the consumer); dequeueBuffer waits for a FREE slot and reallocates its  *)
(* buffer when the requested Dims differ; the consumer acquires queued     *)
(* slots in order and releases the previously acquired one.  In          *)
(* asynchronous mode (swap interval 0) a queued frame replaces a pending  *)
(* one, whose slot becomes FREE.                                          *)
(***************************************************************************)
EXTENDS Integers, Sequences, SequencesExt, FiniteSets

CONSTANTS
  Slots,        \* the slots the buffer count gives the queue (of NUM_BUFFER_SLOTS)
  Buffers,      \* graphic buffer handles (the null sp<> is NULL)
  Pixels,       \* the pixels of a buffer
  Rects,        \* dirty rectangles the caller passes to lock(), as pixel sets
  Dims,         \* width/height/format combinations
  DefaultDims,  \* the consumer's default buffer size and format
  NoDims,       \* mReqWidth = mReqHeight = 0 (use the default)
  ProducerApis, \* apis other than CPU a producer connects with (EGL)
  SwapIntervals,\* intervals passed to setSwapInterval
  MaxAppHeld    \* buffers a producer holds from dequeueBuffer at once

ASSUME DefaultDims \in Dims /\ NoDims \notin Dims
ASSUME "CPU" \notin ProducerApis /\ "NONE" \notin ProducerApis
ASSUME Cardinality(Buffers) >= 2 * Cardinality(Slots) + 2 + MaxAppHeld

NULL == 0

VARIABLES
  (* SurfaceTextureClient members *)
  reqDims,         \* mReqWidth/mReqHeight/mReqFormat
  userDims,        \* mUserWidth/mUserHeight
  connectedToCpu,  \* mConnectedToCpu
  lockedBuffer,    \* mLockedBuffer
  postedBuffer,    \* mPostedBuffer
  dirtyRegion,     \* mDirtyRegion
  slots,           \* mSlots[i].buffer and mSlots[i].dirtyRegion
  behind,          \* mConsumerRunningBehind
  (* the producer behind the ANativeWindow hooks *)
  appHeld,         \* buffers it dequeued and has not queued or cancelled
  (* the buffer queue behind mSurfaceTexture *)
  bq,              \* [api, state, buf, queue]
  (* the graphic buffers *)
  gb               \* handle -> [dims, stale]

client == <<reqDims, userDims, connectedToCpu, lockedBuffer, postedBuffer,
            dirtyRegion, slots, behind>>
vars   == <<client, appHeld, bq, gb>>

States == {"FREE", "DEQUEUED", "QUEUED", "ACQUIRED"}

(***************************************************************************)
(* The buffer queue (ISurfaceTexture), as the client sees it.             *)
(***************************************************************************)
(* Handles held by anyone; a handle held by no one is a buffer that has   *)
(* been destroyed, and may be handed out again.                           *)
Referenced ==
  ({bq.buf[i] : i \in Slots} \cup {slots[i].buffer : i \in Slots}
     \cup {lockedBuffer, postedBuffer} \cup appHeld) \ {NULL}

(* A handle free for a newly allocated buffer.                           *)
Unreferenced == Buffers \ Referenced

(* The size dequeueBuffer asks the queue for: reqW = mReqWidth ?         *)
(* mReqWidth : mUserWidth, and likewise for the height.                   *)
reqW_nouser(req, user) == req

reqW(req, user) == IF req # NoDims THEN req ELSE user

(* The queue allocates at the consumer's default size when asked for 0.  *)
QueueDims(w) == IF w = NoDims THEN DefaultDims ELSE w

(* The size of the buffer a dequeue must hand out.                       *)
Wanted(req, user) == QueueDims(reqW(req, user))

NeedsRealloc(i, d) == bq.buf[i] = NULL \/ gb[bq.buf[i]].dims # d

(* Every buffer of the queue is released and every slot is FREE          *)
(* (freeAllBuffersLocked).                                                *)
BqFreeAll(q) ==
  [q EXCEPT !.state = [i \in Slots |-> "FREE"], !.buf = [i \in Slots |-> NULL]]

(***************************************************************************)
(* SurfaceTextureClient.                                                   *)
(***************************************************************************)
(* freeAllBuffers: drop the cached sp<GraphicBuffer> of every slot; the   *)
(* slots' dirty regions are left as they are.                             *)
freeAllBuffers(s) == [i \in Slots |-> [s[i] EXCEPT !.buffer = NULL]]

(* getSlotFromBufferLocked: the slot whose cached buffer is b, or -1      *)
(* (BAD_VALUE).                                                           *)
getSlotFromBufferLocked(s, b) ==
  IF \E i \in Slots : s[i].buffer # NULL /\ s[i].buffer = b
  THEN CHOOSE i \in Slots : s[i].buffer = b ELSE -1

(* copyBlt(dst, src, reg): dst takes src's pixels inside reg.             *)
copyBlt(g, dst, src, reg) ==
  [g EXCEPT ![dst].stale = (@ \ reg) \cup (g[src].stale \cap reg)]

(* The caller of lock() draws the new frame into the returned dirty      *)
(* bounds of b: b now shows the frame there, every other buffer is out of *)
(* date there.                                                            *)
Draw(g, b, reg) ==
  [o \in DOMAIN g |->
     [g[o] EXCEPT !.stale = IF o = b THEN @ \ reg ELSE @ \cup reg]]

Init ==
  /\ reqDims = NoDims /\ userDims = NoDims
  /\ connectedToCpu = FALSE
  /\ lockedBuffer = NULL /\ postedBuffer = NULL
  /\ dirtyRegion = {}
  /\ slots = [i \in Slots |-> [buffer |-> NULL, dirtyRegion |-> {}]]
  /\ behind = FALSE
  /\ appHeld = {}
  /\ bq = [api |-> "NONE", state |-> [i \in Slots |-> "FREE"],
           buf |-> [i \in Slots |-> NULL], queue |-> <<>>, sync |-> TRUE]
  /\ gb = [o \in Buffers |-> [dims |-> DefaultDims, stale |-> {}]]

(***************************************************************************)
(* lock() (SurfaceTextureClient.cpp 752-844).                              *)
(***************************************************************************)
(* connect(NATIVE_WINDOW_API_CPU), made by lock() when mConnectedToCpu is *)
(* false: the queue accepts the api when no producer is connected, and     *)
(* the client then sets mConnectedToCpu.                                  *)
connect(q) == IF connectedToCpu THEN q ELSE [q EXCEPT !.api = "CPU"]

(* connect and queueBuffer: mConsumerRunningBehind = (numPendingBuffers   *)
(* >= 2), numPendingBuffers being the length of the queue's FIFO.         *)
running_behind_3(n) == n >= 3

running_behind(n) == n >= 2

(* The queue's half of dequeueBuffer for slot i and size d: the slot is  *)
(* DEQUEUED, with a new buffer of garbage contents when it had none or one *)
(* of another size (BUFFER_NEEDS_REALLOCATION).                            *)
BqDequeue(q, i, d, fresh) ==
  [q EXCEPT !.state[i] = "DEQUEUED",
             !.buf[i] = IF NeedsRealloc(i, d) THEN fresh ELSE @]

GbDequeue(i, d, fresh) ==
  IF NeedsRealloc(i, d) THEN [gb EXCEPT ![fresh] = [dims |-> d, stale |-> Pixels]]
  ELSE gb

(* dequeueBuffer asks for the slot's buffer (requestBuffer) when the      *)
(* queue reallocated it or the slot cache s has none.                     *)
MustRequest(i, d, s) == NeedsRealloc(i, d) \/ s[i].buffer = NULL

canCopyBack_nodims(g, back) == postedBuffer # NULL

(* The copy-back test: the last posted buffer has the back buffer's size *)
(* and format.                                                            *)
canCopyBack(g, back) ==
  postedBuffer # NULL /\ g[back].dims = g[postedBuffer].dims

(* The end of lock(): slot j's old dirty region leaves mDirtyRegion and   *)
(* the new one (nd) replaces it, nd joins mDirtyRegion, the back buffer   *)
(* becomes mLockedBuffer, and the caller draws nd into it.               *)
lock_dirty(nd, back, g, d1, s, j) ==
  /\ dirtyRegion'  = (IF j >= 0 THEN d1 \ s[j].dirtyRegion ELSE d1) \cup nd
  /\ slots'        = IF j >= 0 THEN [s EXCEPT ![j].dirtyRegion = nd] ELSE s
  /\ lockedBuffer' = back
  /\ gb'           = Draw(g, back, nd)

(* Copy the front buffer back outside the new dirty region, or, when it   *)
(* cannot be copied, make the caller redraw the whole buffer and forget   *)
(* every dirty region.                                                    *)
lock_copyback(can, rect, back, g, s) ==
  LET nd == IF can THEN rect \cap Pixels ELSE Pixels IN
  IF can
  THEN lock_dirty(nd, back, copyBlt(g, back, postedBuffer, dirtyRegion \ nd),
                  dirtyRegion, s, getSlotFromBufferLocked(s, back))
  ELSE lock_dirty(nd, back, g, {},
                  [j \in Slots |-> [s[j] EXCEPT !.dirtyRegion = {}]],
                  getSlotFromBufferLocked(s, back))

(* The client's half of dequeueBuffer once the queue has dequeued slot i  *)
(* into q: drop every cached buffer on RELEASE_ALL_BUFFERS, then fetch    *)
(* the slot's buffer; requestOk says whether requestBuffer succeeded.    *)
lock_dequeued(rect, i, q, g, s, requestOk) ==
  /\ bq' = q
  /\ connectedToCpu' = TRUE
  /\ IF MustRequest(i, Wanted(reqDims, userDims), s)
     THEN IF requestOk
          THEN lock_copyback(canCopyBack(g, q.buf[i]), rect, q.buf[i], g,
                             [s EXCEPT ![i].buffer = q.buf[i]])
          ELSE /\ slots' = s /\ gb' = g
               /\ UNCHANGED <<lockedBuffer, dirtyRegion>>
     ELSE /\ requestOk
          /\ lock_copyback(canCopyBack(g, s[i].buffer), rect, s[i].buffer, g, s)

Lock(rect, i, releaseAll, requestOk, fresh) ==
  /\ lockedBuffer = NULL
  /\ connectedToCpu \/ bq.api = "NONE"
  /\ bq.state[i] = "FREE"
  /\ lock_dequeued(rect, i, BqDequeue(connect(bq), i, Wanted(reqDims, userDims), fresh),
                   GbDequeue(i, Wanted(reqDims, userDims), fresh),
                   IF releaseAll THEN freeAllBuffers(slots) ELSE slots, requestOk)
  /\ behind' = IF connectedToCpu THEN behind ELSE running_behind(Len(bq.queue))
  /\ UNCHANGED <<reqDims, userDims, postedBuffer, appHeld>>

(***************************************************************************)
(* unlockAndPost() (846-864) and queueBuffer (244-318).                     *)
(***************************************************************************)
(* The queue takes slot j only if the client owns it (DEQUEUED).  In     *)
(* synchronous mode it appends j to its FIFO; in asynchronous mode it      *)
(* keeps only the newest frame, freeing the slot j replaces.              *)
queueBuffer(q, j) ==
  IF j >= 0 /\ q.state[j] = "DEQUEUED"
  THEN IF q.sync \/ q.queue = <<>>
       THEN [q EXCEPT !.state[j] = "QUEUED", !.queue = Append(@, j)]
       ELSE [q EXCEPT !.state = [@ EXCEPT ![Head(q.queue)] = "FREE", ![j] = "QUEUED"],
                      !.queue = <<j>>]
  ELSE q

(* mConsumerRunningBehind after the client's queueBuffer of slot j: kept  *)
(* when the buffer has no slot (BAD_VALUE before the call), refreshed from *)
(* the output of a queueBuffer that succeeded, and after one that failed   *)
(* set from an output the queue did not fill in - any value.              *)
queued_behind(q, j) ==
  IF j < 0 THEN {behind}
  ELSE IF q.state[j] = "DEQUEUED" THEN {running_behind(Len(queueBuffer(q, j).queue))}
  ELSE BOOLEAN

UnlockAndPost_keeplock ==
  /\ lockedBuffer # NULL
  /\ bq' = queueBuffer(bq, getSlotFromBufferLocked(slots, lockedBuffer))
  /\ postedBuffer' = lockedBuffer
  /\ behind' \in queued_behind(bq, getSlotFromBufferLocked(slots, lockedBuffer))
  /\ UNCHANGED <<reqDims, userDims, connectedToCpu, lockedBuffer, dirtyRegion,
                 slots, appHeld, gb>>

UnlockAndPost ==
  /\ lockedBuffer # NULL
  /\ bq' = queueBuffer(bq, getSlotFromBufferLocked(slots, lockedBuffer))
  /\ behind' \in queued_behind(bq, getSlotFromBufferLocked(slots, lockedBuffer))
  /\ postedBuffer' = lockedBuffer
  /\ lockedBuffer' = NULL
  /\ UNCHANGED <<reqDims, userDims, connectedToCpu, dirtyRegion, slots, appHeld, gb>>

(***************************************************************************)
(* disconnect (542-561), setBufferCount (590-605), setBuffersDimensions    *)
(* (607-622) and setBuffersUserDimensions (624-639).                       *)
(***************************************************************************)
(* disconnect(api): the client drops its slot cache first, whatever the   *)
(* result.  The queue's disconnect fails unless api is the connected one; *)
(* in synchronous mode it waits for the queue to drain, then frees every   *)
(* buffer (and the frames an asynchronous queue still held).  On success  *)
(* the client forgets its requested size, and the CPU connection.        *)
Disconnect(api) ==
  /\ bq.api = api /\ bq.sync => bq.queue = <<>>
  /\ slots' = freeAllBuffers(slots)
  /\ IF bq.api = api
     THEN /\ bq' = [BqFreeAll(bq) EXCEPT !.api = "NONE", !.queue = <<>>]
          /\ reqDims' = NoDims
          /\ connectedToCpu' = IF api = "CPU" THEN FALSE ELSE connectedToCpu
     ELSE UNCHANGED <<bq, reqDims, connectedToCpu>>
  /\ UNCHANGED <<userDims, lockedBuffer, postedBuffer, dirtyRegion, behind,
                 appHeld, gb>>

(* The queue refuses a new buffer count while the client owns a slot;    *)
(* otherwise it frees every buffer and empties its queue.                 *)
SetBufferCount_keepcache ==
  /\ \A i \in Slots : bq.state[i] # "DEQUEUED"
  /\ bq' = [BqFreeAll(bq) EXCEPT !.queue = <<>>]
  /\ UNCHANGED <<reqDims, userDims, connectedToCpu, lockedBuffer, postedBuffer,
                 dirtyRegion, slots, behind, appHeld, gb>>

SetBufferCount ==
  /\ \A i \in Slots : bq.state[i] # "DEQUEUED"
  /\ bq' = [BqFreeAll(bq) EXCEPT !.queue = <<>>]
  /\ slots' = freeAllBuffers(slots)
  /\ UNCHANGED <<reqDims, userDims, connectedToCpu, lockedBuffer, postedBuffer,
                 dirtyRegion, behind, appHeld, gb>>

SetBuffersDimensions(d) ==
  /\ reqDims' = d
  /\ UNCHANGED <<userDims, connectedToCpu, lockedBuffer, postedBuffer,
                 dirtyRegion, slots, behind, appHeld, bq, gb>>

SetBuffersUserDimensions(d) ==
  /\ userDims' = d
  /\ UNCHANGED <<reqDims, connectedToCpu, lockedBuffer, postedBuffer,
                 dirtyRegion, slots, behind, appHeld, bq, gb>>

(***************************************************************************)
(* The consumer acquires the oldest queued slot and releases the one it   *)
(* held.                                                                  *)
(***************************************************************************)
Acquire ==
  /\ bq.queue # <<>>
  /\ bq' = [bq EXCEPT
              !.state = [i \in Slots |->
                           IF i = Head(bq.queue) THEN "ACQUIRED"
                           ELSE IF @[i] = "ACQUIRED" THEN "FREE" ELSE @[i]],
              !.queue = Tail(@)]
  /\ UNCHANGED <<client, appHeld, gb>>

(***************************************************************************)
(* The ANativeWindow hooks (121-162) as a producer such as EGL calls them *)
(* after connecting with its own api: connect (509-540), dequeueBuffer    *)
(* (181-211), queueBuffer (244-318), cancelBuffer (213-224),               *)
(* setSwapInterval (163-180) and query (320-370).                          *)
(***************************************************************************)
(* connect(api) through perform(NATIVE_WINDOW_API_CONNECT): the queue      *)
(* accepts one producer at a time; on success the client takes            *)
(* numPendingBuffers from the output.                                     *)
Connect(api) ==
  /\ bq.api = "NONE"
  /\ bq' = [bq EXCEPT !.api = api]
  /\ behind' = running_behind(Len(bq.queue))
  /\ UNCHANGED <<reqDims, userDims, connectedToCpu, lockedBuffer, postedBuffer,
                 dirtyRegion, slots, appHeld, gb>>

(* dequeueBuffer for slot i: the queue hands out a FREE slot (in           *)
(* synchronous mode the call waits for one), the client drops its cache on *)
(* RELEASE_ALL_BUFFERS and calls requestBuffer when the slot was           *)
(* reallocated or is not cached; the producer gets the slot's buffer      *)
(* unless requestBuffer fails, in which case dequeueBuffer returns the     *)
(* error and the slot stays DEQUEUED.                                      *)
DequeueBuffer(i, releaseAll, requestOk, fresh) ==
  LET d == Wanted(reqDims, userDims)
      q == BqDequeue(bq, i, d, fresh)
      s == IF releaseAll THEN freeAllBuffers(slots) ELSE slots
  IN  /\ bq.api \in ProducerApis
      /\ bq.state[i] = "FREE"
      /\ Cardinality(appHeld) < MaxAppHeld
      /\ bq' = q
      /\ gb' = GbDequeue(i, d, fresh)
      /\ IF MustRequest(i, d, s)
         THEN IF requestOk
              THEN /\ slots' = [s EXCEPT ![i].buffer = q.buf[i]]
                   /\ appHeld' = appHeld \cup {q.buf[i]}
              ELSE /\ slots' = s /\ appHeld' = appHeld
         ELSE /\ requestOk
              /\ slots' = s /\ appHeld' = appHeld \cup {s[i].buffer}
      /\ UNCHANGED <<reqDims, userDims, connectedToCpu, lockedBuffer,
                     postedBuffer, dirtyRegion, behind>>

(* queueBuffer(b) from the producer: b's slot is looked up in the cache   *)
(* (BAD_VALUE when it is not there), the queue takes the slot, and the     *)
(* client refreshes mConsumerRunningBehind.  The producer gives b up      *)
(* whatever the result.                                                   *)
QueueBuffer(b) ==
  LET j == getSlotFromBufferLocked(slots, b) IN
  /\ b \in appHeld
  /\ bq' = queueBuffer(bq, j)
  /\ behind' \in queued_behind(bq, j)
  /\ appHeld' = appHeld \ {b}
  /\ UNCHANGED <<reqDims, userDims, connectedToCpu, lockedBuffer, postedBuffer,
                 dirtyRegion, slots, gb>>

(* cancelBuffer(b): the slot found for b in the cache goes back to FREE   *)
(* if the queue has it DEQUEUED (the queue ignores any other state).      *)
CancelBuffer(b) ==
  LET j == getSlotFromBufferLocked(slots, b) IN
  /\ b \in appHeld
  /\ bq' = IF j >= 0 /\ bq.state[j] = "DEQUEUED"
           THEN [bq EXCEPT !.state[j] = "FREE"] ELSE bq
  /\ appHeld' = appHeld \ {b}
  /\ UNCHANGED <<client, gb>>

(* setSwapInterval clamps the interval to [minSwapInterval,               *)
(* maxSwapInterval] = [0, 1] and sets synchronous mode when it is not 0.   *)
(* The queue's setSynchronousMode(false) first waits for a synchronous     *)
(* queue to drain.                                                        *)
swap_sync(interval) == IF interval < 0 THEN FALSE ELSE interval # 0

SetSwapInterval(interval) ==
  /\ ~swap_sync(interval) /\ bq.sync => bq.queue = <<>>
  /\ bq' = [bq EXCEPT !.sync = swap_sync(interval)]
  /\ UNCHANGED <<client, appHeld, gb>>

(* query(NATIVE_WINDOW_CONSUMER_RUNNING_BEHIND): answered 0 from the      *)
(* cache while mConsumerRunningBehind is false; otherwise the queue is    *)
(* asked (mQueue.size() >= 2) and the answer is cached.  The other        *)
(* queries change nothing.                                                *)
QueryRunningBehind ==
  /\ behind
  /\ behind' = running_behind(Len(bq.queue))
  /\ UNCHANGED <<reqDims, userDims, connectedToCpu, lockedBuffer, postedBuffer,
                 dirtyRegion, slots, appHeld, bq, gb>>

(* A producer other than lock()/unlockAndPost(): connect, dequeue, queue, *)
(* cancel, swap interval, disconnect, and queries.                        *)
Producer ==
  \/ \E api \in ProducerApis : Connect(api) \/ Disconnect(api)
  \/ \E i \in Slots, releaseAll, requestOk \in BOOLEAN, fresh \in Unreferenced :
       DequeueBuffer(i, releaseAll, requestOk, fresh)
  \/ \E b \in appHeld : QueueBuffer(b) \/ CancelBuffer(b)
  \/ \E n \in SwapIntervals : SetSwapInterval(n)
  \/ QueryRunningBehind

(* A connected window being drawn: lock, draw, post, resize requests and  *)
(* the consumer, with requestBuffer succeeding.                           *)
Drawing ==
  \/ \E rect \in Rects, i \in Slots, releaseAll \in BOOLEAN, fresh \in Unreferenced :
       Lock(rect, i, releaseAll, TRUE, fresh)
  \/ UnlockAndPost
  \/ \E d \in Dims \cup {NoDims} : SetBuffersDimensions(d)
  \/ \E d \in Dims \cup {NoDims} : SetBuffersUserDimensions(d)
  \/ Acquire

(* Everything else: a failed requestBuffer, disconnect, setBufferCount.   *)
Next ==
  \/ Drawing
  \/ \E rect \in Rects, i \in Slots, releaseAll \in BOOLEAN, fresh \in Unreferenced :
       Lock(rect, i, releaseAll, FALSE, fresh)
  \/ Disconnect("CPU")
  \/ SetBufferCount
  \/ Producer

DrawingSpec == Init /\ [][Drawing]_vars

Spec == Init /\ [][Next]_vars

-----------------------------------------------------------------------------
(* dequeueBuffer, from lock() or from the producer: every buffer it      *)
(* hands out has the size the client asks for (mReqWidth, else            *)
(* mUserWidth, else the consumer's default), whether the slot's buffer    *)
(* was kept, reallocated by the queue (BUFFER_NEEDS_REALLOCATION, which   *)
(* makes the client call requestBuffer) or dropped from the slot cache by *)
(* RELEASE_ALL_BUFFERS, setBufferCount or disconnect.                      *)
AskedDims ==
  CHOOSE d \in Dims :
    IF reqDims # NoDims THEN d = reqDims
    ELSE IF userDims # NoDims THEN d = userDims ELSE d = DefaultDims

DequeuedAsAsked ==
  [][\A b \in ((appHeld' \ appHeld) \cup {lockedBuffer'}) \ {NULL, lockedBuffer} :
       gb'[b].dims = AskedDims]_vars

(* lock(): "copy the area that is invalid and not repainted this round".   *)
(* Once the caller has redrawn the dirty bounds lock() returned, the      *)
(* locked buffer shows the whole current frame: the copy-back from         *)
(* mPostedBuffer, computed from mDirtyRegion and the slot's dirty region,  *)
(* restored every pixel the caller did not redraw.                        *)
LockedBufferShowsFrame ==
  lockedBuffer # NULL => gb[lockedBuffer].stale = {}

(* Every slot the queue has DEQUEUED can still be given back: the slot    *)
(* cache maps some buffer that the client holds locked or the producer    *)
(* holds from dequeueBuffer to that slot, so unlockAndPost, queueBuffer or *)
(* cancelBuffer can find it.  No error path of lock() (a failed           *)
(* requestBuffer) and no failed disconnect(api), which drops the cache     *)
(* first, may leave a slot DEQUEUED that nobody can queue or cancel.       *)
DequeuedSlotOwned ==
  \A i \in Slots : bq.state[i] = "DEQUEUED" =>
    \E b \in appHeld \cup ({lockedBuffer} \ {NULL}) :
      getSlotFromBufferLocked(slots, b) = i

(* The slot cache agrees with the queue for every slot the queue can hand *)
(* out again: mSlots[i].buffer is null or the buffer the queue holds in    *)
(* slot i, so a dequeueBuffer that skips requestBuffer draws into the      *)
(* buffer the queue will display, across reallocation, RELEASE_ALL_BUFFERS, *)
(* setBufferCount and disconnect.                                          *)
SlotCacheCoherent ==
  \A i \in Slots : bq.state[i] # "DEQUEUED" => slots[i].buffer \in {NULL, bq.buf[i]}

(* The buffer the client draws into is never one the consumer may be      *)
(* reading: while mLockedBuffer is set, every queue slot holding it is     *)
(* DEQUEUED (unlockAndPost gives it up before the queue passes it on).     *)
LockedNotConsumed ==
  lockedBuffer # NULL =>
    \A i \in Slots : bq.buf[i] = lockedBuffer => bq.state[i] = "DEQUEUED"

(* query(NATIVE_WINDOW_CONSUMER_RUNNING_BEHIND) answers 0 from the cache  *)
(* without asking the queue whenever mConsumerRunningBehind is false.     *)
(* That answer is right in every state: while the cache says "not behind" *)
(* fewer than two frames are pending, across connect, lock(),             *)
(* unlockAndPost(), the producer's queueBuffer in both queue modes, the   *)
(* consumer draining and disconnect - only the producer adds frames, and  *)
(* each of its queueBuffer calls refreshes the cache.                     *)
CachedBehindSound ==
  ~behind => Len(bq.queue) < 2

=====
