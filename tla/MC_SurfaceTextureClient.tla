------------------------ MODULE MC_SurfaceTextureClient ----------------------
(***************************************************************************)
(* SurfaceTextureClient for TLC: a row of three pixels, dirty rectangles  *)
(* of one pixel and of the whole row, two buffer sizes.                   *)
(***************************************************************************)
EXTENDS SurfaceTextureClient

CONSTANTS D1, D2, NoSize, B1, B2, B3, B4, B5, B6, B7

MC_Pixels       == 1..3
MC_Rects        == {{1}, {2}, {3}, 1..3}
MC_Dims         == {D1, D2}
MC_DoubleSlots  == 0..1
MC_TripleSlots  == 0..2
MC_DoubleBuffers == {B1, B2, B3, B4, B5, B6}

\* The software path alone: no other producer, the queue stays synchronous.
MC_NoApis        == {}
MC_NoIntervals   == {}
MC_NoneHeld      == 0

\* The whole client: lock()/unlockAndPost() and an EGL producer holding
\* one buffer at a time on a two-slot queue, swap intervals clamped from
\* both sides; one pixel, since no property here is about pixels.
MC_Apis          == {"EGL"}
MC_Intervals     == {-1, 2}
MC_OneHeld       == 1
MC_OnePixel      == 1..1
MC_OneRect       == {1..1}
MC_ProducerBuffers == {B1, B2, B3, B4, B5, B6, B7}

(* Buffer handles are interchangeable: a step that allocates takes any    *)
(* unreferenced one.  States are told apart up to a renaming of handles:  *)
(* each handle is replaced by where it first occurs among the queue's     *)
(* slots, the client's slot cache, the locked and posted buffers and the  *)
(* producer's buffers, and destroyed buffers' contents are dropped.       *)
HandleSeq ==
  [k \in 1..Len(SetToSeq(Slots)) |-> bq.buf[SetToSeq(Slots)[k]]]
  \o [k \in 1..Len(SetToSeq(Slots)) |-> slots[SetToSeq(Slots)[k]].buffer]
  \o <<lockedBuffer, postedBuffer>> \o SetToSeq(appHeld)

Label(b, hs) ==
  IF b = NULL THEN 0 ELSE CHOOSE k \in DOMAIN hs : hs[k] = b /\ \A l \in 1..k-1 : hs[l] # b

LabelledView(hs) ==
  << reqDims, userDims, connectedToCpu, Label(lockedBuffer, hs),
     Label(postedBuffer, hs), dirtyRegion,
     [i \in Slots |-> [slots[i] EXCEPT !.buffer = Label(@, hs)]], behind,
     {Label(b, hs) : b \in appHeld},
     [bq EXCEPT !.buf = [i \in Slots |-> Label(@[i], hs)]],
     [k \in {Label(o, hs) : o \in Referenced} |-> gb[hs[k]]] >>

MC_View == LabelledView(HandleSeq)

(* Always true; not a property.  Evaluating it makes TLC store the slot   *)
(* cache, which freeAllBuffers builds with a function constructor, as an  *)
(* explicit function: under a VIEW TLC fingerprints only the view and     *)
(* would otherwise queue the unevaluated constructor, which it cannot     *)
(* write to disk.                                                          *)
MC_SlotsExplicit ==
  slots \in [Slots -> [buffer : Buffers \cup {NULL}, dirtyRegion : SUBSET Pixels]]
=============================================================================
