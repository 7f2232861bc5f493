---------------------------- MODULE AbstractHeap ----------------------------
(***************************************************************************)
(* What an allocator promises its client (malloc, calloc, realloc,        *)
(* memalign, free, malloc_trim, independent_calloc/comalloc), with no     *)
(* chunks, bins or segments: the client holds a set of blocks, each a     *)
(* range of addresses [lo, hi) that begins at the pointer it was given.  *)
(*                                                                         *)
(*  - an allocation adds one block, at least as large as asked, aligned as *)
(*    asked, and overlapping no block the client already holds; an        *)
(*    independent_calloc/comalloc adds several such blocks at once, none  *)
(*    overlapping another;                                                 *)
(*  - free removes exactly the block it is given;                          *)
(*  - a successful realloc replaces one block by another (possibly at the *)
(*    same pointer, possibly overlapping the old one) that overlaps no     *)
(*    other block;                                                         *)
(*  - a failed call and malloc_trim leave the blocks as they are.          *)
(*                                                                         *)
(* No step changes a block other than the one it is about: the blocks a    *)
(* call does not name keep their pointer and their extent.  The actions    *)
(* are stated on blocks' so that the module is used as the property a     *)
(* detailed allocator is checked against.                                  *)
(***************************************************************************)
EXTENDS Integers, TLC

VARIABLE blocks   \* pointer -> [lo, hi, req, align]

Overlap(b, c) == b.lo < c.hi /\ c.lo < b.hi

(* b is a block the client may be handed at pointer p next to others.    *)
Fits(p, b, others) ==
  /\ b.lo = p
  /\ b.hi - b.lo >= b.req
  /\ p % b.align = 0
  /\ \A q \in DOMAIN others : ~Overlap(b, others[q])

Without(p) == [q \in DOMAIN blocks \ {p} |-> blocks[q]]

Init == blocks = <<>>

Alloc ==
  \E p \in DOMAIN blocks' \ DOMAIN blocks :
    /\ blocks' = (p :> blocks'[p]) @@ blocks
    /\ Fits(p, blocks'[p], blocks)

(* independent_calloc/comalloc: several blocks at once, each fitting      *)
(* among the blocks held before and overlapping none of the others.        *)
AllocSeveral ==
  LET new == DOMAIN blocks' \ DOMAIN blocks IN
  /\ blocks' = [p \in new |-> blocks'[p]] @@ blocks
  /\ \A p \in new :
       /\ Fits(p, blocks'[p], blocks)
       /\ \A q \in new \ {p} : ~Overlap(blocks'[p], blocks'[q])

Release ==
  \E p \in DOMAIN blocks : blocks' = Without(p)

Resize ==
  \E p \in DOMAIN blocks, q \in DOMAIN blocks' :
    /\ blocks' = (q :> blocks'[q]) @@ Without(p)
    /\ q \notin DOMAIN Without(p)
    /\ Fits(q, blocks'[q], Without(p))

Next == Alloc \/ AllocSeveral \/ Release \/ Resize

Spec == Init /\ [][Next]_blocks
=============================================================================
