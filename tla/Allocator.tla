------------------------------ MODULE Allocator ------------------------------
(***************************************************************************)
(* What a caller of kmalloc/kfree (kernel/include/heap.h) relies on: an    *)
(* allocation returns a range of the heap at least as long as the request  *)
(* and disjoint from every range still held; a range stays where it is     *)
(* until it is given back.  Nothing is said of how free memory is found.   *)
(***************************************************************************)
EXTENDS Naturals

CONSTANTS HeapSize,  \* bytes of the heap
          Requests   \* the sizes callers ask for

VARIABLE extents     \* the ranges callers hold, as records [at, len]

Extent == [at : 0 .. HeapSize, len : 0 .. HeapSize]

Disjoint(e, f) == e.at + e.len <= f.at \/ f.at + f.len <= e.at

Init == extents = {}

Alloc(n) ==
  \E e \in Extent :
    /\ n <= e.len
    /\ e.at + e.len <= HeapSize
    /\ \A f \in extents : Disjoint(e, f)
    /\ extents' = extents \cup {e}

Free(e) == extents' = extents \ {e}

Next ==
  \/ \E n \in Requests : Alloc(n)
  \/ \E e \in extents : Free(e)

Spec == Init /\ [][Next]_extents
==============================================================================
