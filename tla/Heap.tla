-------------------------------- MODULE Heap --------------------------------
(***************************************************************************)
(* The kernel heap of kernel/src/heap.c: a first-fit allocator over one    *)
(* contiguous run of pages, with a header in front of every block and an   *)
(* address-ordered, singly linked list of free blocks.                     *)
(*                                                                         *)
(* Addresses are offsets from the start of the run, so NULL is a value of  *)
(* its own.  The list is the sequence of its blocks in `next' order; the   *)
(* size field of every header in use is in `size', whose domain is the set *)
(* of blocks the heap is cut into.  The caller's side is `live', the       *)
(* blocks handed out and not yet freed.  Callers free only what they hold, *)
(* which is how fs.c, cwd.c and kernel.c use the heap.                     *)
(***************************************************************************)
EXTENDS Integers, Sequences

CONSTANTS HeapSize,  \* PAGES_CNT * 4096
          Header,    \* sizeof(FreeBlock), 16
          Align,     \* 8: requests are rounded up to a multiple of it
          MinSize,   \* 256: no payload is smaller
          Requests,  \* the sizes callers ask for
          NULL

ASSUME HeapAssumption ==
  /\ Header \in Nat \ {0} /\ Align \in Nat \ {0} /\ MinSize \in Nat \ {0}
  /\ HeapSize \in Nat /\ HeapSize > Header
  /\ Requests \subseteq Nat
  /\ NULL \notin Int

VARIABLES free_list,  \* the free blocks, in the order of their next pointers
          size,       \* the size field of every block's header
          live,       \* the blocks callers hold
          ret         \* the block the last kmalloc returned (the pointer it
                      \* returns is the block plus Header), or NULL

vars == <<free_list, size, live, ret>>

Addr == 0 .. HeapSize

EndOf(a) == a + Header + size[a]   \* the first byte after block a

\* The list after its first k blocks are linked to the blocks of mid and those
\* to its m-th block: what the assignments to prev->next (or free_list, when
\* k = 0) and to block->next amount to.
Relinked(k, mid, m) ==
  SubSeq(free_list, 1, k) \o mid \o SubSeq(free_list, m, Len(free_list))

\* heap_init: the whole run is one free block.
Init ==
  /\ free_list = <<0>>
  /\ size = [a \in {0} |-> HeapSize - Header]
  /\ live = {}
  /\ ret = NULL

------------------------------------------------------------------------------
(* kmalloc *)

Rounded(n) ==
  LET up == ((n + Align - 1) \div Align) * Align
  IN  IF up < MinSize THEN MinSize ELSE up

\* The while loop stops at the first block in list order that is big enough.
FirstFit(i, n) ==
  /\ i \in DOMAIN free_list
  /\ size[free_list[i]] >= n
  /\ \A j \in 1 .. (i - 1) : size[free_list[j]] < n

\* A defect the code does not have: forgetting the header of the new block.
SplitsTooEarly(curr, n) == size[curr] >= n
\* The block is cut when a header still fits behind the payload.
Splits(curr, n) == size[curr] >= n + Header

\* A defect the code does not have: a block taken whole stays on the list.
KeepInList(i) == free_list
Unlinked(i) == Relinked(i - 1, <<>>, i + 1)

KmallocSplit(req) ==
  LET n == Rounded(req) IN
  \E i \in DOMAIN free_list :
    LET curr == free_list[i]
        new_block == curr + Header + n
    IN /\ FirstFit(i, n)
       /\ Splits(curr, n)
       /\ size' = [a \in DOMAIN size \cup {new_block} |->
                     CASE a = curr -> n
                       [] a = new_block -> size[curr] - Header - n
                       [] OTHER -> size[a]]
       /\ free_list' = Relinked(i - 1, <<new_block>>, i + 1)
       /\ live' = live \cup {curr}
       /\ ret' = curr

KmallocWhole(req) ==
  LET n == Rounded(req) IN
  \E i \in DOMAIN free_list :
    LET curr == free_list[i]
    IN /\ FirstFit(i, n)
       /\ ~Splits(curr, n)
       /\ free_list' = Unlinked(i)
       /\ live' = live \cup {curr}
       /\ ret' = curr
       /\ UNCHANGED size

KmallocFails(req) ==
  /\ \A i \in DOMAIN free_list : size[free_list[i]] < Rounded(req)
  /\ ret' = NULL
  /\ UNCHANGED <<free_list, size, live>>

------------------------------------------------------------------------------
(* kfree *)

\* Defects the code does not have: taking the next list entry for the adjacent
\* block; losing the header that coalescing swallows.
\* The search loop: k blocks of the list lie before b, and b goes after them.
InsertAfter(k, b) ==
  /\ \A j \in 1 .. k : free_list[j] < b
  /\ k < Len(free_list) => free_list[k + 1] > b

JoinsPrev(k, b) == k > 0 /\ EndOf(free_list[k]) = b

JoinsAnyNext(k, b) == k < Len(free_list)
JoinsNext(k, b) == k < Len(free_list) /\ EndOf(b) = free_list[k + 1]

LoseHeader(from, to) == to - from - 2 * Header
\* The size of the free block that covers from .. to - 1.
Spanning(from, to) == to - from - Header

Kfree(b) ==
  \E k \in 0 .. Len(free_list) :
    LET prev  == JoinsPrev(k, b)
        next  == JoinsNext(k, b)
        first == IF prev THEN free_list[k] ELSE b
        last  == IF next THEN free_list[k + 1] ELSE b
        gone  == (IF prev THEN {b} ELSE {}) \cup (IF next THEN {last} ELSE {})
    IN /\ InsertAfter(k, b)
       /\ free_list' = Relinked(k, IF prev THEN <<>> ELSE <<b>>,
                                IF next THEN k + 2 ELSE k + 1)
       /\ size' = [a \in DOMAIN size \ gone |->
                     IF a = first THEN Spanning(first, EndOf(last))
                                  ELSE size[a]]
       /\ live' = live \ {b}
       /\ UNCHANGED ret

Next ==
  \/ \E req \in Requests :
       KmallocSplit(req) \/ KmallocWhole(req) \/ KmallocFails(req)
  \/ \E b \in live : Kfree(b)

Spec == Init /\ [][Next]_vars

------------------------------------------------------------------------------
(* Properties *)

FreeBlocks == {free_list[i] : i \in DOMAIN free_list}

TypeOK ==
  /\ free_list \in Seq(Addr)
  /\ DOMAIN size \subseteq Addr
  /\ \A a \in DOMAIN size : size[a] \in Nat
  /\ live \subseteq DOMAIN size
  /\ ret \in Addr \cup {NULL}

\* The headers cut the heap into adjacent blocks from its first byte to its
\* last, each of them either free or held and never both: kmalloc and kfree
\* lose no byte, and no payload covers a header or another payload.
Tiled ==
  /\ 0 \in DOMAIN size
  /\ \A a \in DOMAIN size :
       /\ EndOf(a) = HeapSize \/ EndOf(a) \in DOMAIN size
       /\ \A b \in DOMAIN size : a < b => EndOf(a) <= b
  /\ FreeBlocks \cap live = {}
  /\ FreeBlocks \cup live = DOMAIN size

\* The list is kept in address order, which kfree's search and the two
\* coalescing tests depend on.
AddressOrdered ==
  \A i, j \in DOMAIN free_list : i < j => free_list[i] < free_list[j]

\* kfree leaves no two free blocks side by side, so free memory is never
\* broken into pieces that could be one.
Coalesced ==
  \A a \in FreeBlocks : EndOf(a) \notin FreeBlocks

\* What every walk along the headers and the list relies on.
WellFormed == Tiled /\ AddressOrdered /\ Coalesced

\* Once every block has been given back the heap is again the single block
\* heap_init made, whatever the order of the frees.
FullyRecovered ==
  live = {} => free_list = <<0>> /\ size[0] = HeapSize - Header

\* A block keeps its size as long as a caller holds it.
HeldBlocksKeepTheirSize ==
  [][\A b \in live \cap live' : size'[b] = size[b]]_vars

\* The heap implements the allocator callers rely on: every kmalloc that
\* succeeds returns fresh bytes, at least as many as asked.
Promise == INSTANCE Allocator WITH
  extents <- {[at |-> b + Header, len |-> size[b]] : b \in live}
ImplementsAllocator == Promise!Spec
==============================================================================
