---------------------------- MODULE PageAllocator ----------------------------
(***************************************************************************)
(* The physical page allocator of kernel/src/pmm.c, at the level of page   *)
(* numbers: `used' is the set of pages whose bit is set in the bitmap.     *)
(* PageBitmap models the bitmap's bytes and pmm_init's arithmetic and is   *)
(* shown to implement this module.                                         *)
(*                                                                         *)
(* A returned pointer is a page number here, so NULL is page 0: the caller *)
(* of alloc_page cannot tell the two apart.  The caller's side is `held',  *)
(* the runs of pages it received and has not given back; it gives back     *)
(* whole runs it holds.                                                    *)
(***************************************************************************)
EXTENDS Integers

CONSTANTS NPages,  \* bitmap_size * 8
          Counts   \* the page counts callers ask for

ASSUME PageAssumption ==
  /\ NPages \in Nat \ {0}
  /\ Counts \subseteq Nat \ {0}

VARIABLES usable,    \* pages of the regions in the boot loader's memory map
          reserved,  \* pages of the kernel image, the bitmap and the stack
          used,      \* pages marked in the bitmap
          held,      \* runs handed out, as records [at, len]
          lost,      \* pages marked by a call whose result reads as NULL
          asked,     \* the page count of the last call that allocates
          ret        \* its result

vars == <<usable, reserved, used, held, lost, asked, ret>>

Pages == 0 .. NPages - 1

NULL == 0

Run(start, count) == start .. start + count - 1

IsFree(start, count) == Run(start, count) \subseteq Pages \ used

\* alloc_pages counts consecutive clear bits from page 0 and stops when it has
\* count of them; alloc_page is the case of one bit.
FirstFreeRun(start, count) ==
  /\ IsFree(start, count)
  /\ \A s \in 0 .. start - 1 : ~IsFree(s, count)

\* pmm_init: everything is marked, the map's regions are cleared, and the
\* kernel, the bitmap and the stack are marked again.
Init ==
  /\ usable \in SUBSET Pages
  /\ reserved \in SUBSET Pages
  /\ used = (Pages \ usable) \cup reserved
  /\ held = {}
  /\ lost = {}
  /\ asked = 0
  /\ ret = NULL

\* alloc_page is Take(1), alloc_pages(count) is Take(count).
Take(count) ==
  \E start \in Pages :
    /\ FirstFreeRun(start, count)
    /\ used' = used \cup Run(start, count)
    /\ asked' = count
    /\ ret' = start
    /\ IF ret' = NULL
         THEN lost' = lost \cup Run(start, count) /\ UNCHANGED held
         ELSE held' = held \cup {[at |-> start, len |-> count]} /\ UNCHANGED lost
    /\ UNCHANGED <<usable, reserved>>

NoRoom(count) ==
  /\ \A start \in Pages : ~IsFree(start, count)
  /\ asked' = count
  /\ ret' = NULL
  /\ UNCHANGED <<usable, reserved, used, held, lost>>

Cleared(e) == Run(e.at, e.len)

\* free_page and free_pages check nothing but the alignment of the address.
GiveBack(e) ==
  /\ used' = used \ Cleared(e)
  /\ held' = held \ {e}
  /\ UNCHANGED <<usable, reserved, lost, asked, ret>>

Next ==
  \/ \E count \in Counts : Take(count) \/ NoRoom(count)
  \/ \E e \in held : GiveBack(e)

Spec == Init /\ [][Next]_vars

------------------------------------------------------------------------------
(* Properties *)

TypeOK ==
  /\ usable \subseteq Pages /\ reserved \subseteq Pages
  /\ used \subseteq Pages /\ lost \subseteq Pages
  /\ held \subseteq [at : Pages, len : Nat \ {0}]
  /\ asked \in Nat
  /\ ret \in Pages

PagesOf(e) == Run(e.at, e.len)

\* No page is in two runs at once, and every page handed out is memory the map
\* offers that holds neither the kernel image, the bitmap nor the stack, nor
\* was handed out before to a caller that took it for NULL.
HeldApart ==
  /\ \A e, f \in held : e # f => PagesOf(e) \cap PagesOf(f) = {}
  /\ \A e \in held : PagesOf(e) \subseteq usable \ (reserved \cup lost)

\* The bitmap marks exactly what is not to be handed out now: pages outside
\* the map, reserved pages, pages callers hold, and the pages of a run that
\* began at page 0, which no caller can give back.
Accounted ==
  used = (Pages \ usable) \cup reserved \cup lost
           \cup (UNION {PagesOf(e) : e \in held})

\* The runs callers hold behave as allocations of the abstract allocator do.
Promise == INSTANCE Allocator WITH
  HeapSize <- NPages, Requests <- Counts, extents <- held
ImplementsAllocator == Promise!Spec
==============================================================================
