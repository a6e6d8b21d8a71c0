----------------------------- MODULE PageBitmap -----------------------------
(***************************************************************************)
(* kernel/src/pmm.c at the level of the bitmap's bytes: pmm_init's         *)
(* arithmetic over the boot loader's memory map, and the bit scans of      *)
(* alloc_page and alloc_pages.  A byte is the set of its bits that are 1.  *)
(* The variables of PageAllocator record what the bytes come to: `usable'  *)
(* and `reserved' what pmm_init was given, `used' the pages whose bit is   *)
(* set, the others what the callers have.                                  *)
(*                                                                         *)
(* The maps, kernel sizes and stack pointers are those of a machine whose  *)
(* memory ends at TopPage, chosen once in BitmapInit.  As main.rs builds   *)
(* the map from the memory the loader's image and stack live in too,       *)
(* kernel and stack lie below TopPage.                                     *)
(***************************************************************************)
EXTENDS PageAllocator, Sequences, FiniteSetsExt

CONSTANTS PageSize,    \* 4096
          ByteBits,    \* 8
          TopPage,     \* the end of the highest region, in pages
          Maps,        \* memory maps: sequences of [base, page_count]
          KernelAt,    \* 0x100000
          OwnSizes,    \* lengths of kernel.bin, in bytes
          StackAts,    \* values of rsp in pmm_init
          StackSize    \* 64 * 1024

Bits == 0 .. ByteBits - 1

RegionEnd(r) == r.base + r.page_count * PageSize

HighestAddr(mmap) == Max({RegionEnd(mmap[i]) : i \in DOMAIN mmap})

bitmap_size == (TopPage + ByteBits - 1) \div ByteBits

\* The firmware's regions are made of whole pages.
IsMap(mmap) ==
  /\ mmap \in Seq([base : Nat, page_count : Nat \ {0}]) /\ mmap # <<>>
  /\ \A i \in DOMAIN mmap : mmap[i].base % PageSize = 0

ASSUME BitmapAssumption ==
  /\ PageSize \in Nat \ {0} /\ ByteBits \in Nat \ {0} /\ TopPage \in Nat \ {0}
  /\ \A mmap \in Maps : IsMap(mmap) /\ HighestAddr(mmap) = TopPage * PageSize
  /\ KernelAt \in Nat /\ OwnSizes \subseteq Nat \ {0}
  /\ \A size \in OwnSizes : KernelAt + size <= TopPage * PageSize
  /\ StackSize \in Nat /\ StackAts \subseteq Nat
  /\ \A rsp \in StackAts : StackSize <= rsp /\ rsp < TopPage * PageSize
  /\ NPages = bitmap_size * ByteBits
  /\ 1 \in Counts

VARIABLES boot,    \* what pmm_init was given: [mmap, own_size, rsp]
          bitmap   \* the bytes

bitmapVars == <<boot, bitmap, vars>>

------------------------------------------------------------------------------
(* pmm_init *)

\* The bitmap goes to the end of the last region of the map with room for it.
BitmapAt(mmap) ==
  LET roomy == {i \in DOMAIN mmap : mmap[i].page_count * PageSize > bitmap_size}
  IN  IF roomy = {} THEN 0 ELSE RegionEnd(mmap[Max(roomy)]) - bitmap_size

\* A defect the code does not have: the loop over the last byte's bits ends one
\* bit early.
WithoutTheLast(first, last, byte) ==
  LET sb == first \div ByteBits  eb == last \div ByteBits
  IN CASE byte = sb /\ byte = eb -> (first % ByteBits) .. (last % ByteBits)
       [] byte = sb /\ byte # eb -> (first % ByteBits) .. ByteBits - 1
       [] byte = eb /\ byte # sb -> 0 .. (last % ByteBits) - 1
       [] sb < byte /\ byte < eb -> Bits
       [] OTHER -> {}
\* The bits of one byte that the three loops over pages first .. last touch.
Mask(first, last, byte) ==
  LET sb == first \div ByteBits  eb == last \div ByteBits
  IN CASE byte = sb /\ byte = eb -> (first % ByteBits) .. (last % ByteBits)
       [] byte = sb /\ byte # eb -> (first % ByteBits) .. ByteBits - 1
       [] byte = eb /\ byte # sb -> 0 .. (last % ByteBits)
       [] sb < byte /\ byte < eb -> Bits
       [] OTHER -> {}

mark_used(bm, first, last) == [b \in DOMAIN bm |-> bm[b] \cup Mask(first, last, b)]

clear(bm, first, last) == [b \in DOMAIN bm |-> bm[b] \ Mask(first, last, b)]

ClearRegion(bm, r) ==
  clear(bm, r.base \div PageSize, (RegionEnd(r) - 1) \div PageSize)

MarkBytes(bm, at, len) ==
  mark_used(bm, at \div PageSize, (at + len - 1) \div PageSize)

MarkStack(bm, rsp) ==
  LET bottom == ((rsp - StackSize) \div PageSize) * PageSize
      top    == ((rsp + PageSize) \div PageSize) * PageSize
  IN  mark_used(bm, bottom \div PageSize, (top - 1) \div PageSize)

\* All bits set, then those of each region cleared.
ClearRegions(mmap) ==
  LET filled == [i \in 0 .. bitmap_size - 1 |-> Bits]
      cleared[n \in 0 .. Len(mmap)] ==
        IF n = 0 THEN filled ELSE ClearRegion(cleared[n - 1], mmap[n])
  IN  cleared[Len(mmap)]

pmm_init(b) ==
  LET kernel == MarkBytes(ClearRegions(b.mmap), KernelAt, b.own_size)
  IN  MarkStack(MarkBytes(kernel, BitmapAt(b.mmap), bitmap_size), b.rsp)

\* The pages that hold a byte of from .. to.
Touching(from, to) == {p \in Pages : \E a \in from .. to : a \div PageSize = p}

\* The pages of the map's regions, and those of what is in memory already.
Usable(mmap) ==
  {p \in Pages : \E i \in DOMAIN mmap :
     mmap[i].base <= p * PageSize /\ p * PageSize < RegionEnd(mmap[i])}
Reserved(b) ==
  Touching(KernelAt, KernelAt + b.own_size - 1)
    \cup Touching(BitmapAt(b.mmap), BitmapAt(b.mmap) + bitmap_size - 1)
    \cup Touching(b.rsp - StackSize, b.rsp)

IsSet(bm, page) == page % ByteBits \in bm[page \div ByteBits]
Marked(bm) == {p \in Pages : IsSet(bm, p)}

BitmapInit ==
  /\ boot \in [mmap : Maps, own_size : OwnSizes, rsp : StackAts]
  /\ bitmap = pmm_init(boot)
  /\ usable = Usable(boot.mmap)
  /\ reserved = Reserved(boot)
  /\ used = Marked(bitmap)
  /\ held = {}
  /\ lost = {}
  /\ asked = 0
  /\ ret = NULL

------------------------------------------------------------------------------
(* alloc_page, alloc_pages, free_page, free_pages *)

Fixed == UNCHANGED <<boot, usable, reserved>>

SetRun(at, count) ==
  [b \in DOMAIN bitmap |->
     bitmap[b] \cup {i \in Bits : b * ByteBits + i \in at .. at + count - 1}]

\* What the caller makes of the result: page 0 reads as NULL.
Returned(at, count) ==
  /\ asked' = count
  /\ ret' = at
  /\ IF at = NULL
       THEN lost' = lost \cup (at .. at + count - 1) /\ UNCHANGED held
       ELSE held' = held \cup {[at |-> at, len |-> count]} /\ UNCHANGED lost

Allocates(at, count) ==
  /\ bitmap' = SetRun(at, count)
  /\ used' = Marked(bitmap')
  /\ Returned(at, count)
  /\ Fixed

Refused(count) ==
  /\ asked' = count
  /\ ret' = NULL
  /\ UNCHANGED <<bitmap, used, held, lost>>
  /\ Fixed

\* The first byte that is not 0xFF, and its lowest clear bit.
AllocPage ==
  \E b \in DOMAIN bitmap :
    /\ bitmap[b] # Bits
    /\ \A c \in 0 .. b - 1 : bitmap[c] = Bits
    /\ Allocates(b * ByteBits + Min(Bits \ bitmap[b]), 1)

AllocPageFails ==
  /\ \A b \in DOMAIN bitmap : bitmap[b] = Bits
  /\ Refused(1)

\* A defect the code does not have: a used page does not restart the count.
NeverResets(page) ==
  LET n[k \in 0 .. NPages] ==
        IF k = 0 THEN 0 ELSE IF IsSet(bitmap, k - 1) THEN n[k - 1] ELSE n[k - 1] + 1
  IN  n[page + 1]
\* alloc_pages' counter of clear bits in a row, after it looked at page.
consecutive(page) ==
  LET n[k \in 0 .. NPages] ==
        IF k = 0 \/ IsSet(bitmap, k - 1) THEN 0 ELSE n[k - 1] + 1
  IN  n[page + 1]

\* A defect the code does not have: the run begins one page too low.
OneTooLow(page, count) == page - count
Start(page, count) == page - count + 1

AllocPages(count) ==
  \E page \in Pages :
    /\ ~IsSet(bitmap, page) /\ consecutive(page) = count
    /\ \A p \in 0 .. page - 1 : consecutive(p) # count
    /\ Allocates(Start(page, count), count)

AllocPagesFails(count) ==
  /\ \A p \in Pages : consecutive(p) # count
  /\ Refused(count)

\* A defect the code does not have: free_pages clears one bit too many.
OneMoreBit(e) == e.at .. e.at + e.len
BitsOf(e) == e.at .. e.at + e.len - 1

FreePages(e) ==
  /\ bitmap' = [b \in DOMAIN bitmap |->
                  bitmap[b] \ {i \in Bits : b * ByteBits + i \in BitsOf(e)}]
  /\ used' = Marked(bitmap')
  /\ held' = held \ {e}
  /\ UNCHANGED <<lost, asked, ret>>
  /\ Fixed

BitmapNext ==
  \/ AllocPage
  \/ AllocPageFails
  \/ \E count \in Counts : AllocPages(count) \/ AllocPagesFails(count)
  \/ \E e \in held : FreePages(e)

BitmapSpec == BitmapInit /\ [][BitmapNext]_bitmapVars

------------------------------------------------------------------------------
(* Properties *)

\* pmm_init's byte arithmetic marks exactly the pages outside the map and those
\* that hold a byte of the kernel image, the bitmap or the stack, and the bit
\* scans allocate and refuse as the page allocator does over sets of pages.
ImplementsPageAllocator == Spec
==============================================================================
