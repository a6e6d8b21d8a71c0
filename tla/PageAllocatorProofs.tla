------------------------- MODULE PageAllocatorProofs -------------------------
(***************************************************************************)
(* Proofs about PageAllocator and PageBitmap: for every memory map and     *)
(* every set of requests the runs handed out are apart from each other and *)
(* from the kernel, the bitmap accounts for every page, and the runs       *)
(* behave as the allocations of Allocator; and the arithmetic of pmm_init  *)
(* and the bit scans, byte by byte, implement PageAllocator.               *)
(***************************************************************************)
EXTENDS PageBitmap, Induction

\* A free page is never held because Accounted says the bitmap marks every held
\* page; the two parts need each other.
IInv == TypeOK /\ HeldApart /\ Accounted

LEMMA InitHolds == Init => IInv
<1> SUFFICES ASSUME Init PROVE IInv
  OBVIOUS
<1> USE DEF Init
<1>1. TypeOK
  BY PageAssumption DEF TypeOK, Pages, NULL
<1>2. HeldApart /\ Accounted
  BY DEF HeldApart, Accounted
<1> QED BY <1>1, <1>2 DEF IInv

\* A run found free holds no page of any held run, no reserved page, no page
\* outside the map and no lost one.
LEMMA FreeRunIsFresh ==
  ASSUME IInv, NEW start \in Pages, NEW count \in Nat, IsFree(start, count)
  PROVE  /\ Run(start, count) \subseteq usable \ (reserved \cup lost)
         /\ \A e \in held : PagesOf(e) \cap Run(start, count) = {}
         /\ Run(start, count) \subseteq Pages
<1> QED BY DEF IInv, Accounted, IsFree

LEMMA TakePreserves ==
  ASSUME IInv, NEW count \in Counts, Take(count)
  PROVE  IInv'
<1>1. PICK start \in Pages :
        /\ FirstFreeRun(start, count)
        /\ used' = used \cup Run(start, count)
        /\ asked' = count
        /\ ret' = start
        /\ IF ret' = NULL
             THEN lost' = lost \cup Run(start, count) /\ UNCHANGED held
             ELSE held' = held \cup {[at |-> start, len |-> count]}
                  /\ UNCHANGED lost
        /\ UNCHANGED <<usable, reserved>>
  BY DEF Take
<1>2. count \in Nat
  BY PageAssumption
<1>3. /\ Run(start, count) \subseteq usable \ (reserved \cup lost)
      /\ \A e \in held : PagesOf(e) \cap Run(start, count) = {}
      /\ Run(start, count) \subseteq Pages
  BY <1>1, <1>2, FreeRunIsFresh DEF FirstFreeRun
<1> DEFINE new == [at |-> start, len |-> count]
<1>4. PagesOf(new) = Run(start, count)
  BY DEF PagesOf
<1>5. CASE ret' = NULL
  <2>1. lost' = lost \cup Run(start, count) /\ held' = held
    BY <1>1, <1>5
  <2>2. TypeOK'
    BY <1>1, <1>2, <1>3, <2>1 DEF IInv, TypeOK, Pages
  <2>3. HeldApart'
    BY <1>1, <1>3, <2>1 DEF IInv, HeldApart, PagesOf
  <2>4. Accounted'
    BY <1>1, <1>3, <2>1 DEF IInv, Accounted, PagesOf, Pages
  <2> QED BY <2>2, <2>3, <2>4 DEF IInv
<1>6. CASE ret' # NULL
  <2>1. held' = held \cup {new} /\ lost' = lost
    BY <1>1, <1>6
  <2> HIDE DEF new
  <2>2. TypeOK'
    <3>1. new \in [at : Pages, len : Nat \ {0}]
      BY PageAssumption DEF new
    <3>2. Pages' = Pages
      BY DEF Pages
    <3> QED BY <1>1, <1>2, <1>3, <2>1, <3>1, <3>2 DEF IInv, TypeOK
  <2>3. HeldApart'
    BY <1>1, <1>3, <1>4, <2>1 DEF IInv, HeldApart
  <2>4. Accounted'
    BY <1>1, <1>4, <2>1 DEF IInv, Accounted, Pages
  <2> QED BY <2>2, <2>3, <2>4 DEF IInv
<1> QED BY <1>5, <1>6

LEMMA GiveBackPreserves ==
  ASSUME IInv, NEW e \in held, GiveBack(e)
  PROVE  IInv'
<1>1. /\ used' = used \ PagesOf(e)
      /\ held' = held \ {e}
      /\ UNCHANGED <<usable, reserved, lost, asked, ret>>
  BY DEF GiveBack, Cleared, PagesOf
<1>2. TypeOK'
  BY <1>1 DEF IInv, TypeOK, Pages
<1>3. HeldApart'
  BY <1>1 DEF IInv, HeldApart, PagesOf, Run
<1>4. Accounted'
  <2>1. PagesOf(e) \subseteq usable \ (reserved \cup lost)
    BY DEF IInv, HeldApart
  <2>2. \A f \in held \ {e} : PagesOf(f) \cap PagesOf(e) = {}
    BY DEF IInv, HeldApart
  <2>3. (UNION {PagesOf(f) : f \in held \ {e}})
          = (UNION {PagesOf(f) : f \in held}) \ PagesOf(e)
    BY <2>2
  <2> QED BY <1>1, <2>1, <2>3 DEF IInv, Accounted, Pages
<1> QED BY <1>2, <1>3, <1>4 DEF IInv

LEMMA NextPreserves == IInv /\ [Next]_vars => IInv'
<1> SUFFICES ASSUME IInv, [Next]_vars PROVE IInv'
  OBVIOUS
<1>1. ASSUME NEW count \in Counts, Take(count) PROVE IInv'
  BY <1>1, TakePreserves
<1>2. ASSUME NEW count \in Counts, NoRoom(count) PROVE IInv'
  BY <1>2, PageAssumption
  DEF NoRoom, IInv, TypeOK, HeldApart, Accounted, PagesOf, Pages, NULL
<1>3. ASSUME NEW e \in held, GiveBack(e) PROVE IInv'
  BY <1>3, GiveBackPreserves
<1>4. ASSUME UNCHANGED vars PROVE IInv'
  BY <1>4 DEF vars, IInv, TypeOK, HeldApart, Accounted, PagesOf, Pages
<1> QED BY <1>1, <1>2, <1>3, <1>4 DEF Next

\* The types of the page allocator's state.
THEOREM TypeCorrect == Spec => []TypeOK
<1>1. IInv => TypeOK
  BY DEF IInv
<1> QED BY <1>1, InitHolds, NextPreserves, PTL DEF Spec

\* alloc_page and alloc_pages hand out pages nobody holds, in the map and
\* outside the kernel image, the bitmap and the stack, for every memory map.
THEOREM RunsApart == Spec => []HeldApart
<1>1. IInv => HeldApart
  BY DEF IInv
<1> QED BY <1>1, InitHolds, NextPreserves, PTL DEF Spec

\* The bitmap marks exactly the pages that are not to be handed out.
THEOREM BitmapAccounts == Spec => []Accounted
<1>1. IInv => Accounted
  BY DEF IInv
<1> QED BY <1>1, InitHolds, NextPreserves, PTL DEF Spec

LEMMA StepImplements ==
  ASSUME IInv, [Next]_vars
  PROVE  Promise!Next \/ UNCHANGED held
<1>1. ASSUME NEW count \in Counts, Take(count)
      PROVE  Promise!Next \/ UNCHANGED held
  <2>1. PICK start \in Pages :
          /\ FirstFreeRun(start, count)
          /\ \/ UNCHANGED held
             \/ held' = held \cup {[at |-> start, len |-> count]}
    BY <1>1 DEF Take
  <2> DEFINE new == [at |-> start, len |-> count]
  <2>2. /\ count \in Nat /\ count > 0 /\ start \in Nat /\ NPages \in Nat
        /\ \A e \in held : e.at \in Nat /\ e.len \in Nat
    BY PageAssumption DEF Pages, IInv, TypeOK
  <2>3. /\ \A e \in held : PagesOf(e) \cap Run(start, count) = {}
        /\ Run(start, count) \subseteq Pages
    BY <2>1, <2>2, FreeRunIsFresh DEF FirstFreeRun
  <2>4. new \in Promise!Extent /\ start + count <= NPages
    <3>1. start + count - 1 \in Run(start, count)
      BY <2>2 DEF Run
    <3>2. start + count - 1 <= NPages - 1
      BY <2>2, <2>3, <3>1 DEF Pages
    <3> QED BY <2>2, <3>2 DEF Promise!Extent
  <2>5. \A e \in held : Promise!Disjoint(new, e)
    <3> SUFFICES ASSUME NEW e \in held,
                        start < e.at + e.len, e.at < start + count
                 PROVE  FALSE
      BY <2>2 DEF Promise!Disjoint
    <3>1. e.len > 0
      BY DEF IInv, TypeOK
    <3> DEFINE p == IF e.at <= start THEN start ELSE e.at
    <3>2. p \in PagesOf(e) /\ p \in Run(start, count)
      BY <2>2, <3>1 DEF PagesOf, Run
    <3> QED BY <2>3, <3>2
  <2>6. CASE held' = held \cup {new}
    <3>1. Promise!Alloc(count)
      BY <2>2, <2>4, <2>5, <2>6 DEF Promise!Alloc
    <3> QED BY <3>1 DEF Promise!Next
  <2> QED BY <2>1, <2>6
<1>2. ASSUME NEW e \in held, GiveBack(e)
      PROVE  Promise!Next
  BY <1>2 DEF GiveBack, Promise!Next, Promise!Free
<1>3. ASSUME NEW count \in Counts, NoRoom(count) PROVE UNCHANGED held
  BY <1>3 DEF NoRoom
<1> QED BY <1>1, <1>2, <1>3 DEF Next, vars

\* The page allocator keeps the same promise to its callers as the heap.
THEOREM PagesImplementAllocator == Spec => ImplementsAllocator
<1>1. Init => Promise!Init
  BY DEF Init, Promise!Init
<1>2. IInv /\ [Next]_vars => [Promise!Next]_held
  BY StepImplements
<1> QED BY <1>1, <1>2, InitHolds, NextPreserves, PTL
        DEF Spec, ImplementsAllocator, Promise!Spec

------------------------------------------------------------------------------
(* Bytes and bits *)

ByteNumbers == 0 .. bitmap_size - 1
Bitmaps == [ByteNumbers -> SUBSET Bits]

LEMMA Sizes ==
  /\ ByteBits \in Nat \ {0} /\ bitmap_size \in Nat /\ NPages = bitmap_size * ByteBits
  /\ TopPage \in Nat \ {0} /\ TopPage <= NPages /\ Pages \subseteq Nat
  /\ PageSize \in Nat \ {0}
<1>0. /\ ByteBits \in Nat \ {0} /\ TopPage \in Nat \ {0} /\ PageSize \in Nat \ {0}
      /\ NPages = bitmap_size * ByteBits /\ NPages \in Nat
  BY PageAssumption, BitmapAssumption
<1> DEFINE a == TopPage + ByteBits - 1  q == a \div ByteBits
<1>1. a \in Nat
  BY <1>0
<1> HIDE DEF a
<1>2. q \in Nat /\ a % ByteBits \in 0 .. ByteBits - 1 /\ a = ByteBits * q + (a % ByteBits)
  BY <1>0, <1>1, Division
<1>3. bitmap_size = q
  BY DEF bitmap_size, a
<1> HIDE DEF q
<1>4. TopPage <= ByteBits * q
  BY <1>0, <1>1, <1>2 DEF a
<1> QED BY <1>0, <1>2, <1>3, <1>4 DEF Pages

\* The byte and the bit of a page.
LEMMA PartsOfPage ==
  ASSUME NEW p \in Pages
  PROVE  /\ p \in Nat
         /\ p \div ByteBits \in ByteNumbers /\ p % ByteBits \in Bits
         /\ (p \div ByteBits) * ByteBits + (p % ByteBits) = p
<1>1. p \in Nat /\ p < bitmap_size * ByteBits
  BY Sizes DEF Pages
<1>2. p \div ByteBits < bitmap_size
  BY <1>1, Sizes, QuotientBelow
<1>3. /\ p \div ByteBits \in Nat /\ p % ByteBits \in 0 .. ByteBits - 1
      /\ p = ByteBits * (p \div ByteBits) + (p % ByteBits)
  BY <1>1, Sizes, Division
<1> QED BY <1>1, <1>2, <1>3, Sizes DEF ByteNumbers, Bits

\* The page of a byte and a bit.
LEMMA PageOfParts ==
  ASSUME NEW b \in ByteNumbers, NEW i \in Bits
  PROVE  /\ b * ByteBits + i \in Pages
         /\ (b * ByteBits + i) \div ByteBits = b /\ (b * ByteBits + i) % ByteBits = i
<1>1. b \in Nat /\ b < bitmap_size /\ i \in Nat /\ i < ByteBits
  BY Sizes DEF ByteNumbers, Bits
<1>2. (b * ByteBits + i) \div ByteBits = b /\ (b * ByteBits + i) % ByteBits = i
  BY <1>1, Sizes, FromParts
<1>3. b * ByteBits + i \in Nat
  BY <1>1, Sizes
<1>4. b * ByteBits + i < bitmap_size * ByteBits
  BY <1>1, <1>2, <1>3, Sizes, QuotientBelow
<1> QED BY <1>2, <1>3, <1>4, Sizes DEF Pages

\* The three loops touch the bits of the pages from first to last, and no other.
LEMMA MaskOfPages ==
  ASSUME NEW first \in Nat, NEW last \in Nat, first <= last, NEW p \in Nat
  PROVE  p % ByteBits \in Mask(first, last, p \div ByteBits) <=> first <= p /\ p <= last
<1> DEFINE sb == first \div ByteBits  sr == first % ByteBits
           eb == last \div ByteBits   er == last % ByteBits
           byte == p \div ByteBits    bit == p % ByteBits
<1>1. /\ sb \in Nat /\ sr \in 0 .. ByteBits - 1
      /\ eb \in Nat /\ er \in 0 .. ByteBits - 1
      /\ byte \in Nat /\ bit \in 0 .. ByteBits - 1
  BY Sizes, Division
<1>2. /\ first <= p <=> sb < byte \/ (sb = byte /\ sr <= bit)
      /\ p <= last <=> byte < eb \/ (byte = eb /\ bit <= er)
      /\ sb < eb \/ (sb = eb /\ sr <= er)
  BY Sizes, OrderOfParts
<1>3. Mask(first, last, byte) =
        CASE byte = sb /\ byte = eb -> sr .. er
          [] byte = sb /\ byte # eb -> sr .. ByteBits - 1
          [] byte = eb /\ byte # sb -> 0 .. er
          [] sb < byte /\ byte < eb -> Bits
          [] OTHER -> {}
  BY DEF Mask
<1> HIDE DEF sb, sr, eb, er, byte, bit
<1>4. bit \in Mask(first, last, byte) <=>
        (sb < byte \/ (sb = byte /\ sr <= bit)) /\ (byte < eb \/ (byte = eb /\ bit <= er))
  <2>1. CASE byte = sb /\ byte = eb
    BY <1>1, <1>3, <2>1
  <2>2. CASE byte = sb /\ byte # eb
    BY <1>1, <1>2, <1>3, <2>2
  <2>3. CASE byte = eb /\ byte # sb
    BY <1>1, <1>2, <1>3, <2>3
  <2>4. CASE byte # eb /\ byte # sb
    <3>1. CASE sb < byte /\ byte < eb
      BY <1>1, <1>3, <2>4, <3>1 DEF Bits
    <3>2. CASE ~(sb < byte /\ byte < eb)
      <4>1. Mask(first, last, byte) = {}
        BY <1>3, <2>4, <3>2
      <4> QED BY <1>1, <2>4, <3>2, <4>1
    <3> QED BY <3>1, <3>2
  <2> QED BY <2>1, <2>2, <2>3, <2>4
<1>5. bit \in Mask(first, last, byte) <=> first <= p /\ p <= last
  BY <1>2, <1>4
<1> QED BY <1>5 DEF byte, bit

LEMMA MarkUsed ==
  ASSUME NEW bm \in Bitmaps, NEW first \in Nat, NEW last \in Nat, first <= last
  PROVE  /\ mark_used(bm, first, last) \in Bitmaps
         /\ Marked(mark_used(bm, first, last)) = Marked(bm) \cup (Pages \cap (first .. last))
<1> DEFINE g == mark_used(bm, first, last)
<1>1. \A b \in ByteNumbers : g[b] = bm[b] \cup Mask(first, last, b)
  BY DEF mark_used, Bitmaps
<1>2. g \in Bitmaps
  <2>1. \A b \in ByteNumbers : Mask(first, last, b) \subseteq Bits
    <3> SUFFICES ASSUME NEW b \in ByteNumbers
                 PROVE  Mask(first, last, b) \subseteq Bits
      OBVIOUS
    <3>1. first % ByteBits \in 0 .. ByteBits - 1 /\ last % ByteBits \in 0 .. ByteBits - 1
      BY Sizes, Division
    <3> QED BY <3>1, Sizes DEF Mask, Bits
  <2>2. g = [b \in ByteNumbers |-> bm[b] \cup Mask(first, last, b)]
    BY DEF mark_used, Bitmaps
  <2> QED BY <2>1, <2>2 DEF Bitmaps
<1> HIDE DEF g
<1>3. ASSUME NEW p \in Pages
      PROVE  IsSet(g, p) <=> IsSet(bm, p) \/ p \in first .. last
  <2>1. p \in Nat /\ p \div ByteBits \in ByteNumbers
    BY PartsOfPage
  <2>2. p % ByteBits \in Mask(first, last, p \div ByteBits) <=> first <= p /\ p <= last
    BY <2>1, MaskOfPages
  <2> QED BY <1>1, <2>1, <2>2 DEF IsSet
<1>4. Marked(g) = Marked(bm) \cup (Pages \cap (first .. last))
  BY <1>3 DEF Marked
<1> QED BY <1>2, <1>4 DEF g

LEMMA Clear ==
  ASSUME NEW bm \in Bitmaps, NEW first \in Nat, NEW last \in Nat, first <= last
  PROVE  /\ clear(bm, first, last) \in Bitmaps
         /\ Marked(clear(bm, first, last)) = Marked(bm) \ (first .. last)
<1> DEFINE g == clear(bm, first, last)
<1>1. \A b \in ByteNumbers : g[b] = bm[b] \ Mask(first, last, b)
  BY DEF clear, Bitmaps
<1>2. g \in Bitmaps
  BY DEF clear, Bitmaps
<1> HIDE DEF g
<1>3. ASSUME NEW p \in Pages
      PROVE  IsSet(g, p) <=> IsSet(bm, p) /\ p \notin first .. last
  <2>1. p \in Nat /\ p \div ByteBits \in ByteNumbers
    BY PartsOfPage
  <2>2. p % ByteBits \in Mask(first, last, p \div ByteBits) <=> first <= p /\ p <= last
    BY <2>1, MaskOfPages
  <2> QED BY <1>1, <2>1, <2>2 DEF IsSet
<1>4. Marked(g) = Marked(bm) \ (first .. last)
  BY <1>3 DEF Marked
<1> QED BY <1>2, <1>4 DEF g

------------------------------------------------------------------------------
(* pmm_init *)

\* The pages that hold a byte of from .. to are those from the first byte's to the
\* last byte's.
LEMMA PagesTouched ==
  ASSUME NEW from \in Nat, NEW to \in Nat, from <= to
  PROVE  Touching(from, to) = Pages \cap ((from \div PageSize) .. (to \div PageSize))
<1> DEFINE first == from \div PageSize  last == to \div PageSize
<1>0. first \in Nat /\ last \in Nat /\ Pages \subseteq Nat
  BY Sizes, Division DEF Pages
<1>1. ASSUME NEW a \in from .. to
      PROVE  first <= a \div PageSize /\ a \div PageSize <= last
  BY <1>1, Sizes, Division, OrderOfParts
<1>2. ASSUME NEW p \in Pages, first <= p, p <= last
      PROVE  \E a \in from .. to : a \div PageSize = p
  <2>1. CASE p = first
    BY <2>1
  <2>2. CASE p # first
    <3> DEFINE a == p * PageSize + 0
    <3>1. a \in Nat /\ a \div PageSize = p /\ a % PageSize = 0
      BY <1>0, Sizes, FromParts
    <3> HIDE DEF a
    <3>2. from <= a
      BY <1>0, <1>2, <2>2, <3>1, Sizes, OrderOfParts
    <3>3. to % PageSize >= 0
      BY Sizes, Division
    <3>4. a <= to
      BY <1>0, <1>2, <3>1, <3>3, Sizes, OrderOfParts
    <3> QED BY <3>1, <3>2, <3>4
  <2> QED BY <2>1, <2>2
<1> HIDE DEF first, last
<1>3. ASSUME NEW p \in Pages
      PROVE  p \in Touching(from, to) <=> p \in first .. last
  <2>1. p \in Touching(from, to) <=> \E a \in from .. to : a \div PageSize = p
    BY DEF Touching
  <2>2. p \in Nat
    BY <1>0
  <2> QED BY <1>0, <1>1, <1>2, <2>1, <2>2
<1>4. Touching(from, to) \subseteq Pages
  BY DEF Touching
<1>5. Touching(from, to) = Pages \cap (first .. last)
  BY <1>3, <1>4
<1> QED BY <1>5 DEF first, last

LEMMA MarkedBytes ==
  ASSUME NEW bm \in Bitmaps, NEW at \in Nat, NEW len \in Nat \ {0}
  PROVE  /\ MarkBytes(bm, at, len) \in Bitmaps
         /\ Marked(MarkBytes(bm, at, len)) = Marked(bm) \cup Touching(at, at + len - 1)
<1> DEFINE to == at + len - 1  first == at \div PageSize  last == to \div PageSize
<1>1. to \in Nat /\ at <= to
  OBVIOUS
<1> HIDE DEF to
<1>2. first \in Nat /\ last \in Nat /\ first <= last
  BY <1>1, Sizes, QuotientsInOrder
<1>3. Touching(at, to) = Pages \cap (first .. last)
  BY <1>1, PagesTouched
<1>4. MarkBytes(bm, at, len) = mark_used(bm, first, last)
  BY DEF MarkBytes, to
<1> HIDE DEF first, last
<1>5. /\ MarkBytes(bm, at, len) \in Bitmaps
      /\ Marked(MarkBytes(bm, at, len)) = Marked(bm) \cup Touching(at, to)
  BY <1>2, <1>3, <1>4, MarkUsed
<1> QED BY <1>5 DEF to

\* The addresses of a memory map.
LEMMA RegionBounds ==
  ASSUME NEW mmap \in Maps, NEW i \in 1 .. Len(mmap)
  PROVE  /\ mmap \in Seq([base : Nat, page_count : Nat \ {0}]) /\ Len(mmap) \in Nat
         /\ mmap[i].base \in Nat /\ mmap[i].base % PageSize = 0
         /\ mmap[i].page_count \in Nat \ {0}
         /\ RegionEnd(mmap[i]) \in Nat
         /\ mmap[i].base + PageSize <= RegionEnd(mmap[i])
<1>1. /\ mmap \in Seq([base : Nat, page_count : Nat \ {0}])
      /\ \A k \in DOMAIN mmap : mmap[k].base % PageSize = 0
  BY BitmapAssumption DEF IsMap
<1>2. /\ mmap[i].base \in Nat /\ mmap[i].base % PageSize = 0
      /\ mmap[i].page_count \in Nat \ {0} /\ Len(mmap) \in Nat
  <2>1. DOMAIN mmap = 1 .. Len(mmap) /\ Len(mmap) \in Nat
    BY <1>1
  <2>2. mmap[i] \in [base : Nat, page_count : Nat \ {0}]
    <3> DEFINE S == [base : Nat, page_count : Nat \ {0}]
    <3>1. mmap \in Seq(S)
      BY <1>1
    <3> HIDE DEF S
    <3>2. mmap[i] \in S
      BY <3>1, ElementOfSeq
    <3> QED BY <3>2 DEF S
  <2> QED BY <1>1, <2>1, <2>2
<1> DEFINE c == mmap[i].page_count  b == mmap[i].base
<1>3. RegionEnd(mmap[i]) = b + c * PageSize
  BY DEF RegionEnd
<1>4. c \in Nat \ {0} /\ b \in Nat
  BY <1>2
<1> HIDE DEF c, b
<1>5. c * PageSize >= PageSize /\ c * PageSize \in Nat
  <2>1. c >= 1 /\ PageSize \in Nat \ {0}
    BY <1>4, Sizes
  <2>2. c * PageSize >= 1 * PageSize
    BY <1>4, <2>1
  <2> QED BY <1>4, <2>1, <2>2
<1>6. RegionEnd(mmap[i]) \in Nat /\ b + PageSize <= RegionEnd(mmap[i])
  BY <1>3, <1>4, <1>5, Sizes
<1> QED BY <1>1, <1>2, <1>6 DEF b

\* The pages whose first byte lies in a region.
PagesIn(r) == {p \in Pages : r.base <= p * PageSize /\ p * PageSize < RegionEnd(r)}

LEMMA RegionPages ==
  ASSUME NEW mmap \in Maps, NEW i \in 1 .. Len(mmap)
  PROVE  LET r == mmap[i]  first == r.base \div PageSize
             last == (RegionEnd(r) - 1) \div PageSize
         IN  /\ first \in Nat /\ last \in Nat /\ first <= last
             /\ PagesIn(r) = Pages \cap (first .. last)
<1> DEFINE r == mmap[i]  base == r.base  end == RegionEnd(r) - 1
           first == base \div PageSize  last == end \div PageSize
<1>1. base \in Nat /\ base % PageSize = 0 /\ end \in Nat /\ base <= end /\ end + 1 = RegionEnd(r)
  <2> DEFINE z == RegionEnd(r)
  <2>1. base \in Nat /\ base % PageSize = 0 /\ z \in Nat /\ base + PageSize <= z
    BY RegionBounds
  <2> HIDE DEF z, base
  <2>2. z - 1 \in Nat /\ base <= z - 1 /\ (z - 1) + 1 = z
    BY <2>1, Sizes
  <2> QED BY <2>1, <2>2 DEF z
<1> HIDE DEF r, base, end
<1>2. first \in Nat /\ last \in Nat /\ first <= last
  <2>1. base \in Nat /\ end \in Nat /\ base <= end
    BY <1>1
  <2> QED BY <2>1, Sizes, QuotientsInOrder
<1>3. ASSUME NEW p \in Pages
      PROVE  base <= p * PageSize /\ p * PageSize < RegionEnd(r) <=> p \in first .. last
  <2> DEFINE a == p * PageSize + 0
  <2>0. p \in Nat /\ PageSize \in Nat \ {0}
    BY Sizes
  <2>1. a \in Nat /\ a \div PageSize = p /\ a % PageSize = 0 /\ a = p * PageSize
    BY <2>0, FromParts
  <2> HIDE DEF a
  <2>2. base <= a <=> first <= p
    <3>1. base <= a <=> first < a \div PageSize
                          \/ (first = a \div PageSize /\ (base % PageSize) <= (a % PageSize))
      BY <1>1, <2>0, <2>1, OrderOfParts, Zenon
    <3>2. base <= a <=> first < p \/ (first = p /\ 0 <= 0)
      BY <1>1, <2>1, <3>1, Zenon
    <3> HIDE DEF first
    <3> QED BY <1>2, <2>0, <3>2
  <2>3. a <= end <=> p <= last
    <3>1. a <= end <=> a \div PageSize < last
                         \/ (a \div PageSize = last /\ (a % PageSize) <= (end % PageSize))
      BY <1>1, <2>0, <2>1, OrderOfParts, Zenon
    <3>2. a <= end <=> p < last \/ (p = last /\ 0 <= (end % PageSize))
      BY <2>1, <3>1, Zenon
    <3>3. 0 <= end % PageSize
      BY <1>1, Sizes, Division
    <3> HIDE DEF last
    <3> QED BY <1>2, <2>0, <3>2, <3>3
  <2>4. a < RegionEnd(r) <=> a <= end
    BY <1>1, <2>1
  <2> HIDE DEF first, last
  <2> QED BY <1>2, <2>0, <2>1, <2>2, <2>3, <2>4
<1> HIDE DEF first, last
<1>4. PagesIn(r) = Pages \cap (first .. last)
  BY <1>3 DEF PagesIn, base
<1> QED BY <1>2, <1>4 DEF first, last, r, base, end

\* The loop over the regions.
LEMMA RegionsCleared ==
  ASSUME NEW mmap \in Maps
  PROVE  ClearRegions(mmap) \in Bitmaps /\ Marked(ClearRegions(mmap)) = Pages \ Usable(mmap)
<1> DEFINE N == Len(mmap)
           filled == [i \in 0 .. bitmap_size - 1 |-> Bits]
           cleared[n \in 0 .. N] ==
             IF n = 0 THEN filled ELSE ClearRegion(cleared[n - 1], mmap[n])
           step == [p \in Bitmaps \X (1 .. N) |-> ClearRegion(p[1], mmap[p[2]])]
<1>1. N \in Nat
  BY BitmapAssumption DEF IsMap
<1>2. filled \in Bitmaps /\ Marked(filled) = Pages
  <2>1. \A p \in Pages : IsSet(filled, p)
    BY PartsOfPage DEF IsSet, ByteNumbers
  <2> QED BY <2>1 DEF Bitmaps, ByteNumbers, Marked
<1>3. ASSUME NEW bm \in Bitmaps, NEW n \in 1 .. N
      PROVE  /\ ClearRegion(bm, mmap[n]) \in Bitmaps
             /\ Marked(ClearRegion(bm, mmap[n])) = Marked(bm) \ PagesIn(mmap[n])
  <2> DEFINE first == mmap[n].base \div PageSize
             last == (RegionEnd(mmap[n]) - 1) \div PageSize
  <2>1. /\ first \in Nat /\ last \in Nat /\ first <= last
        /\ PagesIn(mmap[n]) = Pages \cap (first .. last)
    BY RegionPages
  <2>2. ClearRegion(bm, mmap[n]) = clear(bm, first, last)
    BY DEF ClearRegion
  <2> HIDE DEF first, last
  <2>3. Marked(bm) \subseteq Pages
    BY DEF Marked
  <2> QED BY <2>1, <2>2, <2>3, Clear
<1>4. PICK w : IsRecursion(w, N, Bitmaps, filled, step)
  <2>1. step \in [Bitmaps \X (1 .. N) -> Bitmaps]
    <3> HIDE DEF N
    <3> QED BY <1>3
  <2> HIDE DEF step, filled, N
  <2> QED BY <1>1, <1>2, <2>1, Recursion
<1>5. ASSUME NEW n \in 1 .. N
      PROVE  n - 1 \in 0 .. N /\ w[n - 1] \in Bitmaps /\ w[n] = ClearRegion(w[n - 1], mmap[n])
  <2> HIDE DEF N, filled
  <2>1. n - 1 \in 0 .. N
    BY <1>1
  <2> QED BY <1>4, <2>1 DEF IsRecursion
<1>6. w = [n \in 0 .. N |-> IF n = 0 THEN filled ELSE ClearRegion(w[n - 1], mmap[n])]
  <2> HIDE DEF N, filled, step
  <2>1. \A n \in 0 .. N : n # 0 => n \in 1 .. N
    BY <1>1
  <2> QED BY <1>4, <1>5, <2>1 DEF IsRecursion
<1>7. /\ cleared = [n \in 0 .. N |->
                      IF n = 0 THEN filled ELSE ClearRegion(cleared[n - 1], mmap[n])]
      /\ ClearRegions(mmap) = cleared[N]
  BY <1>6 DEF ClearRegions
<1> HIDE DEF cleared, step, filled
<1> DEFINE Below(n) == UNION {PagesIn(mmap[i]) : i \in 1 .. n}
           T == {n \in Nat : n <= N => /\ cleared[n] \in Bitmaps
                                       /\ Marked(cleared[n]) = Pages \ Below(n)}
<1>8. 0 \in T
  <2>1. cleared[0] = filled
    BY <1>1, <1>7
  <2>2. Below(0) = {}
    OBVIOUS
  <2> HIDE DEF Below
  <2> QED BY <1>2, <2>1, <2>2
<1>9. ASSUME NEW n \in Nat, n \in T
      PROVE  n + 1 \in T
  <2> SUFFICES ASSUME n + 1 <= N
               PROVE  /\ cleared[n + 1] \in Bitmaps
                      /\ Marked(cleared[n + 1]) = Pages \ Below(n + 1)
    OBVIOUS
  <2> DEFINE k == n + 1
  <2>1. k \in 1 .. N /\ k \in 0 .. N /\ k # 0 /\ k - 1 = n /\ n <= N
    BY <1>1
  <2>2. cleared[n] \in Bitmaps /\ Marked(cleared[n]) = Pages \ Below(n)
    BY <1>9, <2>1
  <2>3. Below(k) = Below(n) \cup PagesIn(mmap[k])
    <3>1. 1 .. k = (1 .. n) \cup {k}
      OBVIOUS
    <3> HIDE DEF k
    <3> QED BY <3>1
  <2> HIDE DEF k, N, Below
  <2>4. cleared[k] = ClearRegion(cleared[n], mmap[k])
    BY <1>7, <2>1
  <2>5. cleared[k] \in Bitmaps /\ Marked(cleared[k]) = Pages \ Below(k)
    BY <1>3, <2>1, <2>2, <2>3, <2>4
  <2> QED BY <2>5 DEF k
<1>10. cleared[N] \in Bitmaps /\ Marked(cleared[N]) = Pages \ Below(N)
  <2>1. Nat \subseteq T
    <3> HIDE DEF T
    <3> QED BY <1>8, <1>9, Induction
  <2> HIDE DEF N, Below
  <2> QED BY <1>1, <2>1
<1>11. Pages \ Below(N) = Pages \ Usable(mmap)
  <2>1. DOMAIN mmap = 1 .. N
    BY BitmapAssumption DEF IsMap
  <2> HIDE DEF N
  <2> QED BY <2>1 DEF Usable, PagesIn
<1> QED BY <1>7, <1>10, <1>11

\* The stack's pages, those the pointer's own page belongs to.
LEMMA StackMarked ==
  ASSUME NEW bm \in Bitmaps, NEW rsp \in StackAts
  PROVE  /\ MarkStack(bm, rsp) \in Bitmaps
         /\ Marked(MarkStack(bm, rsp)) = Marked(bm) \cup Touching(rsp - StackSize, rsp)
<1> DEFINE low == rsp - StackSize  first == low \div PageSize  last == rsp \div PageSize
<1>1. rsp \in Nat /\ low \in Nat /\ low <= rsp
  BY BitmapAssumption
<1> HIDE DEF low
<1>2. first \in Nat /\ last \in Nat /\ first <= last
  BY <1>1, Sizes, QuotientsInOrder
<1>3. Touching(low, rsp) = Pages \cap (first .. last)
  BY <1>1, PagesTouched
<1>4. (first * PageSize) \div PageSize = first
  <2>1. (first * PageSize + 0) \div PageSize = first /\ first * PageSize + 0 = first * PageSize
    <3> HIDE DEF first
    <3> QED BY <1>2, Sizes, FromParts
  <2> QED BY <2>1
<1>5. ((((rsp + PageSize) \div PageSize) * PageSize) - 1) \div PageSize = last
  <2> DEFINE r == rsp % PageSize
  <2>1. rsp = PageSize * last + r /\ r \in Nat /\ r < PageSize
    BY <1>1, Sizes, Division
  <2> HIDE DEF r, last
  <2>2. rsp + PageSize = (last + 1) * PageSize + r
    BY <1>2, <2>1, Sizes
  <2>3. (rsp + PageSize) \div PageSize = last + 1
    <3>1. last + 1 \in Nat /\ PageSize \in Nat \ {0}
      BY <1>2, Sizes
    <3>2. ((last + 1) * PageSize + r) \div PageSize = last + 1
      BY <2>1, <3>1, FromParts
    <3> QED BY <2>2, <3>2
  <2>4. ((last + 1) * PageSize) - 1 = last * PageSize + (PageSize - 1)
    BY <1>2, Sizes
  <2>5. (last * PageSize + (PageSize - 1)) \div PageSize = last
    <3> DEFINE s == PageSize - 1
    <3>1. s \in Nat /\ s < PageSize /\ PageSize \in Nat \ {0}
      BY Sizes
    <3> HIDE DEF s
    <3>2. (last * PageSize + s) \div PageSize = last
      BY <1>2, <3>1, FromParts
    <3> QED BY <3>2 DEF s
  <2> QED BY <2>3, <2>4, <2>5
<1>6. MarkStack(bm, rsp) = mark_used(bm, first, last)
  BY <1>4, <1>5 DEF MarkStack, low
<1> HIDE DEF first, last
<1>7. /\ MarkStack(bm, rsp) \in Bitmaps
      /\ Marked(MarkStack(bm, rsp)) = Marked(bm) \cup Touching(low, rsp)
  BY <1>2, <1>3, <1>6, MarkUsed
<1> QED BY <1>7 DEF low

\* The largest of a few numbers.
LEMMA GreatestIs ==
  ASSUME NEW n \in Nat, NEW T, T \subseteq 1 .. n, T # {}
  PROVE  Max(T) \in T /\ \A k \in T : k <= Max(T)
<1> DEFINE U == {m \in Nat : \E k \in T : m + k = n}
<1>1. U \subseteq Nat /\ U # {}
  <2>1. PICK k \in T : TRUE
    OBVIOUS
  <2>2. n - k \in U
    OBVIOUS
  <2> QED BY <2>2
<1>2. PICK m \in U : \A l \in U : m <= l
  <2> HIDE DEF U
  <2> QED BY <1>1, LeastNumber
<1>3. PICK k \in T : m + k = n
  OBVIOUS
<1>4. ASSUME NEW j \in T
      PROVE  j <= k
  <2>1. n - j \in U
    OBVIOUS
  <2> QED BY <1>2, <1>3, <2>1
<1> QED BY <1>4 DEF Max

\* The bitmap lies at an address, and is not empty.
LEMMA BitmapPlace ==
  ASSUME NEW mmap \in Maps
  PROVE  BitmapAt(mmap) \in Nat /\ bitmap_size \in Nat \ {0}
<1>1. bitmap_size \in Nat \ {0}
  <2>1. bitmap_size # 0
    BY Sizes
  <2> QED BY <2>1, Sizes
<1> DEFINE roomy == {i \in DOMAIN mmap : mmap[i].page_count * PageSize > bitmap_size}
<1>2. CASE roomy = {}
  <2>1. BitmapAt(mmap) = 0
    BY <1>2 DEF BitmapAt
  <2> QED BY <1>1, <2>1
<1>3. CASE roomy # {}
  <2>1. DOMAIN mmap = 1 .. Len(mmap) /\ Len(mmap) \in Nat
    BY BitmapAssumption DEF IsMap
  <2>2. roomy \subseteq 1 .. Len(mmap)
    BY <2>1
  <2> DEFINE k == Max(roomy)
  <2>3. k \in roomy
    <3> HIDE DEF roomy
    <3> QED BY <1>3, <2>1, <2>2, GreatestIs
  <2>4. BitmapAt(mmap) = RegionEnd(mmap[k]) - bitmap_size
    BY <1>3 DEF BitmapAt
  <2> HIDE DEF k
  <2>5. k \in 1 .. Len(mmap) /\ mmap[k].page_count * PageSize > bitmap_size
    BY <2>2, <2>3
  <2> DEFINE c == mmap[k].page_count * PageSize  b == mmap[k].base
  <2>6. b \in Nat /\ c \in Nat /\ RegionEnd(mmap[k]) = b + c
    <3>1. b \in Nat /\ mmap[k].page_count \in Nat
      BY <2>5, RegionBounds
    <3>2. c \in Nat
      BY <3>1, Sizes
    <3> QED BY <3>1, <3>2 DEF RegionEnd
  <2>7. c > bitmap_size
    BY <2>5
  <2> HIDE DEF c, b
  <2> QED BY <1>1, <2>4, <2>6, <2>7
<1> QED BY <1>1, <1>2, <1>3

\* What pmm_init leaves marked.
LEMMA InitMarks ==
  ASSUME NEW b \in [mmap : Maps, own_size : OwnSizes, rsp : StackAts]
  PROVE  /\ pmm_init(b) \in Bitmaps
         /\ Marked(pmm_init(b)) = (Pages \ Usable(b.mmap)) \cup Reserved(b)
<1> DEFINE regions == ClearRegions(b.mmap)
           kernel == MarkBytes(regions, KernelAt, b.own_size)
           own == MarkBytes(kernel, BitmapAt(b.mmap), bitmap_size)
<1>1. b.mmap \in Maps /\ b.own_size \in Nat \ {0} /\ KernelAt \in Nat /\ b.rsp \in StackAts
  BY BitmapAssumption
<1>2. regions \in Bitmaps /\ Marked(regions) = Pages \ Usable(b.mmap)
  BY <1>1, RegionsCleared
<1> HIDE DEF regions
<1>3. /\ kernel \in Bitmaps
      /\ Marked(kernel) = Marked(regions) \cup Touching(KernelAt, KernelAt + b.own_size - 1)
  BY <1>1, <1>2, MarkedBytes
<1> HIDE DEF kernel
<1>4. /\ own \in Bitmaps
      /\ Marked(own) = Marked(kernel)
           \cup Touching(BitmapAt(b.mmap), BitmapAt(b.mmap) + bitmap_size - 1)
  BY <1>1, <1>3, BitmapPlace, MarkedBytes
<1> HIDE DEF own
<1>5. /\ MarkStack(own, b.rsp) \in Bitmaps
      /\ Marked(MarkStack(own, b.rsp)) = Marked(own) \cup Touching(b.rsp - StackSize, b.rsp)
  BY <1>1, <1>4, StackMarked
<1>6. pmm_init(b) = MarkStack(own, b.rsp)
  BY DEF pmm_init, own, kernel, regions
<1> QED BY <1>2, <1>3, <1>4, <1>5, <1>6 DEF Reserved

LEMMA BitmapInitImplements == BitmapInit => Init /\ bitmap \in Bitmaps
<1> SUFFICES ASSUME BitmapInit
             PROVE  Init /\ bitmap \in Bitmaps
  OBVIOUS
<1>1. bitmap \in Bitmaps /\ used = (Pages \ usable) \cup reserved
  BY InitMarks DEF BitmapInit
<1>2. usable \in SUBSET Pages /\ reserved \in SUBSET Pages
  BY DEF BitmapInit, Usable, Reserved, Touching
<1> QED BY <1>1, <1>2 DEF BitmapInit, Init

------------------------------------------------------------------------------
(* The bit scans *)

\* Setting and clearing the bits of a run of pages.
LEMMA RunSet ==
  ASSUME bitmap \in Bitmaps, NEW at, NEW count
  PROVE  /\ SetRun(at, count) \in Bitmaps
         /\ Marked(SetRun(at, count)) = Marked(bitmap) \cup (Pages \cap Run(at, count))
<1> DEFINE g == SetRun(at, count)
<1>1. /\ g \in Bitmaps
      /\ \A b \in ByteNumbers :
           g[b] = bitmap[b] \cup {i \in Bits : b * ByteBits + i \in Run(at, count)}
  BY DEF SetRun, Bitmaps, Run
<1> HIDE DEF g
<1>2. ASSUME NEW p \in Pages
      PROVE  IsSet(g, p) <=> IsSet(bitmap, p) \/ p \in Run(at, count)
  <2> DEFINE b == p \div ByteBits  i == p % ByteBits
  <2>1. b \in ByteNumbers /\ i \in Bits /\ b * ByteBits + i = p
    BY PartsOfPage
  <2> HIDE DEF b, i
  <2>2. i \in g[b] <=> i \in bitmap[b] \/ p \in Run(at, count)
    BY <1>1, <2>1
  <2> QED BY <2>2 DEF IsSet, b, i
<1>3. Marked(g) = Marked(bitmap) \cup (Pages \cap Run(at, count))
  BY <1>2 DEF Marked
<1> QED BY <1>1, <1>3 DEF g

LEMMA RunCleared ==
  ASSUME bitmap \in Bitmaps, NEW e,
         bitmap' = [b \in DOMAIN bitmap |->
                      bitmap[b] \ {i \in Bits : b * ByteBits + i \in BitsOf(e)}]
  PROVE  bitmap' \in Bitmaps /\ Marked(bitmap') = Marked(bitmap) \ BitsOf(e)
<1>1. /\ bitmap' \in Bitmaps
      /\ \A b \in ByteNumbers :
           bitmap'[b] = bitmap[b] \ {i \in Bits : b * ByteBits + i \in BitsOf(e)}
  BY DEF Bitmaps
<1>2. ASSUME NEW p \in Pages
      PROVE  IsSet(bitmap', p) <=> IsSet(bitmap, p) /\ p \notin BitsOf(e)
  <2> DEFINE b == p \div ByteBits  i == p % ByteBits
  <2>1. b \in ByteNumbers /\ i \in Bits /\ b * ByteBits + i = p
    BY PartsOfPage
  <2> HIDE DEF b, i
  <2>2. i \in bitmap'[b] <=> i \in bitmap[b] /\ p \notin BitsOf(e)
    BY <1>1, <2>1
  <2> QED BY <2>2 DEF IsSet, b, i
<1>3. Marked(bitmap') = Marked(bitmap) \ BitsOf(e)
  BY <1>2 DEF Marked
<1> QED BY <1>1, <1>3

\* alloc_pages' counter goes up by one at a clear bit, and to 0 at a set one.
LEMMA Counter ==
  ASSUME NEW p \in Pages
  PROVE  /\ consecutive(p) \in Nat
         /\ IsSet(bitmap, p) => consecutive(p) = 0
         /\ ~IsSet(bitmap, p) =>
              consecutive(p) = IF p = 0 THEN 1 ELSE consecutive(p - 1) + 1
<1> DEFINE n[k \in 0 .. NPages] ==
             IF k = 0 \/ IsSet(bitmap, k - 1) THEN 0 ELSE n[k - 1] + 1
           step == [q \in Nat \X (1 .. NPages) |->
                      IF IsSet(bitmap, q[2] - 1) THEN 0 ELSE q[1] + 1]
<1>1. NPages \in Nat
  BY PageAssumption
<1>2. PICK w : IsRecursion(w, NPages, Nat, 0, step)
  <2>1. step \in [Nat \X (1 .. NPages) -> Nat]
    OBVIOUS
  <2> HIDE DEF step
  <2> QED BY <1>1, <2>1, Recursion
<1>3. ASSUME NEW k \in 1 .. NPages
      PROVE  /\ w[k - 1] \in Nat
             /\ w[k] = IF IsSet(bitmap, k - 1) THEN 0 ELSE w[k - 1] + 1
  <2>1. k - 1 \in 0 .. NPages
    BY <1>1
  <2>2. w[k - 1] \in Nat /\ w[k] = step[<<w[k - 1], k>>]
    BY <1>2, <2>1 DEF IsRecursion
  <2> QED BY <2>2
<1> HIDE DEF step
<1>4. w = [k \in 0 .. NPages |-> IF k = 0 \/ IsSet(bitmap, k - 1) THEN 0 ELSE w[k - 1] + 1]
  <2>1. \A k \in 0 .. NPages : k # 0 => k \in 1 .. NPages
    BY <1>1
  <2> QED BY <1>2, <1>3, <2>1 DEF IsRecursion
<1>5. n = [k \in 0 .. NPages |-> IF k = 0 \/ IsSet(bitmap, k - 1) THEN 0 ELSE n[k - 1] + 1]
  BY <1>4
<1>11. consecutive(p) = n[p + 1] /\ consecutive(p - 1) = n[(p - 1) + 1]
  BY DEF consecutive
<1> HIDE DEF n
<1>12. n[0] = 0
  <2>1. 0 \in 0 .. NPages
    BY <1>1
  <2> QED BY <1>5, <2>1
<1>13. ASSUME NEW k \in 0 .. NPages, k # 0
       PROVE  n[k] = IF IsSet(bitmap, k - 1) THEN 0 ELSE n[k - 1] + 1
  BY <1>5, <1>13
<1> DEFINE T == {k \in Nat : k <= NPages => n[k] \in Nat}
<1>6. Nat \subseteq T
  <2>1. 0 \in T
    BY <1>12
  <2>2. ASSUME NEW k \in Nat, k \in T
        PROVE  k + 1 \in T
    <3> SUFFICES ASSUME k + 1 <= NPages
                 PROVE  n[k + 1] \in Nat
      OBVIOUS
    <3> DEFINE m == k + 1
    <3>1. m \in 0 .. NPages /\ m # 0 /\ m - 1 = k /\ n[k] \in Nat
      BY <1>1, <2>2
    <3> HIDE DEF m
    <3>2. n[m] \in Nat
      BY <1>13, <3>1
    <3> QED BY <3>2 DEF m
  <2> HIDE DEF T
  <2> QED BY <2>1, <2>2, Induction
<1>7. p \in Nat /\ p + 1 \in 0 .. NPages /\ p + 1 # 0 /\ (p + 1) - 1 = p
  BY <1>1 DEF Pages
<1>8. n[p] \in Nat /\ n[p + 1] = IF IsSet(bitmap, p) THEN 0 ELSE n[p] + 1
  <2> DEFINE m == p + 1
  <2>1. m \in 0 .. NPages /\ m # 0 /\ m - 1 = p /\ p <= NPages
    BY <1>1, <1>7
  <2>2. n[p] \in Nat
    BY <1>6, <1>7, <2>1
  <2> HIDE DEF m
  <2>3. n[m] = IF IsSet(bitmap, p) THEN 0 ELSE n[p] + 1
    BY <1>13, <2>1
  <2> QED BY <2>2, <2>3 DEF m
<1>9. p = 0 => n[p] = 0
  BY <1>12
<1>10. consecutive(p - 1) = n[p]
  <2>1. (p - 1) + 1 = p
    BY <1>7
  <2> QED BY <1>11, <2>1
<1> HIDE DEF T
<1> DEFINE c == consecutive(p)  d == consecutive(p - 1)  m == n[p]
<1>14. c = n[p + 1] /\ d = m
  BY <1>10, <1>11
<1> HIDE DEF c, d
<1>15. /\ c \in Nat /\ (IsSet(bitmap, p) => c = 0)
       /\ ~IsSet(bitmap, p) => c = IF p = 0 THEN 1 ELSE d + 1
  BY <1>8, <1>9, <1>14
<1> QED BY <1>15 DEF c, d

\* The m pages up to p are clear, and the one before them is not.
RowOf(p, m) ==
  /\ m \in Nat /\ m <= p + 1
  /\ \A q \in p - m + 1 .. p : ~IsSet(bitmap, q)
  /\ m <= p => IsSet(bitmap, p - m)

LEMMA CounterIsRow ==
  ASSUME NEW p \in Pages
  PROVE  RowOf(p, consecutive(p))
<1> DEFINE T == {k \in Nat : k \in Pages => RowOf(k, consecutive(k))}
<1>1. 0 \in T
  <2> SUFFICES ASSUME 0 \in Pages
               PROVE  RowOf(0, consecutive(0))
    OBVIOUS
  <2>1. CASE IsSet(bitmap, 0)
    <3>1. consecutive(0) = 0
      BY <2>1, Counter
    <3> QED BY <2>1, <3>1 DEF RowOf
  <2>2. CASE ~IsSet(bitmap, 0)
    <3>1. consecutive(0) = 1
      BY <2>2, Counter
    <3> QED BY <2>2, <3>1 DEF RowOf
  <2> QED BY <2>1, <2>2
<1>2. ASSUME NEW k \in Nat, k \in T
      PROVE  k + 1 \in T
  <2> DEFINE j == k + 1
  <2> SUFFICES ASSUME j \in Pages
               PROVE  RowOf(j, consecutive(j))
    OBVIOUS
  <2>1. j \in Nat /\ j # 0 /\ j - 1 = k /\ j = k + 1
    OBVIOUS
  <2>2. k \in Pages
    BY PageAssumption DEF Pages
  <2> HIDE DEF j
  <2>3. CASE IsSet(bitmap, j)
    <3>1. consecutive(j) = 0
      BY <2>3, Counter
    <3> QED BY <2>1, <2>3, <3>1 DEF RowOf
  <2>4. CASE ~IsSet(bitmap, j)
    <3> DEFINE m == consecutive(k)
    <3>1. RowOf(k, m)
      BY <1>2, <2>2
    <3>2. consecutive(j) = m + 1
      BY <2>1, <2>4, Counter
    <3> HIDE DEF m
    <3>3. m \in Nat /\ m + 1 <= j + 1 /\ j - (m + 1) = k - m /\ (m + 1 <= j => m <= k)
      BY <2>1, <3>1 DEF RowOf
    <3>4. ASSUME NEW q \in j - (m + 1) + 1 .. j
          PROVE  ~IsSet(bitmap, q)
      <4>1. q = j \/ q \in k - m + 1 .. k
        BY <2>1, <3>3
      <4> QED BY <2>4, <3>1, <4>1 DEF RowOf
    <3>5. RowOf(j, m + 1)
      BY <3>1, <3>3, <3>4 DEF RowOf
    <3> QED BY <3>2, <3>5
  <2> QED BY <2>3, <2>4
<1>3. Nat \subseteq T
  <2> HIDE DEF T
  <2> QED BY <1>1, <1>2, Induction
<1> QED BY <1>3, Sizes

\* A row has one length.
LEMMA OneRow ==
  ASSUME NEW p \in Nat, NEW m, NEW l, RowOf(p, m), RowOf(p, l)
  PROVE  m = l
<1> SUFFICES ASSUME NEW a \in Nat, NEW b \in Nat, RowOf(p, a), RowOf(p, b), a < b
             PROVE  FALSE
  BY DEF RowOf
<1>1. a <= p /\ p - a \in p - b + 1 .. p
  BY DEF RowOf
<1> QED BY <1>1 DEF RowOf

\* Where count pages in a row are free, the counter comes to count.
LEMMA FreeRunIsCounted ==
  ASSUME used = Marked(bitmap), NEW s \in Nat, NEW count \in Nat \ {0}, IsFree(s, count)
  PROVE  \E q \in Pages : q <= s + count - 1 /\ consecutive(q) = count
<1> DEFINE e == s + count - 1  m == consecutive(e)
<1>1. e \in Nat /\ e = s + count - 1 /\ e \in Run(s, count)
  BY DEF Run
<1>2. e \in Pages
  BY <1>1 DEF IsFree
<1>3. \A p \in s .. e : ~IsSet(bitmap, p)
  BY DEF IsFree, Run, Marked
<1> HIDE DEF e
<1>4. RowOf(e, m)
  BY <1>2, CounterIsRow
<1> HIDE DEF m
<1>5. m \in Nat /\ m >= count
  <2>1. m \in Nat
    BY <1>4 DEF RowOf
  <2>2. ASSUME m < count
        PROVE  FALSE
    <3>1. m <= e /\ e - m \in s .. e
      BY <1>1, <2>1, <2>2
    <3> QED BY <1>3, <1>4, <3>1 DEF RowOf
  <2> QED BY <2>1, <2>2
<1> DEFINE q == e - m + count
<1>6. q \in Nat /\ q <= e /\ count <= q + 1 /\ q - count = e - m
  BY <1>1, <1>4, <1>5 DEF RowOf
<1>7. q \in Pages
  <2> HIDE DEF q
  <2>1. e <= NPages - 1 /\ NPages \in Nat
    BY <1>2, PageAssumption DEF Pages
  <2> QED BY <1>1, <1>6, <2>1 DEF Pages
<1> HIDE DEF q
<1>8. RowOf(q, count)
  <2>1. \A r \in q - count + 1 .. q : r \in e - m + 1 .. e
    BY <1>1, <1>5, <1>6
  <2>2. count <= q => m <= e
    BY <1>1, <1>5, <1>6
  <2> QED BY <1>4, <1>6, <2>1, <2>2 DEF RowOf
<1>9. consecutive(q) = count
  BY <1>6, <1>7, <1>8, CounterIsRow, OneRow
<1> QED BY <1>1, <1>6, <1>7, <1>9

------------------------------------------------------------------------------
(* Each call is one of the page allocator's *)

LEMMA AllocatesRun ==
  ASSUME bitmap \in Bitmaps, used = Marked(bitmap), NEW at \in Pages,
         NEW count, FirstFreeRun(at, count), Allocates(at, count)
  PROVE  bitmap' \in Bitmaps /\ used' = Marked(bitmap') /\ Take(count)
<1>1. Run(at, count) \subseteq Pages
  BY DEF FirstFreeRun, IsFree
<1>2. bitmap' \in Bitmaps /\ used' = used \cup Run(at, count) /\ used' = Marked(bitmap')
  BY <1>1, RunSet DEF Allocates
<1>3. /\ asked' = count /\ ret' = at
      /\ IF ret' = NULL
           THEN lost' = lost \cup Run(at, count) /\ UNCHANGED held
           ELSE held' = held \cup {[at |-> at, len |-> count]} /\ UNCHANGED lost
      /\ UNCHANGED <<usable, reserved>>
  BY DEF Allocates, Returned, Fixed, Run
<1> QED BY <1>2, <1>3 DEF Take

\* alloc_page: the lowest clear bit of the first byte with any.
LEMMA AllocPageTakes ==
  ASSUME bitmap \in Bitmaps, used = Marked(bitmap), AllocPage
  PROVE  bitmap' \in Bitmaps /\ used' = Marked(bitmap') /\ Take(1)
<1>1. PICK b \in ByteNumbers :
        /\ bitmap[b] # Bits
        /\ \A c \in 0 .. b - 1 : bitmap[c] = Bits
        /\ Allocates(b * ByteBits + Min(Bits \ bitmap[b]), 1)
  BY DEF AllocPage, Bitmaps
<1> DEFINE i == Min(Bits \ bitmap[b])  at == b * ByteBits + i
<1>2. /\ i \in Bits /\ i \notin bitmap[b]
      /\ \A k \in Bits : k < i => k \in bitmap[b]
  <2> DEFINE S == Bits \ bitmap[b]
  <2>0. Bits \subseteq Nat /\ bitmap[b] \subseteq Bits /\ bitmap[b] # Bits
    BY <1>1, Sizes DEF Bits, Bitmaps
  <2>1. S \subseteq Nat /\ S # {}
    BY <2>0
  <2>2. Min(S) \in S /\ \A k \in S : Min(S) <= k
    <3> HIDE DEF S
    <3> QED BY <2>1, LeastNumber DEF Min
  <2>3. i \in S /\ \A k \in S : i <= k
    BY <2>2
  <2> HIDE DEF i
  <2>4. i \in Nat
    BY <2>1, <2>3
  <2>5. ASSUME NEW k \in Bits, k < i
        PROVE  k \in bitmap[b]
    <3>1. k \in Nat /\ ~(i <= k)
      BY <2>0, <2>4, <2>5
    <3> QED BY <2>3, <3>1
  <2> QED BY <2>3, <2>5
<1> HIDE DEF i
<1>3. at \in Pages /\ at \div ByteBits = b /\ at % ByteBits = i
  BY <1>1, <1>2, PageOfParts
<1> HIDE DEF at
<1>4. ~IsSet(bitmap, at)
  BY <1>2, <1>3 DEF IsSet
<1>5. ASSUME NEW s \in Pages, s < at
      PROVE  IsSet(bitmap, s)
  <2> DEFINE c == s \div ByteBits  k == s % ByteBits
  <2>1. c \in ByteNumbers /\ k \in Bits /\ s \in Nat /\ at \in Nat
    BY <1>3, PartsOfPage
  <2>2. c < b \/ (c = b /\ k < i)
    <3>1. s <= at /\ s # at
      BY <1>5, <2>1
    <3>2. c < b \/ (c = b /\ k <= i)
      <4>1. c < at \div ByteBits \/ (c = at \div ByteBits /\ k <= (at % ByteBits))
        BY <2>1, <3>1, Sizes, OrderOfParts
      <4> QED BY <1>3, <4>1
    <3>3. ~(c = b /\ k = i)
      BY <1>3, <2>1, <3>1, Sizes, SameParts
    <3>4. k \in Nat /\ i \in Nat
      BY <1>2, <2>1, Sizes DEF Bits
    <3> HIDE DEF c, k
    <3> QED BY <3>2, <3>3, <3>4
  <2> HIDE DEF c, k
  <2>3. CASE c < b
    <3>1. c \in 0 .. b - 1
      BY <1>1, <2>1, <2>3, Sizes DEF ByteNumbers
    <3>2. k \in bitmap[c]
      BY <1>1, <2>1, <3>1
    <3> QED BY <3>2 DEF IsSet, c, k
  <2>4. CASE c = b /\ k < i
    <3>1. k \in bitmap[c]
      BY <1>2, <2>1, <2>4
    <3> QED BY <3>1 DEF IsSet, c, k
  <2> QED BY <2>2, <2>3, <2>4
<1>6. FirstFreeRun(at, 1)
  <2>1. Run(at, 1) = {at}
    BY <1>3, Sizes DEF Run
  <2>2. IsFree(at, 1)
    BY <1>3, <1>4, <2>1 DEF IsFree, Marked
  <2>3. ASSUME NEW s \in 0 .. at - 1
        PROVE  ~IsFree(s, 1)
    <3>1. s \in Pages /\ s < at /\ s \in Run(s, 1)
      BY <1>3, Sizes DEF Pages, Run
    <3>2. s \in Marked(bitmap)
      BY <1>5, <3>1 DEF Marked
    <3> QED BY <3>1, <3>2 DEF IsFree
  <2> QED BY <2>2, <2>3 DEF FirstFreeRun
<1>7. Allocates(at, 1)
  BY <1>1 DEF at, i
<1> QED BY <1>3, <1>6, <1>7, AllocatesRun

LEMMA AllocPageFailsRightly ==
  ASSUME bitmap \in Bitmaps, used = Marked(bitmap), AllocPageFails
  PROVE  NoRoom(1)
<1>1. ASSUME NEW s \in Pages
      PROVE  ~IsFree(s, 1)
  <2>1. s \in Run(s, 1)
    BY Sizes DEF Run
  <2>2. IsSet(bitmap, s)
    BY PartsOfPage DEF AllocPageFails, IsSet, Bitmaps
  <2> QED BY <2>1, <2>2 DEF IsFree, Marked
<1> QED BY <1>1 DEF AllocPageFails, Refused, NoRoom, Fixed

\* alloc_pages: the run whose last page is the first where the counter is count.
LEMMA AllocPagesTakes ==
  ASSUME bitmap \in Bitmaps, used = Marked(bitmap), NEW count \in Counts, AllocPages(count)
  PROVE  bitmap' \in Bitmaps /\ used' = Marked(bitmap') /\ Take(count)
<1>0. count \in Nat \ {0}
  BY PageAssumption
<1>1. PICK page \in Pages :
        /\ consecutive(page) = count
        /\ \A p \in 0 .. page - 1 : consecutive(p) # count
        /\ Allocates(Start(page, count), count)
  BY DEF AllocPages
<1> DEFINE at == page - count + 1
<1>2. RowOf(page, count)
  BY <1>1, CounterIsRow
<1>3. page \in Nat /\ page < NPages /\ NPages \in Nat
  BY PageAssumption DEF Pages
<1>4. at \in Nat /\ at + count - 1 = page /\ at <= page
  BY <1>0, <1>2, <1>3 DEF RowOf
<1>5. at \in Pages
  BY <1>3, <1>4 DEF Pages
<1>6. \A q \in at .. page : ~IsSet(bitmap, q)
  BY <1>2 DEF RowOf
<1> HIDE DEF at
<1>7. IsFree(at, count)
  <2>1. Run(at, count) = at .. page
    BY <1>4 DEF Run
  <2>2. at .. page \subseteq Pages
    BY <1>3, <1>4 DEF Pages
  <2> QED BY <1>6, <2>1, <2>2 DEF IsFree, Marked
<1>8. ASSUME NEW s \in 0 .. at - 1, IsFree(s, count)
      PROVE  FALSE
  <2>1. s \in Nat /\ s + count - 1 < page
    BY <1>0, <1>4
  <2>2. PICK q \in Pages : q <= s + count - 1 /\ consecutive(q) = count
    BY <1>0, <1>8, <2>1, FreeRunIsCounted
  <2>3. q \in 0 .. page - 1
    BY <1>0, <1>3, <2>1, <2>2, Sizes
  <2> QED BY <1>1, <2>2, <2>3
<1>9. FirstFreeRun(at, count)
  BY <1>7, <1>8 DEF FirstFreeRun
<1>10. Allocates(at, count)
  BY <1>1 DEF at, Start
<1> QED BY <1>5, <1>9, <1>10, AllocatesRun

LEMMA AllocPagesFailsRightly ==
  ASSUME used = Marked(bitmap), NEW count \in Counts, AllocPagesFails(count)
  PROVE  NoRoom(count)
<1>1. ASSUME NEW s \in Pages, IsFree(s, count)
      PROVE  FALSE
  BY <1>1, Sizes, PageAssumption, FreeRunIsCounted DEF AllocPagesFails
<1> QED BY <1>1 DEF AllocPagesFails, Refused, NoRoom, Fixed

LEMMA FreePagesGivesBack ==
  ASSUME bitmap \in Bitmaps, used = Marked(bitmap), NEW e \in held, FreePages(e)
  PROVE  bitmap' \in Bitmaps /\ used' = Marked(bitmap') /\ GiveBack(e)
<1>1. bitmap' \in Bitmaps /\ Marked(bitmap') = used \ BitsOf(e) /\ used' = Marked(bitmap')
  BY RunCleared DEF FreePages
<1>2. BitsOf(e) = Cleared(e)
  BY DEF BitsOf, Cleared, Run
<1> QED BY <1>1, <1>2 DEF FreePages, GiveBack, Fixed

\* The bytes are what the set of used pages stands for.
BitmapInv == bitmap \in Bitmaps /\ used = Marked(bitmap)

LEMMA BitmapStep ==
  ASSUME BitmapInv, [BitmapNext]_bitmapVars
  PROVE  BitmapInv' /\ [Next]_vars
<1>1. CASE AllocPage
  <2>1. 1 \in Counts
    BY BitmapAssumption
  <2> QED BY <1>1, <2>1, AllocPageTakes DEF BitmapInv, Next
<1>2. CASE AllocPageFails
  <2>1. 1 \in Counts
    BY BitmapAssumption
  <2>2. NoRoom(1)
    BY <1>2, AllocPageFailsRightly DEF BitmapInv
  <2>3. BitmapInv'
    BY <1>2 DEF BitmapInv, AllocPageFails, Refused, Marked, IsSet
  <2> QED BY <2>1, <2>2, <2>3 DEF Next
<1>3. ASSUME NEW count \in Counts, AllocPages(count)
      PROVE  BitmapInv' /\ Next
  BY <1>3, AllocPagesTakes DEF BitmapInv, Next
<1>4. ASSUME NEW count \in Counts, AllocPagesFails(count)
      PROVE  BitmapInv' /\ Next
  <2>1. NoRoom(count)
    BY <1>4, AllocPagesFailsRightly DEF BitmapInv
  <2>2. BitmapInv'
    BY <1>4 DEF BitmapInv, AllocPagesFails, Refused, Marked, IsSet
  <2> QED BY <2>1, <2>2 DEF Next
<1>5. ASSUME NEW e \in held, FreePages(e)
      PROVE  BitmapInv' /\ Next
  BY <1>5, FreePagesGivesBack DEF BitmapInv, Next
<1>6. CASE UNCHANGED bitmapVars
  BY <1>6 DEF bitmapVars, vars, BitmapInv, Marked, IsSet
<1> QED BY <1>1, <1>2, <1>3, <1>4, <1>5, <1>6 DEF BitmapNext

LEMMA BitmapInitHolds == BitmapInit => Init /\ BitmapInv
<1> SUFFICES ASSUME BitmapInit
             PROVE  Init /\ BitmapInv
  OBVIOUS
<1> QED BY BitmapInitImplements DEF BitmapInv, BitmapInit

\* pmm_init's arithmetic on bytes and the bit scans are the page allocator over
\* sets of pages, for every memory map, kernel size and stack pointer.
THEOREM BitmapIsPageAllocator == BitmapSpec => ImplementsPageAllocator
BY BitmapInitHolds, BitmapStep, PTL DEF BitmapSpec, ImplementsPageAllocator, Spec

\* What holds of the page allocator holds of the bytes.
THEOREM BytesKeepThePromise ==
  BitmapSpec => []TypeOK /\ []HeldApart /\ []Accounted /\ ImplementsAllocator
BY BitmapIsPageAllocator, TypeCorrect, RunsApart, BitmapAccounts, PagesImplementAllocator, PTL
   DEF ImplementsPageAllocator
==============================================================================
