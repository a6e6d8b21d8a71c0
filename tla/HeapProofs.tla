----------------------------- MODULE HeapProofs -----------------------------
(***************************************************************************)
(* Proofs about Heap: for every heap size, header size, rounding and set   *)
(* of requests the headers always tile the heap, the free list stays in    *)
(* address order without two adjacent blocks, the heap recovers completely *)
(* once everything is freed, and the heap implements Allocator.            *)
(***************************************************************************)
EXTENDS Heap, SequenceTheorems, TLAPS

\* The inductive invariant: coalescing only looks at the neighbours in the
\* list, so that it keeps the tiling and reaches every adjacent free block
\* depends on the order, and the order of a split on the tiling.
IInv == TypeOK /\ Tiled /\ AddressOrdered /\ Coalesced

------------------------------------------------------------------------------
(* The list *)

\* What Relinked returns: the first k blocks, then mid, then the rest from m.
LEMMA RelinkedElements ==
  ASSUME free_list \in Seq(Addr), NEW mid \in Seq(Addr),
         NEW k \in 0 .. Len(free_list),
         NEW m \in (k + 1) .. (Len(free_list) + 1)
  PROVE  /\ Relinked(k, mid, m) \in Seq(Addr)
         /\ Len(Relinked(k, mid, m)) = k + Len(mid) + (Len(free_list) + 1 - m)
         /\ \A j \in 1 .. Len(Relinked(k, mid, m)) :
              Relinked(k, mid, m)[j] =
                IF j <= k THEN free_list[j]
                ELSE IF j <= k + Len(mid) THEN mid[j - k]
                ELSE free_list[j - k - Len(mid) + m - 1]
<1> DEFINE n == Len(free_list)
           pre == SubSeq(free_list, 1, k)
           post == SubSeq(free_list, m, n)
<1>8. Len(free_list) = n
  OBVIOUS
<1> HIDE DEF n
<1>1. n \in Nat /\ k \in Int /\ m \in Int /\ 0 <= k /\ k <= n /\ k < m /\ m <= n + 1
      /\ Len(mid) \in Nat
  BY <1>8, LenProperties
<1>2. \A j \in 1 .. n : free_list[j] \in Addr
  BY <1>8, ElementOfSeq
<1>3. /\ pre \in Seq(Addr) /\ Len(pre) = k
      /\ \A j \in 1 .. k : pre[j] = free_list[j]
  <2>1. \A j \in 1 .. k : free_list[j] \in Addr
    BY <1>1, <1>2
  <2>2. /\ pre \in Seq(Addr)
        /\ Len(pre) = IF 1 <= k THEN k - 1 + 1 ELSE 0
        /\ \A j \in 1 .. (k - 1 + 1) : pre[j] = free_list[1 + j - 1]
    BY <1>1, <2>1, SubSeqProperties
  <2> QED BY <1>1, <2>2
<1>4. /\ post \in Seq(Addr) /\ Len(post) = n + 1 - m
      /\ \A j \in 1 .. (n + 1 - m) : post[j] = free_list[m + j - 1]
  <2>1. \A j \in m .. n : free_list[j] \in Addr
    BY <1>1, <1>2
  <2>2. /\ post \in Seq(Addr)
        /\ Len(post) = IF m <= n THEN n - m + 1 ELSE 0
        /\ \A j \in 1 .. (n - m + 1) : post[j] = free_list[m + j - 1]
    BY <1>1, <2>1, SubSeqProperties
  <2> QED BY <1>1, <2>2
<1> HIDE DEF pre, post
<1>5. /\ pre \o mid \in Seq(Addr)
      /\ Len(pre \o mid) = k + Len(mid)
      /\ \A j \in 1 .. (k + Len(mid)) :
           (pre \o mid)[j] = IF j <= k THEN pre[j] ELSE mid[j - k]
  BY <1>3, ConcatProperties
<1> DEFINE both == pre \o mid
<1> HIDE DEF both
<1>6. /\ both \o post \in Seq(Addr)
      /\ Len(both \o post) = k + Len(mid) + (n + 1 - m)
      /\ \A j \in 1 .. (k + Len(mid) + (n + 1 - m)) :
           (both \o post)[j] = IF j <= k + Len(mid) THEN both[j]
                              ELSE post[j - (k + Len(mid))]
  <2>1. both \in Seq(Addr) /\ Len(both) = k + Len(mid)
    BY <1>5 DEF both
  <2>2. /\ both \o post \in Seq(Addr)
        /\ Len(both \o post) = Len(both) + Len(post)
        /\ \A j \in 1 .. (Len(both) + Len(post)) :
             (both \o post)[j] = IF j <= Len(both) THEN both[j]
                                ELSE post[j - Len(both)]
    <3>1. both \in Seq(Addr) /\ post \in Seq(Addr)
      BY <1>4, <2>1
    <3> QED BY ONLY <3>1, ConcatProperties
  <2> QED BY <1>4, <2>1, <2>2
<1>7. Relinked(k, mid, m) = both \o post
  BY <1>8 DEF Relinked, pre, post, n, both
<1>9. ASSUME NEW j \in 1 .. (k + Len(mid) + (n + 1 - m))
      PROVE  (both \o post)[j] =
                IF j <= k THEN free_list[j]
                ELSE IF j <= k + Len(mid) THEN mid[j - k]
                ELSE free_list[j - k - Len(mid) + m - 1]
  <2>1. CASE j <= k
    BY <1>1, <1>3, <1>5, <1>6, <2>1 DEF both
  <2>2. CASE k < j /\ j <= k + Len(mid)
    BY <1>1, <1>3, <1>5, <1>6, <2>2 DEF both
  <2>3. CASE k + Len(mid) < j
    <3>1. (both \o post)[j] = post[j - (k + Len(mid))]
      BY <1>1, <1>6, <2>3
    <3>2. /\ j - (k + Len(mid)) \in 1 .. (n + 1 - m)
          /\ m + (j - (k + Len(mid))) - 1 = j - k - Len(mid) + m - 1
          /\ ~(j <= k) /\ ~(j <= k + Len(mid))
      BY <1>1, <2>3
    <3> QED BY <1>4, <3>1, <3>2
  <2>4. j \in Int
    BY <1>1
  <2>5. \/ j <= k
        \/ k < j /\ j <= k + Len(mid)
        \/ k + Len(mid) < j
    BY <1>1, <2>4
  <2> QED BY <2>1, <2>2, <2>3, <2>5
<1> QED BY <1>6, <1>7, <1>8, <1>9

\* Putting at most one block between blocks it fits between keeps the order,
\* and drops exactly the blocks passed over.
LEMMA RelinkedInOrder ==
  ASSUME free_list \in Seq(Addr), AddressOrdered,
         NEW mid \in Seq(Addr), Len(mid) <= 1,
         NEW k \in 0 .. Len(free_list),
         NEW m \in (k + 1) .. (Len(free_list) + 1),
         \A j \in 1 .. Len(mid) :
           /\ \A i \in 1 .. k : free_list[i] < mid[j]
           /\ \A i \in m .. Len(free_list) : mid[j] < free_list[i],
         free_list' = Relinked(k, mid, m)
  PROVE  /\ free_list' \in Seq(Addr)
         /\ AddressOrdered'
         /\ FreeBlocks' =
              (FreeBlocks \ {free_list[i] : i \in (k + 1) .. (m - 1)})
                \cup {mid[j] : j \in 1 .. Len(mid)}
<1> DEFINE n == Len(free_list)
           l == Len(mid)
           t == Relinked(k, mid, m)
<1>1. /\ n \in Nat /\ k \in Int /\ m \in Int /\ 0 <= k /\ k <= n
      /\ k < m /\ m <= n + 1 /\ l \in Nat /\ l <= 1
      /\ DOMAIN free_list = 1 .. n
  BY LenProperties
<1>2. \A i \in 1 .. n : free_list[i] \in Int
  BY ElementOfSeq, HeapAssumption DEF Addr
<1>3. \A j \in 1 .. l : mid[j] \in Int
  BY ElementOfSeq, HeapAssumption DEF Addr
<1>4. /\ t \in Seq(Addr)
      /\ Len(t) = k + l + (n + 1 - m)
      /\ \A j \in 1 .. Len(t) :
           t[j] = IF j <= k THEN free_list[j]
                  ELSE IF j <= k + l THEN mid[j - k]
                  ELSE free_list[j - k - l + m - 1]
  BY RelinkedElements
<1> HIDE DEF t
<1>5. DOMAIN t = 1 .. (k + l + (n + 1 - m))
  BY <1>4, LenProperties
<1>6. \A i, j \in 1 .. n : i < j => free_list[i] < free_list[j]
  BY <1>1 DEF AddressOrdered
<1>7. \A j \in 1 .. l : /\ \A i \in 1 .. k : free_list[i] < mid[j]
                        /\ \A i \in m .. n : mid[j] < free_list[i]
  OBVIOUS
<1> HIDE DEF n, l
<1>8. \A i, j \in DOMAIN t : i < j => t[i] < t[j]
  <2> SUFFICES ASSUME NEW i \in DOMAIN t, NEW j \in DOMAIN t, i < j
               PROVE  t[i] < t[j]
    OBVIOUS
  <2>1. i \in Int /\ j \in Int /\ 1 <= i /\ j <= k + l + (n + 1 - m)
    BY <1>1, <1>5
  <2>2. CASE j <= k
    BY <1>1, <1>4, <1>5, <1>6, <2>1, <2>2
  <2>3. CASE i <= k /\ k < j /\ j <= k + l
    <3>1. t[i] = free_list[i] /\ i \in 1 .. k
      BY <1>1, <1>4, <1>5, <2>1, <2>3
    <3>2. t[j] = mid[j - k] /\ (j - k) \in 1 .. l
      BY <1>1, <1>4, <1>5, <2>1, <2>3
    <3> QED BY <1>7, <3>1, <3>2
  <2>4. CASE i <= k /\ k + l < j
    <3>1. t[i] = free_list[i] /\ i \in 1 .. n
      BY <1>1, <1>4, <1>5, <2>1, <2>4
    <3>2. /\ t[j] = free_list[j - k - l + m - 1]
          /\ (j - k - l + m - 1) \in 1 .. n
          /\ i < j - k - l + m - 1
      <4>1. ~(j <= k) /\ ~(j <= k + l) /\ j \in 1 .. Len(t)
        BY <1>1, <1>4, <1>5, <2>1, <2>4
      <4>2. t[j] = free_list[j - k - l + m - 1]
        BY <1>4, <4>1
      <4> QED BY <1>1, <2>1, <2>4, <4>2
    <3> QED BY <1>6, <3>1, <3>2
  <2>5. CASE k < i /\ i <= k + l
    <3>1. t[i] = mid[i - k] /\ (i - k) \in 1 .. l
      BY <1>1, <1>4, <1>5, <2>1, <2>5
    <3>2. /\ t[j] = free_list[j - k - l + m - 1]
          /\ (j - k - l + m - 1) \in m .. n
      <4>1. ~(j <= k) /\ ~(j <= k + l) /\ j \in 1 .. Len(t)
        BY <1>1, <1>4, <1>5, <2>1, <2>5
      <4>2. t[j] = free_list[j - k - l + m - 1]
        BY <1>4, <4>1
      <4> QED BY <1>1, <2>1, <2>5, <4>1, <4>2
    <3> QED BY <1>7, <3>1, <3>2
  <2>6. CASE k + l < i
    <3>1. /\ t[i] = free_list[i - k - l + m - 1]
          /\ (i - k - l + m - 1) \in 1 .. n
      BY <1>1, <1>4, <1>5, <2>1, <2>6
    <3>2. /\ t[j] = free_list[j - k - l + m - 1]
          /\ (j - k - l + m - 1) \in 1 .. n
      <4>1. ~(j <= k) /\ ~(j <= k + l) /\ j \in 1 .. Len(t)
        BY <1>1, <1>4, <1>5, <2>1, <2>6
      <4>2. t[j] = free_list[j - k - l + m - 1]
        BY <1>4, <4>1
      <4> QED BY <1>1, <2>1, <2>6, <4>2
    <3>3. i - k - l + m - 1 < j - k - l + m - 1
      BY <1>1, <2>1
    <3> QED BY <1>6, <3>1, <3>2, <3>3
  <2> QED BY <1>1, <2>1, <2>2, <2>3, <2>4, <2>5, <2>6
<1>9. {t[i] : i \in DOMAIN t} =
        (FreeBlocks \ {free_list[i] : i \in (k + 1) .. (m - 1)})
          \cup {mid[j] : j \in 1 .. l}
  <2> DEFINE gone == {free_list[i] : i \in (k + 1) .. (m - 1)}
             new == {mid[j] : j \in 1 .. l}
  <2>1. ASSUME NEW i \in DOMAIN t
        PROVE  t[i] \in (FreeBlocks \ gone) \cup new
    <3>1. i \in Int /\ 1 <= i /\ i <= k + l + (n + 1 - m)
      BY <1>1, <1>5
    <3>2. CASE i <= k
      <4>1. t[i] = free_list[i] /\ i \in 1 .. n
        BY <1>1, <1>4, <1>5, <3>1, <3>2
      <4>2. \A j \in (k + 1) .. (m - 1) : free_list[i] < free_list[j] /\ j \in 1 .. n
        BY <1>1, <1>6, <3>2, <4>1
      <4>3. \A j \in (k + 1) .. (m - 1) : free_list[i] # free_list[j]
        BY <1>2, <4>1, <4>2
      <4> QED BY <1>1, <4>1, <4>3 DEF FreeBlocks
    <3>3. CASE k < i /\ i <= k + l
      <4>1. t[i] = mid[i - k] /\ (i - k) \in 1 .. l
        BY <1>1, <1>4, <1>5, <3>1, <3>3
      <4> QED BY <4>1
    <3>4. CASE k + l < i
      <4> DEFINE p == i - k - l + m - 1
      <4>1. t[i] = free_list[p] /\ p \in m .. n /\ p \in 1 .. n
        BY <1>1, <1>4, <1>5, <3>1, <3>4
      <4> HIDE DEF p
      <4>2. \A j \in (k + 1) .. (m - 1) : free_list[j] < free_list[p] /\ j \in 1 .. n
        BY <1>1, <1>6, <4>1
      <4>3. \A j \in (k + 1) .. (m - 1) : free_list[p] # free_list[j]
        BY <1>2, <4>1, <4>2
      <4> QED BY <1>1, <4>1, <4>3 DEF FreeBlocks
    <3> QED BY <1>1, <3>1, <3>2, <3>3, <3>4
  <2>2. ASSUME NEW j \in 1 .. l
        PROVE  mid[j] \in {t[i] : i \in DOMAIN t}
    <3>1. k + j \in DOMAIN t /\ t[k + j] = mid[j]
      BY <1>1, <1>4, <1>5
    <3> QED BY <3>1
  <2>3. ASSUME NEW i \in 1 .. n, free_list[i] \notin gone
        PROVE  free_list[i] \in {t[j] : j \in DOMAIN t}
    <3>1. i <= k \/ m <= i
      BY <1>1, <2>3
    <3>2. CASE i <= k
      <4>1. i \in DOMAIN t /\ t[i] = free_list[i]
        BY <1>1, <1>4, <1>5, <3>2
      <4> QED BY <4>1
    <3>3. CASE m <= i
      <4>1. /\ i + k + l - m + 1 \in DOMAIN t
            /\ t[i + k + l - m + 1] = free_list[i]
        BY <1>1, <1>4, <1>5, <3>3
      <4> QED BY <4>1
    <3> QED BY <3>1, <3>2, <3>3
  <2> QED BY <1>1, <2>1, <2>2, <2>3 DEF FreeBlocks
<1>10. free_list' = t
  BY DEF t
<1> QED BY <1>4, <1>8, <1>9, <1>10 DEF l, AddressOrdered, FreeBlocks

------------------------------------------------------------------------------
(* The tiling *)

\* Blocks are integers with an end behind them inside the heap, and no two
\* blocks have the same end.
LEMMA BlockFacts ==
  ASSUME TypeOK, Tiled
  PROVE  /\ \A a \in DOMAIN size :
              /\ a \in Nat /\ size[a] \in Nat /\ a \in Addr
              /\ EndOf(a) = a + Header + size[a]
              /\ EndOf(a) \in Int /\ a < EndOf(a) /\ EndOf(a) <= HeapSize
         /\ \A a, c \in DOMAIN size : EndOf(a) = EndOf(c) => a = c
<1>1. ASSUME NEW a \in DOMAIN size
      PROVE  /\ a \in Nat /\ size[a] \in Nat /\ a \in Addr
             /\ EndOf(a) = a + Header + size[a]
             /\ EndOf(a) \in Int /\ a < EndOf(a) /\ EndOf(a) <= HeapSize
  <2>1. a \in Nat /\ size[a] \in Nat /\ a \in Addr
    BY HeapAssumption DEF TypeOK, Addr
  <2>2. EndOf(a) \in Int /\ a < EndOf(a)
    BY <2>1, HeapAssumption DEF EndOf
  <2>3. EndOf(a) <= HeapSize
    <3>1. EndOf(a) = HeapSize \/ EndOf(a) \in Addr
      BY DEF Tiled, TypeOK
    <3> QED BY <2>2, <3>1, HeapAssumption DEF Addr
  <2> QED BY <2>1, <2>2, <2>3 DEF EndOf
<1>2. ASSUME NEW a \in DOMAIN size, NEW c \in DOMAIN size, EndOf(a) = EndOf(c)
      PROVE  a = c
  <2>1. a < c => EndOf(a) <= c
    BY DEF Tiled
  <2>2. c < a => EndOf(c) <= a
    BY DEF Tiled
  <2> QED BY <1>1, <1>2, <2>1, <2>2
<1> QED BY <1>1, <1>2

\* Elements of the list are blocks.
LEMMA ListFacts ==
  ASSUME TypeOK, Tiled
  PROVE  /\ Len(free_list) \in Nat /\ DOMAIN free_list = 1 .. Len(free_list)
         /\ \A i \in 1 .. Len(free_list) :
              free_list[i] \in FreeBlocks /\ free_list[i] \in DOMAIN size
<1>1. /\ Len(free_list) \in Nat /\ DOMAIN free_list = 1 .. Len(free_list)
  BY LenProperties DEF TypeOK
<1>2. \A i \in 1 .. Len(free_list) : free_list[i] \in FreeBlocks
  BY <1>1 DEF FreeBlocks
<1> QED BY <1>1, <1>2 DEF Tiled

LEMMA RoundedIsNat ==
  ASSUME NEW req \in Requests
  PROVE  Rounded(req) \in Nat
<1> DEFINE up == ((req + Align - 1) \div Align)
<1>1. req \in Nat /\ Align \in Nat /\ Align > 0 /\ MinSize \in Nat
  BY HeapAssumption
<1>2. up \in Nat
  BY <1>1
<1> HIDE DEF up
<1>3. up * Align \in Int
  BY <1>1, <1>2
<1>4. Rounded(req) = IF up * Align < MinSize THEN MinSize ELSE up * Align
  BY DEF Rounded, up
<1> QED BY <1>1, <1>3, <1>4

------------------------------------------------------------------------------
(* What each action does to the set of blocks *)

LEMMA KmallocSplitEffect ==
  ASSUME IInv, NEW req \in Requests, KmallocSplit(req)
  PROVE  \E curr \in FreeBlocks, n \in Nat :
           LET nb == curr + Header + n IN
           /\ size[curr] >= n + Header
           /\ n = Rounded(req)
           /\ size' = [a \in DOMAIN size \cup {nb} |->
                         CASE a = curr -> n
                           [] a = nb -> size[curr] - Header - n
                           [] OTHER -> size[a]]
           /\ free_list' \in Seq(Addr)
           /\ AddressOrdered'
           /\ FreeBlocks' = (FreeBlocks \ {curr}) \cup {nb}
           /\ live' = live \cup {curr}
           /\ ret' = curr
<1> DEFINE n == Rounded(req)
<1>1. PICK i \in DOMAIN free_list :
        LET curr == free_list[i]
            nb == curr + Header + n
        IN /\ FirstFit(i, n)
           /\ Splits(curr, n)
           /\ size' = [a \in DOMAIN size \cup {nb} |->
                         CASE a = curr -> n
                           [] a = nb -> size[curr] - Header - n
                           [] OTHER -> size[a]]
           /\ free_list' = Relinked(i - 1, <<nb>>, i + 1)
           /\ live' = live \cup {curr}
           /\ ret' = curr
  BY DEF KmallocSplit
<1> DEFINE curr == free_list[i]
           nb == curr + Header + n
<1>2. n \in Nat
  BY RoundedIsNat
<1>3. curr \in FreeBlocks /\ curr \in DOMAIN size
  BY ListFacts, <1>1 DEF IInv
<1>4. size[curr] >= n + Header
  BY <1>1 DEF Splits
<1> HIDE DEF n
<1>5. /\ curr \in Nat /\ nb \in Nat /\ curr < nb /\ nb < EndOf(curr) /\ nb \in Addr
  <2>1. /\ curr \in Nat /\ size[curr] \in Nat /\ EndOf(curr) = curr + Header + size[curr]
        /\ EndOf(curr) <= HeapSize /\ Header \in Nat /\ Header > 0 /\ HeapSize \in Nat
    BY <1>3, BlockFacts, HeapAssumption DEF IInv
  <2> QED BY <1>2, <1>4, <2>1 DEF Addr
<1>6. /\ free_list \in Seq(Addr) /\ AddressOrdered
      /\ i \in 1 .. Len(free_list) /\ Len(free_list) \in Nat
  BY <1>1, ListFacts DEF IInv, TypeOK
<1>7. /\ \A j \in 1 .. (i - 1) : free_list[j] < nb
      /\ \A j \in (i + 1) .. Len(free_list) : nb < free_list[j]
  <2>1. ASSUME NEW j \in 1 .. (i - 1)
        PROVE  free_list[j] < nb
    <3>1. j \in 1 .. Len(free_list) /\ j < i
      BY <1>6
    <3>2. free_list[j] < curr /\ free_list[j] \in DOMAIN size
      BY <1>6, <3>1, ListFacts DEF AddressOrdered, IInv
    <3> QED BY <1>5, <3>2, BlockFacts DEF IInv
  <2>2. ASSUME NEW j \in (i + 1) .. Len(free_list)
        PROVE  nb < free_list[j]
    <3>1. j \in 1 .. Len(free_list) /\ i < j
      BY <1>6
    <3>2. curr < free_list[j] /\ free_list[j] \in DOMAIN size
      BY <1>6, <3>1, ListFacts DEF AddressOrdered, IInv
    <3>3. EndOf(curr) <= free_list[j]
      BY <1>3, <3>2 DEF IInv, Tiled
    <3> QED BY <1>3, <1>5, <3>2, <3>3, BlockFacts DEF IInv
  <2> QED BY <2>1, <2>2
<1>8. /\ free_list' \in Seq(Addr)
      /\ AddressOrdered'
      /\ FreeBlocks' =
           (FreeBlocks \ {free_list[p] : p \in ((i - 1) + 1) .. ((i + 1) - 1)})
             \cup {<<nb>>[j] : j \in 1 .. Len(<<nb>>)}
  <2> DEFINE mid == <<nb>>
             k == i - 1
             m == i + 1
  <2>1. /\ mid \in Seq(Addr) /\ Len(mid) <= 1
        /\ k \in 0 .. Len(free_list) /\ m \in (k + 1) .. (Len(free_list) + 1)
        /\ free_list' = Relinked(k, mid, m)
    BY <1>1, <1>5, <1>6
  <2>2. \A j \in 1 .. Len(mid) :
          /\ \A p \in 1 .. k : free_list[p] < mid[j]
          /\ \A p \in m .. Len(free_list) : mid[j] < free_list[p]
    BY <1>7
  <2> HIDE DEF mid, k, m
  <2>3. /\ free_list' \in Seq(Addr)
        /\ AddressOrdered'
        /\ FreeBlocks' =
             (FreeBlocks \ {free_list[p] : p \in (k + 1) .. (m - 1)})
               \cup {mid[j] : j \in 1 .. Len(mid)}
    BY <1>6, <2>1, <2>2, RelinkedInOrder
  <2> QED BY <2>3 DEF mid, k, m
<1>9. /\ {free_list[p] : p \in ((i - 1) + 1) .. ((i + 1) - 1)} = {curr}
      /\ {<<nb>>[j] : j \in 1 .. Len(<<nb>>)} = {nb}
  BY <1>6
<1>10. FreeBlocks' = (FreeBlocks \ {curr}) \cup {nb} /\ AddressOrdered'
  BY <1>8, <1>9
<1> QED BY <1>1, <1>2, <1>3, <1>4, <1>8, <1>10 DEF n

LEMMA KmallocWholeEffect ==
  ASSUME IInv, NEW req \in Requests, KmallocWhole(req)
  PROVE  \E curr \in FreeBlocks :
           /\ size[curr] >= Rounded(req)
           /\ size' = size
           /\ free_list' \in Seq(Addr)
           /\ AddressOrdered'
           /\ FreeBlocks' = FreeBlocks \ {curr}
           /\ live' = live \cup {curr}
           /\ ret' = curr
<1>1. PICK i \in DOMAIN free_list :
           /\ FirstFit(i, Rounded(req))
           /\ free_list' = Relinked(i - 1, <<>>, i + 1)
           /\ live' = live \cup {free_list[i]}
           /\ ret' = free_list[i]
           /\ size' = size
  BY DEF KmallocWhole, Unlinked
<1> DEFINE curr == free_list[i]
<1>2. curr \in FreeBlocks /\ curr \in DOMAIN size /\ size[curr] >= Rounded(req)
  BY ListFacts, <1>1 DEF IInv, FirstFit
<1>3. /\ free_list \in Seq(Addr) /\ AddressOrdered
      /\ i \in 1 .. Len(free_list) /\ Len(free_list) \in Nat
  BY <1>1, ListFacts DEF IInv, TypeOK
<1>4. /\ free_list' \in Seq(Addr)
      /\ AddressOrdered'
      /\ FreeBlocks' = FreeBlocks \ {curr}
  <2> DEFINE mid == <<>>
             k == i - 1
             m == i + 1
  <2>1. /\ mid \in Seq(Addr) /\ Len(mid) = 0
        /\ k \in 0 .. Len(free_list) /\ m \in (k + 1) .. (Len(free_list) + 1)
        /\ free_list' = Relinked(k, mid, m)
    BY <1>1, <1>3
  <2>2. {free_list[p] : p \in (k + 1) .. (m - 1)} = {curr}
    BY <1>3
  <2> HIDE DEF mid, k, m
  <2>3. \A j \in 1 .. Len(mid) :
          /\ \A p \in 1 .. k : free_list[p] < mid[j]
          /\ \A p \in m .. Len(free_list) : mid[j] < free_list[p]
    BY <2>1
  <2>4. Len(mid) <= 1
    BY <2>1
  <2>5. /\ free_list' \in Seq(Addr)
        /\ AddressOrdered'
        /\ FreeBlocks' =
             (FreeBlocks \ {free_list[p] : p \in (k + 1) .. (m - 1)})
               \cup {mid[j] : j \in 1 .. Len(mid)}
    BY <1>3, <2>1, <2>3, <2>4, RelinkedInOrder
  <2>6. {mid[j] : j \in 1 .. Len(mid)} = {}
    BY <2>1
  <2> QED BY <2>2, <2>5, <2>6
<1> QED BY <1>1, <1>2, <1>4

\* Where the search loop of kfree stops: the only free block that can end at
\* b is the one before it in the list, the only one that can start at b's end
\* the one after it.
LEMMA KfreeNeighbours ==
  ASSUME IInv, NEW b \in live, NEW k \in 0 .. Len(free_list), InsertAfter(k, b)
  PROVE  /\ \A i \in 1 .. k : free_list[i] < b
         /\ \A i \in (k + 1) .. Len(free_list) : b < free_list[i]
         /\ \A a \in FreeBlocks : EndOf(a) = b => JoinsPrev(k, b) /\ a = free_list[k]
         /\ EndOf(b) \in FreeBlocks => JoinsNext(k, b)
<1>1. /\ Len(free_list) \in Nat /\ DOMAIN free_list = 1 .. Len(free_list)
      /\ \A i \in 1 .. Len(free_list) :
           free_list[i] \in FreeBlocks /\ free_list[i] \in DOMAIN size
  BY ListFacts DEF IInv
<1>2. b \in DOMAIN size /\ b \in Nat /\ EndOf(b) \in Int /\ b < EndOf(b)
  BY BlockFacts DEF IInv, TypeOK
<1>3. \A i \in 1 .. Len(free_list) :
        /\ free_list[i] \in Nat /\ EndOf(free_list[i]) \in Int
        /\ free_list[i] < EndOf(free_list[i])
  BY <1>1, BlockFacts DEF IInv
<1>4. \A i, j \in 1 .. Len(free_list) : i < j => free_list[i] < free_list[j]
  BY <1>1 DEF IInv, AddressOrdered
<1>5. \A a, c \in DOMAIN size : a < c => EndOf(a) <= c
  BY DEF IInv, Tiled
<1>6. \A i \in 1 .. k : free_list[i] < b
  BY DEF InsertAfter
<1>7. k < Len(free_list) => b < free_list[k + 1]
  BY <1>1, <1>2, <1>3 DEF InsertAfter
<1>8. ASSUME NEW i \in (k + 1) .. Len(free_list)
      PROVE  b < free_list[i]
  <2>1. k < Len(free_list) /\ k + 1 \in 1 .. Len(free_list)
         /\ i \in 1 .. Len(free_list) /\ (i = k + 1 \/ k + 1 < i)
    BY <1>1
  <2>2. CASE i = k + 1
    BY <1>7, <2>1, <2>2
  <2>3. CASE k + 1 < i
    <3>1. free_list[k + 1] < free_list[i] /\ b < free_list[k + 1]
      BY <1>4, <1>7, <2>1, <2>3
    <3> QED BY <1>2, <1>3, <2>1, <3>1
  <2> QED BY <2>1, <2>2, <2>3
<1>9. ASSUME NEW a \in FreeBlocks, EndOf(a) = b
      PROVE  JoinsPrev(k, b) /\ a = free_list[k]
  <2>1. PICK i \in 1 .. Len(free_list) : a = free_list[i]
    BY <1>1 DEF FreeBlocks
  <2>2. a < b /\ ~(b < a)
    BY <1>2, <1>3, <1>9, <2>1
  <2>3. i <= k
    BY <1>1, <1>8, <2>1, <2>2
  <2>4. k \in 1 .. Len(free_list) /\ k > 0
    BY <1>1, <2>3
  <2>5. i = k
    <3>1. SUFFICES ASSUME i < k PROVE FALSE
      BY <1>1, <2>3
    <3>2. EndOf(a) <= free_list[k]
      BY <1>1, <1>4, <1>5, <2>1, <2>4, <3>1
    <3>3. free_list[k] < b
      BY <1>6, <2>4
    <3> QED BY <1>2, <1>3, <1>9, <2>4, <3>2, <3>3
  <2> QED BY <1>9, <2>1, <2>4, <2>5 DEF JoinsPrev
<1>10. ASSUME EndOf(b) \in FreeBlocks
       PROVE  JoinsNext(k, b)
  <2>1. PICK i \in 1 .. Len(free_list) : EndOf(b) = free_list[i]
    BY <1>1, <1>10 DEF FreeBlocks
  <2>2. k < i
    <3>1. SUFFICES ASSUME i <= k PROVE FALSE
      BY <1>1
    <3>2. free_list[i] < b
      BY <1>1, <1>6, <3>1
    <3> QED BY <1>2, <2>1, <3>2
  <2>3. k < Len(free_list) /\ k + 1 \in 1 .. Len(free_list)
    BY <1>1, <2>2
  <2>4. i = k + 1
    <3>1. SUFFICES ASSUME k + 1 < i PROVE FALSE
      BY <1>1, <2>2
    <3>2. free_list[k + 1] < free_list[i]
      BY <1>4, <2>3, <3>1
    <3>3. EndOf(b) <= free_list[k + 1]
      BY <1>1, <1>2, <1>5, <1>7, <2>3
    <3> QED BY <1>2, <1>3, <2>1, <2>3, <3>2, <3>3
  <2> QED BY <2>1, <2>3, <2>4 DEF JoinsNext
<1> QED BY <1>6, <1>8, <1>9, <1>10

\* Both coalescing steps at once: the blocks first .. last become one.
LEMMA KfreeEffect ==
  ASSUME IInv, NEW b \in live, Kfree(b)
  PROVE  \E first, last \in DOMAIN size :
           LET gone == {b, last} \ {first} IN
           /\ \/ first = b /\ \A a \in FreeBlocks : EndOf(a) # b
              \/ first \in FreeBlocks /\ EndOf(first) = b
           /\ \/ last = b /\ EndOf(b) \notin FreeBlocks
              \/ last \in FreeBlocks /\ EndOf(b) = last
           /\ size' = [a \in DOMAIN size \ gone |->
                         IF a = first THEN EndOf(last) - first - Header
                                      ELSE size[a]]
           /\ free_list' \in Seq(Addr)
           /\ AddressOrdered'
           /\ FreeBlocks' = (FreeBlocks \cup {first}) \ gone
           /\ live' = live \ {b}
           /\ ret' = ret
<1>1. PICK k \in 0 .. Len(free_list) :
        LET prev  == JoinsPrev(k, b)
            next  == JoinsNext(k, b)
            first == IF prev THEN free_list[k] ELSE b
            last  == IF next THEN free_list[k + 1] ELSE b
            gone  == (IF prev THEN {b} ELSE {}) \cup (IF next THEN {last} ELSE {})
        IN /\ InsertAfter(k, b)
           /\ free_list' = Relinked(k, IF prev THEN <<>> ELSE <<b>>,
                                    IF next THEN k + 2 ELSE k + 1)
           /\ size' = [a \in DOMAIN size \ gone |->
                         IF a = first THEN Spanning(first, EndOf(last))
                                      ELSE size[a]]
           /\ live' = live \ {b}
           /\ ret' = ret
  BY DEF Kfree
<1> DEFINE prev  == JoinsPrev(k, b)
           next  == JoinsNext(k, b)
           first == IF prev THEN free_list[k] ELSE b
           last  == IF next THEN free_list[k + 1] ELSE b
           gone  == {b, last} \ {first}
           mid   == IF prev THEN <<>> ELSE <<b>>
           m     == IF next THEN k + 2 ELSE k + 1
<1>2. /\ Len(free_list) \in Nat /\ DOMAIN free_list = 1 .. Len(free_list)
      /\ \A i \in 1 .. Len(free_list) :
           free_list[i] \in FreeBlocks /\ free_list[i] \in DOMAIN size
  BY ListFacts DEF IInv
<1>3. /\ b \in DOMAIN size /\ b \in Addr /\ b \in Nat
      /\ EndOf(b) \in Int /\ b < EndOf(b) /\ b \notin FreeBlocks
  BY BlockFacts DEF IInv, TypeOK, Tiled
<1>4. /\ \A i \in 1 .. k : free_list[i] < b
      /\ \A i \in (k + 1) .. Len(free_list) : b < free_list[i]
      /\ \A a \in FreeBlocks : EndOf(a) = b => prev /\ a = free_list[k]
      /\ EndOf(b) \in FreeBlocks => next
  BY <1>1, KfreeNeighbours
<1>5. prev => /\ k \in 1 .. Len(free_list)
              /\ first \in FreeBlocks /\ first \in DOMAIN size
              /\ EndOf(first) = b /\ first < b
  BY <1>2, <1>4 DEF JoinsPrev
<1>6. next => /\ k + 1 \in 1 .. Len(free_list)
              /\ last \in FreeBlocks /\ last \in DOMAIN size
              /\ EndOf(b) = last /\ b < last
  BY <1>2, <1>4 DEF JoinsNext
<1>7. /\ first \in DOMAIN size /\ last \in DOMAIN size
      /\ \/ first = b /\ \A a \in FreeBlocks : EndOf(a) # b
         \/ first \in FreeBlocks /\ EndOf(first) = b
      /\ \/ last = b /\ EndOf(b) \notin FreeBlocks
         \/ last \in FreeBlocks /\ EndOf(b) = last
  BY <1>3, <1>4, <1>5, <1>6
<1>8. gone = (IF prev THEN {b} ELSE {}) \cup (IF next THEN {last} ELSE {})
  <2>1. first \in Nat /\ last \in Nat
    BY <1>7, BlockFacts DEF IInv
  <2>2. CASE prev
    <3>1. first < b /\ b <= last
      BY <1>3, <1>5, <1>6, <2>1, <2>2
    <3>2. first # b /\ first # last
      BY <1>3, <2>1, <3>1
    <3> QED BY <2>2, <3>2
  <2>3. CASE ~prev
    <3>1. first = b
      BY <2>3
    <3>2. next => last # b
      BY <1>3, <1>6, <2>1
    <3> QED BY <2>3, <3>1, <3>2
  <2> QED BY <2>2, <2>3
<1>9. /\ mid \in Seq(Addr) /\ Len(mid) <= 1
      /\ {mid[j] : j \in 1 .. Len(mid)} = IF prev THEN {} ELSE {b}
      /\ m \in (k + 1) .. (Len(free_list) + 1)
      /\ {free_list[i] : i \in (k + 1) .. (m - 1)} = IF next THEN {last} ELSE {}
  <2>1. /\ mid \in Seq(Addr) /\ Len(mid) <= 1
        /\ {mid[j] : j \in 1 .. Len(mid)} = IF prev THEN {} ELSE {b}
    BY <1>3
  <2>2. CASE next
    BY <1>2, <1>6, <2>1, <2>2
  <2>3. CASE ~next
    BY <1>2, <2>1, <2>3
  <2> QED BY <2>1, <2>2, <2>3
<1>10. \A j \in 1 .. Len(mid) :
         /\ \A i \in 1 .. k : free_list[i] < mid[j]
         /\ \A i \in m .. Len(free_list) : mid[j] < free_list[i]
  <2>1. \A j \in 1 .. Len(mid) : mid[j] = b
    BY <1>9
  <2>2. \A i \in m .. Len(free_list) : i \in (k + 1) .. Len(free_list)
    BY <1>2
  <2> QED BY <1>4, <2>1, <2>2
<1>11. /\ free_list' = Relinked(k, mid, m)
       /\ size' = [a \in DOMAIN size \ gone |->
                     IF a = first THEN EndOf(last) - first - Header
                                  ELSE size[a]]
       /\ live' = live \ {b}
       /\ ret' = ret
  BY <1>1, <1>8 DEF Spanning
<1>12. free_list \in Seq(Addr) /\ AddressOrdered
  BY DEF IInv, TypeOK
<1>13. /\ free_list' \in Seq(Addr)
       /\ AddressOrdered'
       /\ FreeBlocks' = (FreeBlocks \ {free_list[i] : i \in (k + 1) .. (m - 1)})
                          \cup {mid[j] : j \in 1 .. Len(mid)}
  <2> HIDE DEF mid, m
  <2> QED BY <1>9, <1>10, <1>11, <1>12, RelinkedInOrder
<1>14. FreeBlocks' = (FreeBlocks \cup {first}) \ gone
  <2>1. FreeBlocks' = (FreeBlocks \ (IF next THEN {last} ELSE {}))
                        \cup (IF prev THEN {} ELSE {b})
    BY <1>9, <1>13
  <2>2. next => b # last
    BY <1>3, <1>6
  <2> QED BY <1>3, <1>5, <1>8, <2>1, <2>2
<1> HIDE DEF first, last
<1> QED BY <1>7, <1>11, <1>13, <1>14

------------------------------------------------------------------------------
(* The invariant *)

LEMMA InitHolds == Init => IInv
<1> SUFFICES ASSUME Init PROVE IInv
  OBVIOUS
<1> USE HeapAssumption DEF Init
<1>1. 0 \in Addr /\ HeapSize - Header \in Nat
  BY DEF Addr
<1>2. FreeBlocks = {0} /\ DOMAIN size = {0} /\ size[0] = HeapSize - Header
  BY DEF FreeBlocks
<1>3. EndOf(0) = HeapSize
  BY <1>2 DEF EndOf
<1>4. free_list \in Seq(Addr)
  BY <1>1
<1> QED
  BY <1>1, <1>2, <1>3, <1>4 DEF IInv, TypeOK, Tiled, AddressOrdered, Coalesced

LEMMA KmallocSplitPreserves ==
  ASSUME IInv, NEW req \in Requests, KmallocSplit(req)
  PROVE  IInv'
<1>1. PICK curr \in FreeBlocks, n \in Nat :
           LET nb == curr + Header + n IN
           /\ size[curr] >= n + Header
           /\ size' = [a \in DOMAIN size \cup {nb} |->
                         CASE a = curr -> n
                           [] a = nb -> size[curr] - Header - n
                           [] OTHER -> size[a]]
           /\ free_list' \in Seq(Addr)
           /\ AddressOrdered'
           /\ FreeBlocks' = (FreeBlocks \ {curr}) \cup {nb}
           /\ live' = live \cup {curr}
           /\ ret' = curr
  BY KmallocSplitEffect
<1> DEFINE nb == curr + Header + n
           D == DOMAIN size
<1>2. curr \in D
  BY DEF IInv, Tiled
<1>3. /\ \A a \in D : /\ a \in Nat /\ size[a] \in Nat /\ a \in Addr
                       /\ EndOf(a) = a + Header + size[a]
                       /\ EndOf(a) \in Int /\ a < EndOf(a) /\ EndOf(a) <= HeapSize
      /\ \A a, c \in D : EndOf(a) = EndOf(c) => a = c
  BY BlockFacts DEF IInv
<1>4. /\ nb \in Addr /\ nb \in Nat /\ curr < nb /\ nb < EndOf(curr)
      /\ size[curr] - Header - n \in Nat
  <2>1. size[curr] >= n + Header /\ n \in Nat
    BY <1>1
  <2>2. /\ curr \in Nat /\ size[curr] \in Nat /\ EndOf(curr) = curr + Header + size[curr]
        /\ EndOf(curr) <= HeapSize /\ Header \in Nat /\ Header > 0 /\ HeapSize \in Nat
    BY <1>2, <1>3, HeapAssumption
  <2> QED BY <2>1, <2>2 DEF Addr
<1>5. \A a, c \in D : a < c => EndOf(a) <= c
  BY DEF IInv, Tiled
<1>6. nb \notin D
  <2>1. SUFFICES ASSUME nb \in D PROVE FALSE
    OBVIOUS
  <2>2. EndOf(curr) <= nb
    BY <1>2, <1>4, <1>5, <2>1
  <2> QED BY <1>2, <1>3, <1>4, <2>2
<1> HIDE DEF nb
<1>7. /\ DOMAIN size' = D \cup {nb}
      /\ size'[curr] = n
      /\ size'[nb] = size[curr] - Header - n
      /\ \A a \in D \ {curr} : size'[a] = size[a]
  BY <1>1, <1>2, <1>6 DEF nb
<1>8. /\ EndOf(curr)' = nb
      /\ EndOf(nb)' = EndOf(curr)
      /\ \A a \in D \ {curr} : EndOf(a)' = EndOf(a)
  <2>1. EndOf(curr)' = curr + Header + size'[curr]
    BY DEF EndOf
  <2>2. EndOf(nb)' = nb + Header + size'[nb]
    BY DEF EndOf
  <2>3. nb = curr + Header + n
    BY DEF nb
  <2>4. EndOf(nb)' = EndOf(curr)
    BY <1>2, <1>3, <1>4, <1>7, <2>2, <2>3, HeapAssumption
  <2> QED BY <1>7, <2>1, <2>3, <2>4 DEF EndOf
<1>9. TypeOK'
  BY <1>1, <1>2, <1>3, <1>4, <1>7 DEF IInv, TypeOK
<1>10. Tiled'
  <2>1. 0 \in DOMAIN size'
    BY <1>7 DEF IInv, Tiled
  <2>2. ASSUME NEW a \in DOMAIN size'
        PROVE  (EndOf(a) = HeapSize \/ EndOf(a) \in DOMAIN size)'
    BY <1>2, <1>7, <1>8 DEF IInv, Tiled
  <2>3. ASSUME NEW a \in DOMAIN size', NEW c \in DOMAIN size', a < c
        PROVE  EndOf(a)' <= c
    <3>1. CASE a = curr
      <4>1. c = nb \/ (c \in D /\ EndOf(curr) <= c)
        BY <1>2, <1>5, <1>7, <2>3, <3>1
      <4> QED BY <1>2, <1>3, <1>4, <1>8, <3>1, <4>1
    <3>2. CASE a = nb
      <4>1. c \in D /\ curr < c
        BY <1>2, <1>3, <1>4, <1>7, <2>3, <3>2
      <4> QED BY <1>2, <1>5, <1>8, <3>2, <4>1
    <3>3. CASE a \in D \ {curr} /\ c \in D
      BY <1>5, <1>8, <2>3, <3>3
    <3>4. CASE a \in D \ {curr} /\ c = nb
      <4>1. a < curr
        <5>1. SUFFICES ASSUME curr < a PROVE FALSE
          BY <1>2, <1>3, <3>4
        <5>2. EndOf(curr) <= a
          BY <1>2, <1>5, <3>4, <5>1
        <5> QED BY <1>2, <1>3, <1>4, <2>3, <3>4, <5>2
      <4>2. EndOf(a) <= curr
        BY <1>2, <1>5, <3>4, <4>1
      <4> QED BY <1>2, <1>3, <1>4, <1>8, <3>4, <4>2
    <3> QED BY <1>7, <3>1, <3>2, <3>3, <3>4
  <2>4. (FreeBlocks \cap live = {} /\ FreeBlocks \cup live = DOMAIN size)'
    <3>1. FreeBlocks' = (FreeBlocks \ {curr}) \cup {nb} /\ live' = live \cup {curr}
      BY <1>1 DEF nb
    <3>2. FreeBlocks \cap live = {} /\ FreeBlocks \cup live = D /\ live \subseteq D
      BY DEF IInv, TypeOK, Tiled
    <3> QED BY <1>2, <1>4, <1>3, <1>6, <1>7, <3>1, <3>2
  <2> QED BY <2>1, <2>2, <2>3, <2>4 DEF Tiled
<1>11. Coalesced'
  <2> SUFFICES ASSUME NEW a \in FreeBlocks' PROVE EndOf(a)' \notin FreeBlocks'
    BY DEF Coalesced
  <2>1. FreeBlocks' = (FreeBlocks \ {curr}) \cup {nb} /\ FreeBlocks \subseteq D
    BY <1>1 DEF nb, IInv, Tiled
  <2>2. CASE a = nb
    BY <1>2, <1>3, <1>4, <1>8, <2>1, <2>2 DEF IInv, Coalesced
  <2>3. CASE a # nb
    <3>1. a \in FreeBlocks /\ a \in D \ {curr} /\ EndOf(a)' = EndOf(a)
      BY <1>8, <2>1, <2>3
    <3>2. EndOf(a) # nb
      <4>1. EndOf(a) = HeapSize \/ EndOf(a) \in D
        BY <3>1 DEF IInv, Tiled
      <4> QED BY <1>2, <1>3, <1>4, <1>6, <4>1, HeapAssumption
    <3> QED BY <2>1, <3>1, <3>2 DEF IInv, Coalesced
  <2> QED BY <2>2, <2>3
<1> QED BY <1>1, <1>9, <1>10, <1>11 DEF IInv

LEMMA KmallocWholePreserves ==
  ASSUME IInv, NEW req \in Requests, KmallocWhole(req)
  PROVE  IInv'
<1>1. PICK curr \in FreeBlocks :
           /\ size' = size
           /\ free_list' \in Seq(Addr)
           /\ AddressOrdered'
           /\ FreeBlocks' = FreeBlocks \ {curr}
           /\ live' = live \cup {curr}
           /\ ret' = curr
  BY KmallocWholeEffect
<1>2. curr \in DOMAIN size /\ FreeBlocks \cap live = {}
      /\ FreeBlocks \cup live = DOMAIN size
  BY DEF IInv, Tiled
<1>3. \A a : EndOf(a)' = EndOf(a)
  BY <1>1 DEF EndOf
<1>4. TypeOK'
  BY <1>1, <1>2 DEF IInv, TypeOK
<1>5. Tiled'
  BY <1>1, <1>2, <1>3 DEF IInv, Tiled
<1>6. Coalesced'
  BY <1>1, <1>3 DEF IInv, Coalesced
<1> QED BY <1>1, <1>4, <1>5, <1>6 DEF IInv

LEMMA KfreePreserves ==
  ASSUME IInv, NEW b \in live, Kfree(b)
  PROVE  IInv'
<1>1. PICK first, last \in DOMAIN size :
           LET gone == {b, last} \ {first} IN
           /\ \/ first = b /\ \A a \in FreeBlocks : EndOf(a) # b
              \/ first \in FreeBlocks /\ EndOf(first) = b
           /\ \/ last = b /\ EndOf(b) \notin FreeBlocks
              \/ last \in FreeBlocks /\ EndOf(b) = last
           /\ size' = [a \in DOMAIN size \ gone |->
                         IF a = first THEN EndOf(last) - first - Header
                                      ELSE size[a]]
           /\ free_list' \in Seq(Addr)
           /\ AddressOrdered'
           /\ FreeBlocks' = (FreeBlocks \cup {first}) \ gone
           /\ live' = live \ {b}
           /\ ret' = ret
  BY KfreeEffect
<1> DEFINE D == DOMAIN size
           gone == {b, last} \ {first}
<1>2. /\ \/ first = b /\ \A a \in FreeBlocks : EndOf(a) # b
         \/ first \in FreeBlocks /\ EndOf(first) = b
      /\ \/ last = b /\ EndOf(b) \notin FreeBlocks
         \/ last \in FreeBlocks /\ EndOf(b) = last
  BY <1>1
<1>3. /\ \A a \in D : /\ a \in Nat /\ size[a] \in Nat /\ a \in Addr
                       /\ EndOf(a) = a + Header + size[a]
                       /\ EndOf(a) \in Int /\ a < EndOf(a) /\ EndOf(a) <= HeapSize
      /\ \A a, c \in D : EndOf(a) = EndOf(c) => a = c
  BY BlockFacts DEF IInv
<1>4. /\ b \in D /\ FreeBlocks \cap live = {} /\ FreeBlocks \cup live = D
      /\ live \subseteq D /\ FreeBlocks \subseteq D
  BY DEF IInv, Tiled, TypeOK
<1>5. \A a, c \in D : a < c => EndOf(a) <= c
  BY DEF IInv, Tiled
<1>6. /\ first <= b /\ b <= last /\ EndOf(b) <= EndOf(last)
      /\ first + Header <= EndOf(b)
      /\ first # b => first < b
      /\ last # b => b < last
  <2>1. first <= b /\ (first # b => first < b)
    BY <1>2, <1>3, <1>4
  <2>2. b <= last /\ EndOf(b) <= EndOf(last) /\ (last # b => b < last)
    BY <1>2, <1>3, <1>4
  <2>3. first + Header <= EndOf(b)
    BY <1>3, <1>4, <2>1, HeapAssumption
  <2> QED BY <2>1, <2>2, <2>3
<1>7. /\ DOMAIN size' = D \ gone
      /\ first \in D \ gone
      /\ size'[first] = EndOf(last) - first - Header
      /\ \A a \in (D \ gone) \ {first} : size'[a] = size[a]
  BY <1>1
<1>8. /\ EndOf(first)' = EndOf(last)
      /\ \A a \in (D \ gone) \ {first} : EndOf(a)' = EndOf(a)
  <2>1. EndOf(first)' = first + Header + (EndOf(last) - first - Header)
    BY <1>7 DEF EndOf
  <2>2. first \in Int /\ EndOf(last) \in Int /\ Header \in Int
    BY <1>3, HeapAssumption
  <2>3. EndOf(first)' = EndOf(last)
    BY <2>1, <2>2
  <2> QED BY <1>7, <2>3 DEF EndOf
<1>9. first < EndOf(last) /\ EndOf(last) - first - Header \in Nat
  <2>1. /\ first \in Int /\ b \in Int /\ EndOf(b) \in Int /\ EndOf(last) \in Int
        /\ Header \in Nat /\ Header > 0
    BY <1>3, <1>4, HeapAssumption
  <2> QED BY <1>6, <2>1
<1>10. TypeOK'
  <2>1. \A a \in DOMAIN size' : size'[a] \in Nat
    BY <1>3, <1>7, <1>9
  <2>2. DOMAIN size' \subseteq Addr
    BY <1>3, <1>7
  <2>3. live' \subseteq DOMAIN size'
    <3>1. last # b => last \notin live
      BY <1>2, <1>4
    <3> QED BY <1>1, <1>4, <1>7, <3>1
  <2>4. free_list' \in Seq(Addr) /\ ret' \in Addr \cup {NULL}
    BY <1>1 DEF IInv, TypeOK
  <2> QED BY <2>1, <2>2, <2>3, <2>4 DEF TypeOK, Addr
<1>11. Tiled'
  <2>1. 0 \in DOMAIN size'
    <3>1. 0 \in D
      BY DEF IInv, Tiled
    <3>2. 0 \notin gone
      <4>1. SUFFICES ASSUME 0 \in gone PROVE FALSE
        OBVIOUS
      <4>2. first \in Nat /\ b \in Nat /\ last \in Nat /\ first # 0
        BY <1>3, <1>4, <4>1
      <4> QED BY <1>6, <4>1, <4>2
    <3> QED BY <1>7, <3>1, <3>2
  <2>2. ASSUME NEW a \in DOMAIN size'
        PROVE  EndOf(a)' = HeapSize \/ EndOf(a)' \in DOMAIN size'
    <3>1. \A c \in D : EndOf(c) = HeapSize \/ EndOf(c) \in D
      BY DEF IInv, Tiled
    <3>2. CASE a = first
      <4>1. EndOf(last) \notin gone
        <5>1. b \in Nat /\ last \in Nat /\ EndOf(last) \in Int /\ last < EndOf(last)
          BY <1>3, <1>4
        <5> QED BY <1>6, <5>1
      <4> QED BY <1>7, <1>8, <3>1, <3>2, <4>1
    <3>3. CASE a # first
      <4>1. a \in D \ gone /\ EndOf(a)' = EndOf(a) /\ a \in D
        BY <1>7, <1>8, <3>3
      <4>2. EndOf(a) \notin gone
        <5>1. ASSUME EndOf(a) = b, b # first PROVE FALSE
          <6>1. EndOf(first) = b
            BY <1>2, <5>1
          <6> QED BY <1>3, <3>3, <4>1, <5>1, <6>1
        <5>2. ASSUME EndOf(a) = last, last # first, last # b PROVE FALSE
          <6>1. EndOf(b) = last
            BY <1>2, <5>2
          <6>2. a = b
            BY <1>3, <1>4, <4>1, <5>2, <6>1
          <6> QED BY <3>3, <4>1, <6>2
        <5> QED BY <5>1, <5>2
      <4> QED BY <1>7, <3>1, <4>1, <4>2
    <3> QED BY <3>2, <3>3
  <2>3. ASSUME NEW a \in DOMAIN size', NEW c \in DOMAIN size', a < c
        PROVE  EndOf(a)' <= c
    <3>1. a \in D /\ c \in D /\ a \notin gone /\ c \notin gone
      BY <1>7
    <3>2. CASE a # first
      BY <1>5, <1>7, <1>8, <2>3, <3>1, <3>2
    <3>3. CASE a = first
      <4>1. c # first
        BY <1>3, <2>3, <3>1, <3>3
      <4>2. c # b /\ c # last
        BY <3>1, <4>1
      <4>3. b < c
        <5>1. first # b => EndOf(first) = b
          BY <1>2
        <5>2. EndOf(first) <= c
          BY <1>5, <2>3, <3>1, <3>3
        <5> QED BY <1>3, <1>4, <2>3, <3>1, <3>3, <4>2, <5>1, <5>2
      <4>4. EndOf(b) <= c
        BY <1>4, <1>5, <3>1, <4>3
      <4>5. last < c
        BY <1>2, <1>3, <1>4, <3>1, <4>2, <4>3, <4>4
      <4> QED BY <1>5, <1>8, <3>1, <3>3, <4>5
    <3> QED BY <3>2, <3>3
  <2>4. FreeBlocks' \cap live' = {} /\ FreeBlocks' \cup live' = DOMAIN size'
    <3>1. FreeBlocks' = (FreeBlocks \cup {first}) \ gone /\ live' = live \ {b}
      BY <1>1
    <3>2. last # b => last \notin live
      BY <1>2, <1>4
    <3>3. first # b => first \notin live
      BY <1>2, <1>4
    <3> QED BY <1>4, <1>7, <3>1, <3>2, <3>3
  <2> QED BY <2>1, <2>2, <2>3, <2>4 DEF Tiled
<1>12. Coalesced'
  <2> SUFFICES ASSUME NEW a \in FreeBlocks' PROVE EndOf(a)' \notin FreeBlocks'
    BY DEF Coalesced
  <2>1. FreeBlocks' = (FreeBlocks \cup {first}) \ gone
    BY <1>1
  <2>2. CASE a = first
    <3>1. EndOf(last) \notin FreeBlocks
      BY <1>2 DEF IInv, Coalesced
    <3>2. EndOf(last) # first
      <4>1. first \in Int /\ EndOf(last) \in Int
        BY <1>3
      <4> QED BY <1>9, <4>1
    <3> QED BY <1>8, <2>1, <2>2, <3>1, <3>2
  <2>3. CASE a # first
    <3>1. a \in FreeBlocks /\ EndOf(a)' = EndOf(a)
      BY <1>4, <1>8, <2>1, <2>3
    <3>2. EndOf(a) \notin FreeBlocks
      BY <3>1 DEF IInv, Coalesced
    <3>3. EndOf(a) # first
      BY <1>2, <3>1, <3>2
    <3> QED BY <2>1, <3>1, <3>2, <3>3
  <2> QED BY <2>2, <2>3
<1> QED BY <1>1, <1>10, <1>11, <1>12 DEF IInv

LEMMA NextPreserves == IInv /\ [Next]_vars => IInv'
<1> SUFFICES ASSUME IInv, [Next]_vars PROVE IInv'
  OBVIOUS
<1>1. ASSUME NEW req \in Requests, KmallocSplit(req) PROVE IInv'
  BY <1>1, KmallocSplitPreserves
<1>2. ASSUME NEW req \in Requests, KmallocWhole(req) PROVE IInv'
  BY <1>2, KmallocWholePreserves
<1>3. ASSUME NEW req \in Requests, KmallocFails(req) PROVE IInv'
  <2>1. free_list' = free_list /\ size' = size /\ live' = live /\ ret' = NULL
    BY <1>3 DEF KmallocFails
  <2> QED BY <2>1 DEF IInv, TypeOK, Tiled, AddressOrdered, Coalesced, EndOf,
                      FreeBlocks
<1>4. ASSUME NEW b \in live, Kfree(b) PROVE IInv'
  BY <1>4, KfreePreserves
<1>5. ASSUME UNCHANGED vars PROVE IInv'
  BY <1>5 DEF vars, IInv, TypeOK, Tiled, AddressOrdered, Coalesced, EndOf,
              FreeBlocks
<1> QED BY <1>1, <1>2, <1>3, <1>4, <1>5 DEF Next

\* The types of the heap's state, for heap.c.
THEOREM TypeCorrect == Spec => []TypeOK
<1>1. IInv => TypeOK
  BY DEF IInv
<1> QED BY <1>1, InitHolds, NextPreserves, PTL DEF Spec

\* kmalloc and kfree keep the whole inductive invariant: the headers tile the
\* heap, and the free list is in address order with no two adjacent blocks.
THEOREM HeapInvariant == Spec => []WellFormed
<1>1. IInv => WellFormed
  BY DEF IInv, WellFormed
<1> QED BY <1>1, InitHolds, NextPreserves, PTL DEF Spec

------------------------------------------------------------------------------
(* Recovery, held blocks, and the promise to callers *)

LEMMA RecoveredWhenAllFree == IInv => FullyRecovered
<1> SUFFICES ASSUME IInv, live = {}
             PROVE  free_list = <<0>> /\ size[0] = HeapSize - Header
  BY DEF FullyRecovered
<1>1. FreeBlocks = DOMAIN size /\ 0 \in DOMAIN size
  BY DEF IInv, Tiled
<1>2. EndOf(0) = HeapSize
  BY <1>1 DEF IInv, Tiled, Coalesced
<1>3. size[0] = HeapSize - Header
  BY <1>1, <1>2, BlockFacts, HeapAssumption DEF IInv
<1>4. \A a \in DOMAIN size : a = 0
  <2> SUFFICES ASSUME NEW a \in DOMAIN size, a # 0 PROVE FALSE
    OBVIOUS
  <2>1. a \in Nat /\ a < EndOf(a) /\ EndOf(a) \in Int /\ EndOf(a) <= HeapSize
    BY BlockFacts DEF IInv
  <2>2. EndOf(0) <= a
    BY <1>1, <2>1 DEF IInv, Tiled
  <2> QED BY <1>2, <2>1, <2>2, HeapAssumption
<1>5. /\ free_list \in Seq(Addr)
      /\ Len(free_list) \in Nat /\ DOMAIN free_list = 1 .. Len(free_list)
      /\ \A i \in 1 .. Len(free_list) : free_list[i] = 0
  BY <1>4, ListFacts DEF IInv, TypeOK
<1>6. Len(free_list) # 0
  BY <1>1, <1>5 DEF FreeBlocks
<1>7. ~(Len(free_list) > 1)
  <2>1. SUFFICES ASSUME Len(free_list) > 1 PROVE FALSE
    OBVIOUS
  <2>2. free_list[1] < free_list[2]
    BY <1>5, <2>1 DEF IInv, AddressOrdered
  <2> QED BY <1>5, <2>1, <2>2
<1>8. Len(free_list) = 1
  BY <1>5, <1>6, <1>7
<1>9. free_list = <<0>>
  <2>1. <<0>> \in Seq(Addr) /\ Len(<<0>>) = 1 /\ <<0>>[1] = 0
    BY HeapAssumption DEF Addr
  <2>2. \A i \in 1 .. Len(free_list) : free_list[i] = <<0>>[i]
    BY <1>5, <1>8, <2>1
  <2> QED BY <1>5, <1>8, <2>1, <2>2, SeqEqual
<1> QED BY <1>3, <1>9

\* kfree recovers everything: with no block held the heap is the one block of
\* heap_init again, whatever sequence of calls led there.
THEOREM HeapRecovers == Spec => []FullyRecovered
<1> QED BY RecoveredWhenAllFree, InitHolds, NextPreserves, PTL DEF Spec

\* A kmalloc that splits writes its new header where no block starts.
LEMMA NewHeaderIsFresh ==
  ASSUME IInv, NEW curr \in FreeBlocks, NEW n \in Nat,
         size[curr] >= n + Header
  PROVE  curr + Header + n \notin DOMAIN size
<1> SUFFICES ASSUME curr + Header + n \in DOMAIN size PROVE FALSE
  OBVIOUS
<1>1. curr \in DOMAIN size
  BY DEF IInv, Tiled
<1>2. /\ curr \in Nat /\ size[curr] \in Nat /\ EndOf(curr) = curr + Header + size[curr]
      /\ Header \in Nat /\ Header > 0
  BY <1>1, BlockFacts, HeapAssumption DEF IInv
<1>3. EndOf(curr) <= curr + Header + n
  BY <1>1, <1>2 DEF IInv, Tiled
<1> QED BY <1>2, <1>3

\* What a step does to the blocks callers hold: it adds a fresh one, gives one
\* back or changes none, and those held on both sides keep their sizes.
LEMMA HeldBlocks ==
  ASSUME IInv, [Next]_vars
  PROVE  /\ \/ live' = live
            \/ \E req \in Requests, curr \in FreeBlocks :
                 /\ live' = live \cup {curr}
                 /\ curr \in DOMAIN size' /\ size'[curr] >= Rounded(req)
            \/ \E b \in live : live' = live \ {b}
         /\ \A b \in live \cap live' : size'[b] = size[b]
<1>1. FreeBlocks \cap live = {} /\ FreeBlocks \cup live = DOMAIN size
  BY DEF IInv, Tiled
<1>2. ASSUME NEW req \in Requests, KmallocSplit(req)
      PROVE  /\ \E curr \in FreeBlocks :
                  /\ live' = live \cup {curr}
                  /\ curr \in DOMAIN size' /\ size'[curr] >= Rounded(req)
             /\ \A b \in live \cap live' : size'[b] = size[b]
  <2>1. PICK curr \in FreeBlocks, n \in Nat :
           LET nb == curr + Header + n IN
           /\ size[curr] >= n + Header
           /\ n = Rounded(req)
           /\ size' = [a \in DOMAIN size \cup {nb} |->
                         CASE a = curr -> n
                           [] a = nb -> size[curr] - Header - n
                           [] OTHER -> size[a]]
           /\ live' = live \cup {curr}
    BY <1>2, KmallocSplitEffect
  <2>2. curr + Header + n \notin DOMAIN size
    BY <2>1, NewHeaderIsFresh
  <2>3. curr \in DOMAIN size' /\ size'[curr] = n
    BY <1>1, <2>1, <2>2
  <2>4. \A b \in live : size'[b] = size[b]
    BY <1>1, <2>1, <2>2
  <2>5. size'[curr] >= Rounded(req)
    BY <2>1, <2>3
  <2> QED BY <2>1, <2>3, <2>4, <2>5
<1>3. ASSUME NEW req \in Requests, KmallocWhole(req)
      PROVE  /\ \E curr \in FreeBlocks :
                  /\ live' = live \cup {curr}
                  /\ curr \in DOMAIN size' /\ size'[curr] >= Rounded(req)
             /\ \A b \in live \cap live' : size'[b] = size[b]
  BY <1>1, <1>3, KmallocWholeEffect
<1>4. ASSUME NEW req \in Requests, KmallocFails(req)
      PROVE  live' = live /\ size' = size
  BY <1>4 DEF KmallocFails
<1>5. ASSUME NEW b \in live, Kfree(b)
      PROVE  live' = live \ {b} /\ \A c \in live \cap live' : size'[c] = size[c]
  <2>1. PICK first, last \in DOMAIN size :
           LET gone == {b, last} \ {first} IN
           /\ \/ first = b /\ \A a \in FreeBlocks : EndOf(a) # b
              \/ first \in FreeBlocks /\ EndOf(first) = b
           /\ \/ last = b /\ EndOf(b) \notin FreeBlocks
              \/ last \in FreeBlocks /\ EndOf(b) = last
           /\ size' = [a \in DOMAIN size \ gone |->
                         IF a = first THEN EndOf(last) - first - Header
                                      ELSE size[a]]
           /\ live' = live \ {b}
    BY <1>5, KfreeEffect
  <2> QED BY <1>1, <2>1
<1>6. ASSUME UNCHANGED vars PROVE live' = live /\ size' = size
  BY <1>6 DEF vars
<1> QED BY <1>2, <1>3, <1>4, <1>5, <1>6 DEF Next

\* kmalloc and kfree leave the size of a held block alone.
THEOREM HeldBlocksKeep == Spec => HeldBlocksKeepTheirSize
<1>1. IInv /\ [Next]_vars => [\A b \in live \cap live' : size'[b] = size[b]]_vars
  BY HeldBlocks
<1> QED BY <1>1, InitHolds, NextPreserves, PTL DEF Spec, HeldBlocksKeepTheirSize

\* Rounding never returns less than what was asked.
LEMMA RoundedCovers ==
  ASSUME NEW req \in Requests
  PROVE  Rounded(req) \in Nat /\ req <= Rounded(req)
<1>1. req \in Nat /\ Align \in Nat /\ Align > 0 /\ MinSize \in Nat
  BY HeapAssumption
<1> DEFINE q == (req + Align - 1) \div Align
<1>2. /\ q \in Nat
      /\ Align * q <= req + Align - 1
      /\ req + Align - 1 < Align * (q + 1)
  BY <1>1
<1>3. Rounded(req) = IF q * Align < MinSize THEN MinSize ELSE q * Align
  BY DEF Rounded
<1> HIDE DEF q
<1>4. q * Align \in Nat /\ Align * (q + 1) = q * Align + Align
  BY <1>1, <1>2
<1>5. req <= q * Align
  BY <1>1, <1>2, <1>4
<1> QED BY <1>1, <1>3, <1>4, <1>5

\* The range of bytes a held block gives its caller, as the promise sees it.
Given(b) == [at |-> b + Header, len |-> size[b]]
Ranges == {Given(b) : b \in live}

\* One heap step is one step of the promise, or leaves what callers hold as it is.
LEMMA StepImplements ==
  ASSUME IInv, IInv', [Next]_vars
  PROVE  Promise!Next \/ UNCHANGED Ranges
<1>1. \A b \in live \cap live' : Given(b)' = Given(b)
  BY HeldBlocks DEF Given
<1>2. CASE live' = live
  BY <1>1, <1>2 DEF Ranges
<1>3. ASSUME NEW req \in Requests, NEW curr \in FreeBlocks,
             live' = live \cup {curr}, size'[curr] >= Rounded(req)
      PROVE  Promise!Next
  <2> DEFINE e == Given(curr)'
  <2>1. Ranges' = Ranges \cup {e}
    BY <1>1, <1>3 DEF Ranges
  <2>2. /\ e \in Promise!Extent
        /\ e.at + e.len <= HeapSize
    <3>1. /\ curr \in Nat /\ size'[curr] \in Nat
          /\ curr + Header + size'[curr] \in Int
          /\ Header \in Nat /\ HeapSize \in Nat
      BY <1>3, HeapAssumption DEF IInv, TypeOK, Addr
    <3>2. curr + Header + size'[curr] <= HeapSize
      <4>1. EndOf(curr)' = HeapSize \/ EndOf(curr)' \in Addr
        BY <1>3 DEF IInv, Tiled, TypeOK, Addr
      <4> QED BY <3>1, <4>1 DEF EndOf, Addr
    <3>3. e = [at |-> curr + Header, len |-> size'[curr]]
      BY DEF Given
    <3> QED BY <3>1, <3>2, <3>3 DEF Promise!Extent
  <2>3. req <= e.len
    <3>1. size'[curr] \in Nat
      BY <1>3 DEF IInv, TypeOK
    <3>2. req \in Nat /\ Rounded(req) \in Nat /\ req <= Rounded(req)
      BY RoundedCovers, HeapAssumption
    <3>3. e.len = size'[curr]
      BY DEF Given
    <3> QED BY <1>3, <3>1, <3>2, <3>3
  <2>4. \A f \in Ranges : Promise!Disjoint(e, f)
    <3>1. \A b \in live : b # curr /\ b \in live' /\ Given(b)' = Given(b)
      BY <1>1, <1>3 DEF IInv, Tiled
    <3>2. ASSUME NEW b \in live
          PROVE  Promise!Disjoint(e, Given(b))
      <4>1. b \in Nat /\ curr \in Nat /\ size'[b] \in Nat /\ size'[curr] \in Nat
            /\ Header \in Nat
        BY <1>3, <3>1, BlockFacts, HeapAssumption DEF IInv, TypeOK, Addr
      <4>2. (b < curr => EndOf(b)' <= curr) /\ (curr < b => EndOf(curr)' <= b)
        BY <1>3, <3>1 DEF IInv, Tiled, TypeOK
      <4>3. Promise!Disjoint(e, Given(b)')
        <5>1. /\ b < curr => b + Header + size'[b] <= curr
              /\ curr < b => curr + Header + size'[curr] <= b
          BY <4>2 DEF EndOf
        <5>2. /\ e = [at |-> curr + Header, len |-> size'[curr]]
              /\ Given(b)' = [at |-> b + Header, len |-> size'[b]]
          BY DEF Given
        <5> QED BY <3>1, <4>1, <5>1, <5>2 DEF Promise!Disjoint
      <4> QED BY <3>1, <4>3
    <3> QED BY <3>2 DEF Ranges
  <2> HIDE DEF e
  <2>5. Promise!Alloc(req)
    BY <2>1, <2>2, <2>3, <2>4 DEF Promise!Alloc, Ranges, Given
  <2> QED BY <2>5 DEF Promise!Next
<1>4. ASSUME NEW b \in live, live' = live \ {b}
      PROVE  Promise!Next
  <2>1. \A c \in live : c # b => Given(c) # Given(b)
    <3>1. \A c \in live : c \in Nat /\ Header \in Nat
      BY BlockFacts, HeapAssumption DEF IInv, TypeOK
    <3> QED BY <3>1 DEF Given
  <2>2. Ranges' = Ranges \ {Given(b)}
    BY <1>1, <1>4, <2>1 DEF Ranges
  <2>3. Given(b) \in Ranges
    BY DEF Ranges
  <2> QED BY <2>2, <2>3 DEF Promise!Next, Promise!Free, Ranges, Given
<1> QED BY <1>2, <1>3, <1>4, HeldBlocks

\* Every successful kmalloc hands out fresh bytes inside the heap, at least as
\* many as asked, and they stay the caller's until its kfree.
THEOREM HeapImplementsAllocator == Spec => ImplementsAllocator
<1>1. Init => Promise!Init
  BY DEF Init, Promise!Init
<1>2. IInv /\ IInv' /\ [Next]_vars =>
        [Promise!Next]_({[at |-> b + Header, len |-> size[b]] : b \in live})
  BY StepImplements DEF Ranges, Given
<1> QED BY <1>1, <1>2, InitHolds, NextPreserves, PTL
        DEF Spec, ImplementsAllocator, Promise!Spec

=============================================================================
