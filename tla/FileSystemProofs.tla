-------------------------- MODULE FileSystemProofs --------------------------
(***************************************************************************)
(* No cluster has two owners, the calls do what FileStore promises, and    *)
(* the shell's commands show and keep what is there: on any disk, for any  *)
(* names, paths and data, as long as the disk is not full and files of     *)
(* many clusters are not truncated.                                        *)
(*                                                                         *)
(* What the driver keeps true is not told by the paths callers name but by *)
(* the entries on the disk.  The invariant speaks of a set L of places of  *)
(* entries, NoLoc for the root directory among them, and of the chain      *)
(* C[loc] of each: see Layout.  Every place of L is led to by one path of  *)
(* Paths (Shown), which is what makes L a tree.                            *)
(*                                                                         *)
(* First the operators: chains, places, searches, paths.  Then what each   *)
(* call does to a layout (Deed), that it keeps one, and what the invariant *)
(* says.  Then the refinement: the tree and the handle told by a layout,   *)
(* and call by call that its step is one of FileStore's.  Then the shell:  *)
(* what its commands do to that tree, and what cat and ls print of it.     *)
(***************************************************************************)
EXTENDS Shell, Induction, FunctionTheorems

USE DiskAssumption

------------------------------------------------------------------------------
(* Chains *)

\* The clusters from clus on, none twice, the last one marked as such.
IsChain(f, clus, s) ==
  /\ s \in Seq(Clusters) /\ s # <<>>
  /\ s[1] = clus
  /\ \A i \in 1 .. Len(s) - 1 : f[s[i]] = s[i + 1]
  /\ f[s[Len(s)]] = EOC
  /\ IsInjective(s)

LEMMA Clusters1 ==
  /\ \A c \in Clusters : c \in Nat /\ c # 0 /\ c # EOC /\ c # NoClus /\ Valid(c) /\ c <= LastClus
  /\ \A c \in 0 .. NoClus : Valid(c) <=> c \in Clusters
  /\ EOC \in Nat /\ NoClus \in Nat /\ EOC # 0 /\ Clusters \subseteq 0 .. NoClus
  /\ RootClus \in Clusters /\ EOC \in 0 .. NoClus
BY DEF Clusters, RootClus, EOC, NoClus, Valid

\* A sequence without repetition is no longer than there are clusters.
LEMMA ChainLength ==
  ASSUME NEW s \in Seq(Clusters), IsInjective(s)
  PROVE  Len(s) \in Nat /\ Len(s) < LastClus
<1>1. Len(s) \in Nat /\ s \in [1 .. Len(s) -> Clusters]
  OBVIOUS
<1>2. s \in Injection(1 .. Len(s), Clusters)
  BY <1>1, Fun_IsInj DEF IsInjective
<1>3. IsFiniteSet(Clusters) /\ Cardinality(Clusters) = LastClus - 1
  BY FS_Interval DEF Clusters, RootClus
<1>4. Cardinality(1 .. Len(s)) <= Cardinality(Clusters)
  BY <1>2, <1>3, FS_Injection
<1>5. Cardinality(1 .. Len(s)) = Len(s)
  <2> DEFINE n == Len(s)
  <2>1. n \in Nat
    BY <1>1
  <2> HIDE DEF n
  <2>2. Cardinality(1 .. n) = n
    BY <2>1, FS_Interval
  <2> QED BY <2>2 DEF n
<1> QED BY <1>1, <1>3, <1>4, <1>5

\* The loop of resolve_chain.
LEMMA Walk ==
  ASSUME NEW f \in Tables, NEW clus \in Clusters
  PROVE  \E w \in [0 .. LastClus -> Seq(Clusters)] :
           /\ w[0] = <<clus>>
           /\ \A n \in 1 .. LastClus :
                w[n] = IF Valid(f[Last(w[n - 1])]) THEN Append(w[n - 1], f[Last(w[n - 1])])
                       ELSE w[n - 1]
           /\ resolve_chain(f, clus) = w[LastClus]
<1> DEFINE longer[chain \in Seq(Clusters)] ==
             IF Valid(f[Last(chain)]) THEN Append(chain, f[Last(chain)]) ELSE chain
           walk[n \in 0 .. LastClus] == IF n = 0 THEN <<clus>> ELSE longer[walk[n - 1]]
<1>1. resolve_chain(f, clus) = IF Valid(clus) THEN walk[LastClus] ELSE <<>>
  BY DEF resolve_chain
<1> DEFINE Chains == Seq(Clusters) \ {<<>>}
           step == [p \in Chains \X (1 .. LastClus) |-> longer[p[1]]]
<1>2. ASSUME NEW chain \in Chains
      PROVE  /\ longer[chain] \in Chains
             /\ longer[chain] = IF Valid(f[Last(chain)]) THEN Append(chain, f[Last(chain)])
                                ELSE chain
  <2>1. f[Last(chain)] \in Clusters \cup {0, EOC}
    BY DEF Last, Tables
  <2>2. Valid(f[Last(chain)]) => f[Last(chain)] \in Clusters
    BY <2>1, Clusters1
  <2> QED BY <2>2
<1>3. PICK w : IsRecursion(w, LastClus, Chains, <<clus>>, step)
  <2>1. step \in [Chains \X (1 .. LastClus) -> Chains]
    <3> HIDE DEF longer, Chains
    <3> QED BY <1>2
  <2>2. <<clus>> \in Chains
    OBVIOUS
  <2>3. LastClus \in Nat
    OBVIOUS
  <2> HIDE DEF step, Chains
  <2> QED BY <2>1, <2>2, <2>3, Recursion
<1>4. ASSUME NEW n \in 1 .. LastClus
      PROVE  w[n - 1] \in Chains /\ w[n] = longer[w[n - 1]]
  <2>1. n - 1 \in 0 .. LastClus
    OBVIOUS
  <2> HIDE DEF longer, Chains
  <2> QED BY <1>3, <2>1 DEF IsRecursion
<1>5. w = [n \in 0 .. LastClus |-> IF n = 0 THEN <<clus>> ELSE longer[w[n - 1]]]
  <2> HIDE DEF longer
  <2>1. \A n \in 0 .. LastClus : n # 0 => n \in 1 .. LastClus
    OBVIOUS
  <2> QED BY <1>3, <1>4, <2>1, Zenon DEF IsRecursion
<1>6. walk = [n \in 0 .. LastClus |-> IF n = 0 THEN <<clus>> ELSE longer[walk[n - 1]]]
  BY <1>5, Zenon
<1> HIDE DEF longer, walk
<1>7. \A n \in 0 .. LastClus : walk[n] \in Chains
  <2> DEFINE T == {n \in Nat : n <= LastClus => walk[n] \in Chains}
  <2>1. 0 \in T
    BY <1>6
  <2>2. ASSUME NEW n \in Nat, n \in T
        PROVE  n + 1 \in T
    <3> SUFFICES ASSUME n + 1 <= LastClus
                 PROVE  walk[n + 1] \in Chains
      OBVIOUS
    <3> HIDE DEF Chains
    <3>1. walk[n + 1] = longer[walk[(n + 1) - 1]] /\ (n + 1) - 1 = n
      <4> DEFINE k == n + 1
      <4>1. k \in 0 .. LastClus /\ k # 0 /\ k - 1 = n
        OBVIOUS
      <4> HIDE DEF k
      <4>2. walk[k] = longer[walk[k - 1]]
        BY <1>6, <4>1
      <4> QED BY <4>1, <4>2 DEF k
    <3> QED BY <1>2, <2>2, <3>1
  <2> HIDE DEF T
  <2>3. Nat \subseteq T
    BY <2>1, <2>2, Induction
  <2> QED BY <2>3 DEF T
<1> QED
  <2>1. walk \in [0 .. LastClus -> Seq(Clusters)] /\ walk[0] = <<clus>>
    <3>1. 0 \in 0 .. LastClus
      OBVIOUS
    <3>2. walk[0] = <<clus>>
      BY <1>6, <3>1
    <3>3. walk = [n \in 0 .. LastClus |-> walk[n]]
      BY <1>6, Zenon
    <3>4. Chains \subseteq Seq(Clusters)
      OBVIOUS
    <3> HIDE DEF Chains
    <3> QED BY <1>7, <3>2, <3>3, <3>4
  <2>2. ASSUME NEW n \in 1 .. LastClus
        PROVE  walk[n - 1] \in Chains /\ walk[n] = longer[walk[n - 1]]
    <3>1. n - 1 \in 0 .. LastClus /\ n \in 0 .. LastClus /\ n # 0
      OBVIOUS
    <3> HIDE DEF Chains
    <3> QED BY <1>6, <1>7, <3>1
  <2>3. resolve_chain(f, clus) = walk[LastClus]
    BY <1>1, Clusters1
  <2> HIDE DEF Chains
  <2> QED BY <1>2, <2>1, <2>2, <2>3

LEMMA ResolveType ==
  ASSUME NEW f \in Tables, NEW clus \in 0 .. NoClus
  PROVE  /\ resolve_chain(f, clus) \in Seq(Clusters)
         /\ clus \notin Clusters => resolve_chain(f, clus) = <<>>
<1>1. CASE clus \in Clusters
  <2>1. PICK w \in [0 .. LastClus -> Seq(Clusters)] : resolve_chain(f, clus) = w[LastClus]
    BY <1>1, Walk
  <2> QED BY <1>1, <2>1
<1>2. CASE clus \notin Clusters
  <2>1. ~Valid(clus)
    BY <1>2, Clusters1
  <2> QED BY <1>2, <2>1 DEF resolve_chain
<1> QED BY <1>1, <1>2

\* A chain is one of any table that agrees on its clusters.
LEMMA SameChain ==
  ASSUME NEW f, NEW g, NEW clus, NEW s, IsChain(f, clus, s),
         \A i \in 1 .. Len(s) : g[s[i]] = f[s[i]]
  PROVE  IsChain(g, clus, s)
<1>1. Len(s) \in Nat \ {0}
  BY DEF IsChain
<1>2. Len(s) \in 1 .. Len(s) /\ 1 .. Len(s) - 1 \subseteq 1 .. Len(s)
  BY <1>1
<1> QED BY <1>2 DEF IsChain

\* A good chain is what resolve_chain finds.
LEMMA ChainIsResolved ==
  ASSUME NEW f \in Tables, NEW clus, NEW s, IsChain(f, clus, s)
  PROVE  resolve_chain(f, clus) = s
<1>1. s \in Seq(Clusters) /\ Len(s) \in Nat \ {0} /\ Len(s) < LastClus
  BY ChainLength DEF IsChain
<1>2. clus \in Clusters
  BY <1>1 DEF IsChain
<1>3. PICK w \in [0 .. LastClus -> Seq(Clusters)] :
        /\ w[0] = <<clus>>
        /\ \A n \in 1 .. LastClus :
             w[n] = IF Valid(f[Last(w[n - 1])]) THEN Append(w[n - 1], f[Last(w[n - 1])])
                    ELSE w[n - 1]
        /\ resolve_chain(f, clus) = w[LastClus]
  BY <1>2, Walk
<1> DEFINE Upto(n) == IF n + 1 <= Len(s) THEN SubSeq(s, 1, n + 1) ELSE s
           T == {n \in Nat : n <= LastClus => w[n] = Upto(n)}
<1>4. 0 \in T
  <2> DEFINE t == SubSeq(s, 1, 1)
  <2>1. t \in Seq(Clusters) /\ Len(t) = 1 /\ t[1] = clus
    BY <1>1 DEF IsChain
  <2>2. Upto(0) = t
    BY <1>1
  <2> HIDE DEF t
  <2>3. t = <<clus>>
    BY <2>1
  <2> QED BY <1>3, <2>2, <2>3
<1>5. ASSUME NEW n \in Nat, n \in T
      PROVE  n + 1 \in T
  <2> SUFFICES ASSUME n + 1 <= LastClus
               PROVE  w[n + 1] = Upto(n + 1)
    OBVIOUS
  <2>1. /\ w[n] = Upto(n)
        /\ w[n + 1] = IF Valid(f[Last(w[n])]) THEN Append(w[n], f[Last(w[n])]) ELSE w[n]
    <3>1. n + 1 \in 1 .. LastClus /\ (n + 1) - 1 = n
      OBVIOUS
    <3> QED BY <1>3, <1>5, <3>1
  <2>2. CASE n + 1 < Len(s)
    <3> DEFINE t == SubSeq(s, 1, n + 1)
    <3>1. w[n] = t /\ Last(t) = s[n + 1]
      <4>1. w[n] = t
        BY <1>1, <2>1, <2>2
      <4>2. n + 1 \in 1 .. Len(s) /\ n + 1 \in 1 .. n + 1
        BY <1>1, <2>2
      <4>3. Len(t) = n + 1 /\ t[n + 1] = s[n + 1]
        BY <1>1, <4>2
      <4> HIDE DEF t
      <4> QED BY <4>1, <4>3 DEF Last
    <3>2. f[s[n + 1]] = s[n + 2] /\ s[n + 2] \in Clusters
      <4>1. n + 1 \in 1 .. Len(s) - 1 /\ (n + 1) + 1 = n + 2 /\ n + 2 \in 1 .. Len(s)
        BY <1>1, <2>2
      <4>2. f[s[n + 1]] = s[(n + 1) + 1]
        BY <4>1 DEF IsChain
      <4>3. s[n + 2] \in Clusters
        BY <1>1, <4>1
      <4> QED BY <4>1, <4>2, <4>3
    <3>3. w[n + 1] = Append(t, s[n + 2])
      <4> HIDE DEF t
      <4> QED BY <2>1, <3>1, <3>2, Clusters1
    <3>4. Append(SubSeq(s, 1, n + 1), s[n + 2]) = SubSeq(s, 1, n + 2)
      BY <1>1, <2>2, SubSeqRecursiveSecond
    <3> QED BY <2>2, <3>3, <3>4
  <2>3. CASE ~(n + 1 < Len(s))
    <3>1. Upto(n) = s
      <4>1. CASE n + 1 = Len(s)
        BY <1>1, <4>1, SubSeqFull
      <4> QED BY <1>1, <2>3, <4>1
    <3>2. f[Last(s)] = EOC
      BY DEF IsChain, Last
    <3>3. ~Valid(EOC)
      BY Clusters1 DEF Valid
    <3>4. Upto(n + 1) = s
      BY <1>1, <2>3
    <3> QED BY <2>1, <3>1, <3>2, <3>3, <3>4
  <2> QED BY <2>2, <2>3
<1>6. Nat \subseteq T
  <2> HIDE DEF T
  <2> QED BY <1>4, <1>5, Induction
<1>7. w[LastClus] = s
  BY <1>1, <1>6
<1> QED BY <1>3, <1>7

------------------------------------------------------------------------------
(* The places of a chain *)

Places(s) == 1 .. Len(s) * Cells
Slot(s, k) == <<s[(k - 1) \div Cells + 1], ((k - 1) % Cells) + 1>>

LEMMA SlotParts ==
  ASSUME NEW s \in Seq(Clusters), NEW k \in Places(s)
  PROVE  /\ k - 1 \in Nat
         /\ (k - 1) \div Cells + 1 \in 1 .. Len(s)
         /\ ((k - 1) % Cells) + 1 \in 1 .. Cells
<1> DEFINE n == Len(s)
<1>1. n \in Nat /\ n * Cells \in Nat
  OBVIOUS
<1>2. k - 1 \in Nat /\ k - 1 < n * Cells
  BY <1>1 DEF Places
<1> HIDE DEF n
<1>3. (k - 1) \div Cells \in Nat /\ (k - 1) % Cells \in 0 .. Cells - 1
  BY <1>2, Division
<1>4. (k - 1) \div Cells < n
  BY <1>1, <1>2, QuotientBelow
<1> QED BY <1>1, <1>2, <1>3, <1>4 DEF n

LEMMA SlotType ==
  ASSUME NEW s \in Seq(Clusters), NEW k \in Places(s)
  PROVE  /\ Slot(s, k) \in Clusters \X (1 .. Cells)
         /\ \E i \in 1 .. Len(s) : Slot(s, k)[1] = s[i]
BY SlotParts DEF Slot

LEMMA SlotsDiffer ==
  ASSUME NEW s \in Seq(Clusters), IsInjective(s),
         NEW k \in Places(s), NEW m \in Places(s), Slot(s, k) = Slot(s, m)
  PROVE  k = m
<1>1. /\ k - 1 \in Nat /\ m - 1 \in Nat
      /\ (k - 1) \div Cells + 1 \in 1 .. Len(s) /\ (m - 1) \div Cells + 1 \in 1 .. Len(s)
      /\ ((k - 1) % Cells) + 1 \in 1 .. Cells /\ ((m - 1) % Cells) + 1 \in 1 .. Cells
  BY SlotParts
<1>2. (k - 1) \div Cells + 1 = (m - 1) \div Cells + 1
  <2> DEFINE i == (k - 1) \div Cells + 1  j == (m - 1) \div Cells + 1
  <2>1. i \in 1 .. Len(s) /\ j \in 1 .. Len(s)
    BY <1>1
  <2>2. s[i] = s[j]
    BY DEF Slot
  <2> HIDE DEF i, j
  <2>3. i = j
    BY <2>1, <2>2 DEF IsInjective
  <2> QED BY <2>3 DEF i, j
<1>3. ((k - 1) % Cells) + 1 = ((m - 1) % Cells) + 1
  BY <1>1 DEF Slot
<1> DEFINE a == k - 1  b == m - 1
<1>4. a \in Nat /\ b \in Nat
  BY <1>1
<1>5. a \div Cells = b \div Cells /\ (a % Cells) = (b % Cells)
  <2>1. a \div Cells + 1 = b \div Cells + 1 /\ (a % Cells) + 1 = (b % Cells) + 1
    BY <1>2, <1>3
  <2> HIDE DEF a, b
  <2>2. /\ a \div Cells \in Nat /\ b \div Cells \in Nat
        /\ a % Cells \in 0 .. Cells - 1 /\ b % Cells \in 0 .. Cells - 1
    BY <1>4, Division
  <2> QED BY <2>1, <2>2
<1>6. a = b
  <2> HIDE DEF a, b
  <2> QED BY <1>4, <1>5, SameParts
<1> QED BY <1>6 DEF Places

\* A longer chain has its places behind those there were.
Extends(s, t) ==
  /\ s \in Seq(Clusters) /\ t \in Seq(Clusters)
  /\ Len(s) <= Len(t)
  /\ \A i \in 1 .. Len(s) : t[i] = s[i]

LEMMA SlotsOfLonger ==
  ASSUME NEW s, NEW t, Extends(s, t), NEW k \in Places(t)
  PROVE  /\ k \in Places(s) => Slot(t, k) = Slot(s, k)
         /\ k \notin Places(s) => \E i \in Len(s) + 1 .. Len(t) : Slot(t, k)[1] = t[i]
<1> DEFINE i == (k - 1) \div Cells + 1
<1>1. k - 1 \in Nat /\ i \in 1 .. Len(t) /\ Len(s) \in Nat
  BY SlotParts DEF Extends
<1>2. ASSUME k \in Places(s)
      PROVE  Slot(t, k) = Slot(s, k)
  <2>1. i \in 1 .. Len(s)
    BY <1>2, SlotParts DEF Extends
  <2> QED BY <2>1 DEF Slot, Extends
<1>3. ASSUME k \notin Places(s)
      PROVE  \E j \in Len(s) + 1 .. Len(t) : Slot(t, k)[1] = t[j]
  <2>1. ~(k - 1 < Len(s) * Cells)
    <3>1. Len(s) * Cells \in Nat
      BY <1>1
    <3> QED BY <1>1, <1>3, <3>1 DEF Places
  <2>2. ~((k - 1) \div Cells < Len(s))
    BY <1>1, <2>1, QuotientBelow
  <2>3. i \in Len(s) + 1 .. Len(t)
    BY <1>1, <2>2
  <2> QED BY <2>3 DEF Slot
<1> QED BY <1>2, <1>3

LEMMA PlacesOfLonger ==
  ASSUME NEW s, NEW t, Extends(s, t)
  PROVE  Places(s) \subseteq Places(t) /\ Len(s) * Cells <= Len(t) * Cells
<1> DEFINE m == Len(s)  n == Len(t)
<1>1. m \in Nat /\ n \in Nat /\ m <= n
  BY DEF Extends
<1> HIDE DEF m, n
<1>2. m * Cells <= n * Cells /\ m * Cells \in Nat /\ n * Cells \in Nat
  BY <1>1
<1>3. 1 .. m * Cells \subseteq 1 .. n * Cells
  BY <1>2
<1> QED BY <1>2, <1>3 DEF Places, m, n

LEMMA SlotsOfChain ==
  ASSUME NEW s \in Seq(Clusters)
  PROVE  /\ SlotsOf[s] \in Seq(Locs)
         /\ DOMAIN SlotsOf[s] = Places(s)
         /\ \A k \in Places(s) : SlotsOf[s][k] = Slot(s, k)
<1>1. SlotsOf[s] = [k \in 1 .. Len(s) * Cells |-> Slot(s, k)]
  BY DEF SlotsOf, Slot
<1>2. Len(s) * Cells \in Nat
  OBVIOUS
<1>3. \A k \in Places(s) : Slot(s, k) \in Locs
  BY SlotType, Clusters1 DEF Locs, Clusters, EOC, RootClus
<1> QED BY <1>1, <1>2, <1>3 DEF Places

------------------------------------------------------------------------------
(* The layout of a disk *)

Cell == Data \cup {Zero, Deleted} \cup Entries
Disks == [Clusters -> [1 .. Cells -> Cell]]

\* What a disk c has at a place, and which directory or file begins there.
Word(c, loc) == c[loc[1]][loc[2]]
Clus(c, loc) == IF loc = NoLoc THEN RootClus ELSE Word(c, loc).clus
IsDir(c, loc) == loc = NoLoc \/ Word(c, loc).dir

Typed(f, c, L, C) ==
  /\ f \in Tables /\ c \in Disks
  /\ NoLoc \in L
  /\ C \in [L -> Seq(Clusters)]

\* L has entries only.
Named(c, L) ==
  \A loc \in L \ {NoLoc} : loc \in Clusters \X (1 .. Cells) /\ Word(c, loc) \in Entries

Chained(f, c, L, C) == \A loc \in L : IsChain(f, Clus(c, loc), C[loc])

\* No cluster is in two chains.
Apart(L, C) ==
  \A l \in L, m \in L :
    l # m => \A i \in 1 .. Len(C[l]), j \in 1 .. Len(C[m]) : C[l][i] # C[m][j]

Sized(c, L, C) ==
  \A loc \in L \ {NoLoc} :
    /\ Word(c, loc).size <= Len(C[loc]) * Cells
    /\ IsDir(c, loc) => Word(c, loc).size = 0

\* Every entry in a directory of L is in L, and what is in L is an entry in a
\* directory of L: L is what can be found, and freed clusters hold nothing of it.
Closed(c, L, C) ==
  \A dir \in L : IsDir(c, dir) =>
    \A k \in Places(C[dir]) :
      IsEntry(Word(c, Slot(C[dir], k))) => Slot(C[dir], k) \in L
Placed(c, L, C) ==
  \A loc \in L \ {NoLoc} : \E dir \in L :
    IsDir(c, dir) /\ \E k \in Places(C[dir]) : loc = Slot(C[dir], k)

\* The slots of a directory hold nothing else than entries.
Clean(c, L, C) ==
  \A dir \in L : IsDir(c, dir) =>
    \A k \in Places(C[dir]) : Word(c, Slot(C[dir], k)) \in Entries \cup {Zero, Deleted}

\* Behind a slot never used no slot was ever used: the first of them ends the
\* search of is_dir_empty, which must not miss an entry.
ZerosLast(c, L, C) ==
  \A dir \in L : IsDir(c, dir) =>
    \A k \in Places(C[dir]), m \in Places(C[dir]) :
      k < m /\ Word(c, Slot(C[dir], k)) = Zero => Word(c, Slot(C[dir], m)) = Zero

\* A name is that of one entry of a directory.
Distinct(c, L, C) ==
  \A dir \in L : IsDir(c, dir) =>
    \A k \in Places(C[dir]), m \in Places(C[dir]) :
      /\ IsEntry(Word(c, Slot(C[dir], k))) /\ IsEntry(Word(c, Slot(C[dir], m)))
      /\ Word(c, Slot(C[dir], k)).name = Word(c, Slot(C[dir], m)).name
      => k = m

Layout(f, c, L, C) ==
  /\ Typed(f, c, L, C)
  /\ Named(c, L)
  /\ Chained(f, c, L, C)
  /\ Apart(L, C)
  /\ Sized(c, L, C)
  /\ Closed(c, L, C)
  /\ Placed(c, L, C)
  /\ Clean(c, L, C)
  /\ ZerosLast(c, L, C)
  /\ Distinct(c, L, C)

\* A cluster of no chain.
Loose(x, L, C) == \A l \in L : \A i \in 1 .. Len(C[l]) : C[l][i] # x

\* What every entry is known to be.
LEMMA EntryType ==
  ASSUME NEW e \in Entries
  PROVE  /\ e.clus \in Clusters \cup {NoClus} /\ e.size \in Nat /\ e.dir \in BOOLEAN
         /\ IsEntry(e) /\ e # Zero /\ e # Deleted
BY DEF Entries, IsEntry

LEMMA CellIsEntry ==
  ASSUME NEW w \in Cell
  PROVE  IsEntry(w) <=> w \in Entries
BY DEF Cell, IsEntry

LEMMA ChainFacts ==
  ASSUME NEW f, NEW c, NEW L, NEW C, Layout(f, c, L, C), NEW loc \in L
  PROVE  /\ C[loc] \in Seq(Clusters) /\ Len(C[loc]) \in Nat \ {0}
         /\ C[loc][1] = Clus(c, loc) /\ Clus(c, loc) \in Clusters
         /\ IsInjective(C[loc])
         /\ \A i \in 1 .. Len(C[loc]) : C[loc][i] \in Clusters /\ f[C[loc][i]] # 0
<1>1. IsChain(f, Clus(c, loc), C[loc]) /\ C[loc] \in Seq(Clusters)
  BY DEF Layout, Chained, Typed
<1>2. Len(C[loc]) \in Nat \ {0}
  BY <1>1 DEF IsChain
<1>3. ASSUME NEW i \in 1 .. Len(C[loc])
      PROVE  C[loc][i] \in Clusters /\ f[C[loc][i]] # 0
  <2>1. CASE i = Len(C[loc])
    BY <1>1, <1>2, <2>1, Clusters1 DEF IsChain
  <2>2. CASE i # Len(C[loc])
    <3>1. i \in 1 .. Len(C[loc]) - 1 /\ i + 1 \in 1 .. Len(C[loc])
      BY <1>2, <2>2
    <3>2. f[C[loc][i]] = C[loc][i + 1] /\ C[loc][i + 1] \in Clusters
      BY <1>1, <3>1 DEF IsChain
    <3> QED BY <1>1, <3>2, Clusters1
  <2> QED BY <2>1, <2>2
<1> QED BY <1>1, <1>2, <1>3 DEF IsChain

\* A free cluster is in no chain.
LEMMA FreeIsLoose ==
  ASSUME NEW f, NEW c, NEW L, NEW C, Layout(f, c, L, C), NEW x \in Clusters, f[x] = 0
  PROVE  Loose(x, L, C)
BY ChainFacts DEF Loose

\* The slots of a directory lie in clusters of its chain, those of L too.
LEMMA SlotIsHeld ==
  ASSUME NEW f, NEW c, NEW L, NEW C, Layout(f, c, L, C), NEW dir \in L, NEW k \in Places(C[dir])
  PROVE  /\ Slot(C[dir], k) \in Clusters \X (1 .. Cells)
         /\ Word(c, Slot(C[dir], k)) \in Cell
         /\ ~Loose(Slot(C[dir], k)[1], L, C)
         /\ \E i \in 1 .. Len(C[dir]) : Slot(C[dir], k)[1] = C[dir][i]
<1>1. C[dir] \in Seq(Clusters)
  BY DEF Layout, Typed
<1>2. /\ Slot(C[dir], k) \in Clusters \X (1 .. Cells)
      /\ \E i \in 1 .. Len(C[dir]) : Slot(C[dir], k)[1] = C[dir][i]
  BY <1>1, SlotType
<1>3. Word(c, Slot(C[dir], k)) \in Cell
  BY <1>2 DEF Layout, Typed, Disks, Word
<1>4. ~Loose(Slot(C[dir], k)[1], L, C)
  BY <1>2 DEF Loose
<1> QED BY <1>2, <1>3, <1>4

LEMMA PlaceIsHeld ==
  ASSUME NEW f, NEW c, NEW L, NEW C, Layout(f, c, L, C), NEW loc \in L \ {NoLoc}
  PROVE  /\ loc \in Clusters \X (1 .. Cells)
         /\ Word(c, loc) \in Entries
         /\ \E dir \in L : IsDir(c, dir) /\ \E i \in 1 .. Len(C[dir]) : loc[1] = C[dir][i]
<1>1. loc \in Clusters \X (1 .. Cells) /\ Word(c, loc) \in Entries
  BY DEF Layout, Named
<1>2. PICK dir \in L : IsDir(c, dir) /\ \E k \in Places(C[dir]) : loc = Slot(C[dir], k)
  BY DEF Layout, Placed
<1>3. \E i \in 1 .. Len(C[dir]) : loc[1] = C[dir][i]
  <2>1. PICK k \in Places(C[dir]) : loc = Slot(C[dir], k)
    BY <1>2
  <2>2. C[dir] \in Seq(Clusters)
    BY ChainFacts
  <2> QED BY <2>1, <2>2, SlotType
<1> QED BY <1>1, <1>2, <1>3

LEMMA StoreWord ==
  ASSUME NEW c \in Disks, NEW loc \in Clusters \X (1 .. Cells), NEW w \in Cell
  PROVE  /\ Store(c, loc, w) \in Disks
         /\ \A l \in Clusters \X (1 .. Cells) :
              Word(Store(c, loc, w), l) = IF l = loc THEN w ELSE Word(c, l)
BY DEF Disks, Store, Word

------------------------------------------------------------------------------
(* What keeps the layout *)

\* What the clusters of no chain hold is no entry's and no slot's.
LEMMA LooseContent ==
  ASSUME NEW f, NEW c, NEW L, NEW C, Layout(f, c, L, C), NEW d,
         \A x \in Clusters : ~Loose(x, L, C) => d[x] = c[x]
  PROVE  /\ \A loc \in L \ {NoLoc} : Word(d, loc) = Word(c, loc)
         /\ \A loc \in L : Clus(d, loc) = Clus(c, loc) /\ IsDir(d, loc) = IsDir(c, loc)
         /\ \A dir \in L : \A k \in Places(C[dir]) :
              Word(d, Slot(C[dir], k)) = Word(c, Slot(C[dir], k))
<1>1. ASSUME NEW loc \in L \ {NoLoc}
      PROVE  Word(d, loc) = Word(c, loc)
  <2>1. loc[1] \in Clusters /\ ~Loose(loc[1], L, C)
    BY PlaceIsHeld DEF Loose
  <2> QED BY <2>1 DEF Word
<1>2. ASSUME NEW loc \in L
      PROVE  Clus(d, loc) = Clus(c, loc) /\ IsDir(d, loc) = IsDir(c, loc)
  BY <1>1 DEF Clus, IsDir
<1>3. ASSUME NEW dir \in L, NEW k \in Places(C[dir])
      PROVE  Word(d, Slot(C[dir], k)) = Word(c, Slot(C[dir], k))
  <2> DEFINE loc == Slot(C[dir], k)
  <2>1. loc \in Clusters \X (1 .. Cells) /\ ~Loose(loc[1], L, C)
    BY SlotIsHeld
  <2> HIDE DEF loc
  <2>2. Word(d, loc) = Word(c, loc)
    BY <2>1 DEF Word
  <2> QED BY <2>2 DEF loc
<1> QED BY <1>1, <1>2, <1>3

\* What happens to clusters of no chain.
LEMMA Untouched ==
  ASSUME NEW f, NEW c, NEW L, NEW C, Layout(f, c, L, C),
         NEW g \in Tables, NEW d \in Disks,
         \A x \in Clusters : ~Loose(x, L, C) => g[x] = f[x] /\ d[x] = c[x]
  PROVE  Layout(g, d, L, C)
<1>1. \A loc \in L \ {NoLoc} : Word(d, loc) = Word(c, loc)
  BY LooseContent
<1>2. \A loc \in L : Clus(d, loc) = Clus(c, loc) /\ IsDir(d, loc) = IsDir(c, loc)
  BY LooseContent
<1>3. \A dir \in L : \A k \in Places(C[dir]) :
        Word(d, Slot(C[dir], k)) = Word(c, Slot(C[dir], k))
  BY LooseContent
<1>4. Typed(g, d, L, C)
  BY DEF Layout, Typed
<1>5. Named(d, L) /\ Sized(d, L, C)
  BY <1>1, <1>2 DEF Layout, Named, Sized
<1>6. Chained(g, d, L, C)
  <2> SUFFICES ASSUME NEW loc \in L
               PROVE  IsChain(g, Clus(d, loc), C[loc])
    BY DEF Chained
  <2>1. IsChain(f, Clus(d, loc), C[loc])
    BY <1>2 DEF Layout, Chained
  <2>2. \A i \in 1 .. Len(C[loc]) : g[C[loc][i]] = f[C[loc][i]]
    BY ChainFacts DEF Loose
  <2> QED BY <2>1, <2>2, SameChain
<1>7. Apart(L, C)
  BY DEF Layout
<1>8. Closed(d, L, C) /\ Placed(d, L, C)
  BY <1>2, <1>3 DEF Layout, Closed, Placed
<1>9. ZerosLast(d, L, C)
  BY <1>2, <1>3 DEF Layout, ZerosLast
<1>10. Distinct(d, L, C)
  BY <1>2, <1>3 DEF Layout, Distinct
<1>11. Clean(d, L, C)
  BY <1>2, <1>3 DEF Layout, Clean
<1> QED BY <1>4, <1>5, <1>6, <1>7, <1>8, <1>9, <1>10, <1>11 DEF Layout

\* A chain gets clusters there were in no other, empty ones if it is a directory's.
LEMMA Lengthen ==
  ASSUME NEW f, NEW c, NEW L, NEW C, Layout(f, c, L, C),
         NEW h \in L, NEW t, Extends(C[h], t),
         NEW g \in Tables, IsChain(g, Clus(c, h), t),
         \A i \in Len(C[h]) + 1 .. Len(t) : Loose(t[i], L, C),
         IsDir(c, h) => \A i \in Len(C[h]) + 1 .. Len(t) : c[t[i]] = Blank,
         \A x \in Clusters : (\A i \in 1 .. Len(t) : t[i] # x) => g[x] = f[x]
  PROVE  Layout(g, c, L, [C EXCEPT ![h] = t])
<1> DEFINE D == [C EXCEPT ![h] = t]
<1>1. D \in [L -> Seq(Clusters)] /\ D[h] = t /\ \A l \in L \ {h} : D[l] = C[l]
  BY DEF Layout, Typed, Extends
<1>2. Typed(g, c, L, D)
  BY <1>1 DEF Layout, Typed
<1>3. /\ Len(t) \in Nat /\ Len(C[h]) \in Nat /\ Len(C[h]) <= Len(t)
      /\ \A i \in 1 .. Len(C[h]) : t[i] = C[h][i]
  BY DEF Extends
\* Each cluster of t is one of C[h], or loose.
<1>4. ASSUME NEW l \in L, l # h, NEW i \in 1 .. Len(C[l]), NEW j \in 1 .. Len(t)
      PROVE  C[l][i] # t[j]
  <2>1. CASE j \in 1 .. Len(C[h])
    BY <1>3, <1>4, <2>1 DEF Layout, Apart
  <2>2. CASE j \notin 1 .. Len(C[h])
    <3>1. j \in Len(C[h]) + 1 .. Len(t)
      BY <1>3, <2>2
    <3> QED BY <3>1 DEF Loose
  <2> QED BY <2>1, <2>2
<1> HIDE DEF D
<1>5. Chained(g, c, L, D)
  <2> SUFFICES ASSUME NEW loc \in L
               PROVE  IsChain(g, Clus(c, loc), D[loc])
    BY DEF Chained
  <2>1. CASE loc = h
    BY <1>1, <2>1
  <2>2. CASE loc # h
    <3>1. IsChain(f, Clus(c, loc), C[loc]) /\ D[loc] = C[loc]
      BY <1>1, <2>2 DEF Layout, Chained
    <3>2. \A i \in 1 .. Len(C[loc]) : g[C[loc][i]] = f[C[loc][i]]
      BY <1>4, <2>2, ChainFacts
    <3> QED BY <3>1, <3>2, SameChain
  <2> QED BY <2>1, <2>2
<1>6. Apart(L, D)
  <2> SUFFICES ASSUME NEW l \in L, NEW m \in L, l # m,
                      NEW i \in 1 .. Len(D[l]), NEW j \in 1 .. Len(D[m])
               PROVE  D[l][i] # D[m][j]
    BY DEF Apart
  <2>1. CASE l = h
    BY <1>1, <1>4, <2>1
  <2>2. CASE m = h
    BY <1>1, <1>4, <2>2
  <2>3. CASE l # h /\ m # h
    <3>1. D[l] = C[l] /\ D[m] = C[m]
      BY <1>1, <2>3
    <3> QED BY <3>1 DEF Layout, Apart
  <2> QED BY <2>1, <2>2, <2>3
<1>7. \A l \in L : Places(C[l]) \subseteq Places(D[l]) /\ Len(C[l]) * Cells <= Len(D[l]) * Cells
  <2> TAKE l \in L
  <2>1. CASE l = h
    BY <1>1, <2>1, PlacesOfLonger
  <2>2. CASE l # h
    <3>1. D[l] = C[l]
      BY <1>1, <2>2
    <3>2. Len(C[l]) * Cells \in Nat
      BY ChainFacts
    <3> QED BY <3>1, <3>2
  <2> QED BY <2>1, <2>2
<1>8. Sized(c, L, D)
  <2> SUFFICES ASSUME NEW loc \in L \ {NoLoc}
               PROVE  Word(c, loc).size <= Len(D[loc]) * Cells
    BY DEF Layout, Sized
  <2> DEFINE a == Len(C[loc]) * Cells  b == Len(D[loc]) * Cells
  <2>1. Word(c, loc).size <= a /\ a <= b
    BY <1>7 DEF Layout, Sized
  <2>2. Word(c, loc).size \in Nat
    BY PlaceIsHeld, EntryType
  <2>3. a \in Nat /\ b \in Nat
    BY <1>1, ChainFacts
  <2> HIDE DEF a, b
  <2>4. Word(c, loc).size <= b
    BY <2>1, <2>2, <2>3
  <2> QED BY <2>4 DEF b
\* A place of the longer chain is one of the shorter, or empty.
<1>9. ASSUME NEW l \in L, IsDir(c, l), NEW k \in Places(D[l])
      PROVE  /\ k \in Places(C[l]) => Slot(D[l], k) = Slot(C[l], k)
             /\ k \notin Places(C[l]) => Word(c, Slot(D[l], k)) = Zero
  <2>1. CASE l = h
    <3>1. k \in Places(C[l]) => Slot(D[l], k) = Slot(C[l], k)
      BY <1>1, <1>9, <2>1, SlotsOfLonger
    <3>2. ASSUME k \notin Places(C[l])
          PROVE  Word(c, Slot(D[l], k)) = Zero
      <4>1. PICK i \in Len(C[h]) + 1 .. Len(t) : Slot(t, k)[1] = t[i]
        BY <1>1, <1>9, <2>1, <3>2, SlotsOfLonger
      <4>2. Slot(t, k)[2] \in 1 .. Cells
        BY <1>1, <1>9, <2>1, SlotType DEF Extends
      <4>3. c[t[i]] = Blank
        BY <1>9, <2>1
      <4> QED BY <1>1, <2>1, <4>1, <4>2, <4>3 DEF Word, Blank
    <3> QED BY <3>1, <3>2
  <2>2. CASE l # h
    BY <1>1, <1>9, <2>2
  <2> QED BY <2>1, <2>2
<1>10. Closed(c, L, D)
  <2> SUFFICES ASSUME NEW l \in L, IsDir(c, l), NEW k \in Places(D[l]),
                      IsEntry(Word(c, Slot(D[l], k)))
               PROVE  Slot(D[l], k) \in L
    BY DEF Closed
  <2>1. k \in Places(C[l]) /\ Slot(D[l], k) = Slot(C[l], k)
    BY <1>9 DEF IsEntry
  <2> QED BY <2>1 DEF Layout, Closed
<1>11. Placed(c, L, D)
  <2> SUFFICES ASSUME NEW loc \in L \ {NoLoc}
               PROVE  \E l \in L : IsDir(c, l) /\ \E k \in Places(D[l]) : loc = Slot(D[l], k)
    BY DEF Placed
  <2>1. PICK l \in L : IsDir(c, l) /\ \E k \in Places(C[l]) : loc = Slot(C[l], k)
    BY DEF Layout, Placed
  <2> QED BY <1>7, <1>9, <2>1
<1>12. ZerosLast(c, L, D)
  <2> SUFFICES ASSUME NEW l \in L, IsDir(c, l), NEW k \in Places(D[l]), NEW m \in Places(D[l]),
                      k < m, Word(c, Slot(D[l], k)) = Zero
               PROVE  Word(c, Slot(D[l], m)) = Zero
    BY DEF ZerosLast
  <2>1. CASE m \in Places(C[l])
    <3>1. k \in Places(C[l])
      BY <1>3, <2>1, ChainFacts DEF Places
    <3> QED BY <1>9, <2>1, <3>1 DEF Layout, ZerosLast
  <2>2. CASE m \notin Places(C[l])
    BY <1>9, <2>2
  <2> QED BY <2>1, <2>2
<1>13. Named(c, L)
  BY DEF Layout
<1>14. Distinct(c, L, D)
  <2> SUFFICES ASSUME NEW l \in L, IsDir(c, l), NEW k \in Places(D[l]), NEW m \in Places(D[l]),
                      IsEntry(Word(c, Slot(D[l], k))), IsEntry(Word(c, Slot(D[l], m))),
                      Word(c, Slot(D[l], k)).name = Word(c, Slot(D[l], m)).name
               PROVE  k = m
    BY DEF Distinct
  <2>1. /\ k \in Places(C[l]) /\ Slot(D[l], k) = Slot(C[l], k)
        /\ m \in Places(C[l]) /\ Slot(D[l], m) = Slot(C[l], m)
    BY <1>9 DEF IsEntry
  <2> QED BY <2>1 DEF Layout, Distinct
<1>15. Clean(c, L, D)
  <2> SUFFICES ASSUME NEW l \in L, IsDir(c, l), NEW k \in Places(D[l])
               PROVE  Word(c, Slot(D[l], k)) \in Entries \cup {Zero, Deleted}
    BY DEF Clean
  <2> QED BY <1>9 DEF Layout, Clean
<1> QED BY <1>2, <1>5, <1>6, <1>8, <1>10, <1>11, <1>12, <1>13, <1>14, <1>15 DEF Layout, D

\* What is written to the clusters of a file.
LEMMA Overwrite ==
  ASSUME NEW f, NEW c, NEW L, NEW C, Layout(f, c, L, C),
         NEW h \in L, ~IsDir(c, h), NEW d \in Disks,
         \A x \in Clusters : (\A i \in 1 .. Len(C[h]) : C[h][i] # x) => d[x] = c[x]
  PROVE  Layout(f, d, L, C) /\ \A loc \in L \ {NoLoc} : Word(d, loc) = Word(c, loc)
<1>1. ASSUME NEW dir \in L, IsDir(c, dir), NEW i \in 1 .. Len(C[dir])
      PROVE  d[C[dir][i]] = c[C[dir][i]]
  <2>1. dir # h
    BY <1>1
  <2>2. \A j \in 1 .. Len(C[h]) : C[h][j] # C[dir][i]
    BY <2>1 DEF Layout, Apart
  <2>3. C[dir][i] \in Clusters
    BY ChainFacts
  <2> QED BY <2>2, <2>3
<1>2. \A loc \in L \ {NoLoc} : Word(d, loc) = Word(c, loc)
  BY <1>1, PlaceIsHeld DEF Word
<1>3. \A loc \in L : Clus(d, loc) = Clus(c, loc) /\ IsDir(d, loc) = IsDir(c, loc)
  BY <1>2 DEF Clus, IsDir
<1>4. \A dir \in L : IsDir(c, dir) => \A k \in Places(C[dir]) :
        Word(d, Slot(C[dir], k)) = Word(c, Slot(C[dir], k))
  <2> SUFFICES ASSUME NEW dir \in L, IsDir(c, dir), NEW k \in Places(C[dir])
               PROVE  Word(d, Slot(C[dir], k)) = Word(c, Slot(C[dir], k))
    OBVIOUS
  <2>1. PICK i \in 1 .. Len(C[dir]) : Slot(C[dir], k)[1] = C[dir][i]
    BY SlotIsHeld
  <2>2. d[C[dir][i]] = c[C[dir][i]]
    BY <1>1
  <2> QED BY <2>1, <2>2 DEF Word
<1>5. Typed(f, d, L, C)
  BY DEF Layout, Typed
<1>6. Named(d, L) /\ Sized(d, L, C) /\ Chained(f, d, L, C)
  BY <1>2, <1>3 DEF Layout, Named, Sized, Chained
<1>7. Closed(d, L, C) /\ Placed(d, L, C)
  BY <1>3, <1>4 DEF Layout, Closed, Placed
<1>8. Clean(d, L, C)
  BY <1>3, <1>4 DEF Layout, Clean
<1>9. ZerosLast(d, L, C)
  BY <1>3, <1>4 DEF Layout, ZerosLast
<1>10. Distinct(d, L, C)
  BY <1>3, <1>4 DEF Layout, Distinct
<1> QED BY <1>2, <1>5, <1>6, <1>7, <1>8, <1>9, <1>10 DEF Layout

\* The size in an entry changes, within what its chain holds.
Resized(c, h, n) == Store(c, h, [Word(c, h) EXCEPT !.size = n])

LEMMA Resizing ==
  ASSUME NEW f, NEW c, NEW L, NEW C, Layout(f, c, L, C),
         NEW h \in L \ {NoLoc}, NEW n \in Nat
  PROVE  /\ \A q \in Clusters \X (1 .. Cells) : q # h => Word(Resized(c, h, n), q) = Word(c, q)
         /\ Word(Resized(c, h, n), h).name = Word(c, h).name
         /\ Word(Resized(c, h, n), h).dir = Word(c, h).dir
<1> DEFINE e == [Word(c, h) EXCEPT !.size = n]  d == Store(c, h, e)
<1>1. h \in Clusters \X (1 .. Cells) /\ Word(c, h) \in Entries /\ c \in Disks
  BY PlaceIsHeld DEF Layout, Typed
<1>2. e \in Entries /\ e.dir = Word(c, h).dir /\ e.name = Word(c, h).name
  BY <1>1 DEF Entries
<1> HIDE DEF e
<1>3. \A q \in Clusters \X (1 .. Cells) : Word(d, q) = IF q = h THEN e ELSE Word(c, q)
  BY <1>1, <1>2, StoreWord DEF Cell
<1> HIDE DEF d
<1>4. Word(d, h) = e
  BY <1>1, <1>3
<1> QED BY <1>2, <1>3, <1>4 DEF d, e, Resized

LEMMA Resize ==
  ASSUME NEW f, NEW c, NEW L, NEW C, Layout(f, c, L, C),
         NEW h \in L \ {NoLoc}, NEW n \in Nat, n <= Len(C[h]) * Cells, IsDir(c, h) => n = 0
  PROVE  /\ Layout(f, Resized(c, h, n), L, C)
         /\ Word(Resized(c, h, n), h) \in Entries
         /\ Word(Resized(c, h, n), h).size = n
         /\ Word(Resized(c, h, n), h).dir = Word(c, h).dir
         /\ Word(Resized(c, h, n), h).clus = Word(c, h).clus
         /\ Word(Resized(c, h, n), h).name = Word(c, h).name
<1> DEFINE e == [Word(c, h) EXCEPT !.size = n]  d == Store(c, h, e)
<1>1. h \in Clusters \X (1 .. Cells) /\ Word(c, h) \in Entries /\ c \in Disks
  BY PlaceIsHeld DEF Layout, Typed
<1>2. /\ e \in Entries /\ e.dir = Word(c, h).dir /\ e.clus = Word(c, h).clus /\ e.size = n
      /\ e.name = Word(c, h).name
  BY <1>1 DEF Entries
<1> HIDE DEF e
<1>3. d \in Disks /\ \A loc \in Clusters \X (1 .. Cells) :
                       Word(d, loc) = IF loc = h THEN e ELSE Word(c, loc)
  BY <1>1, <1>2, StoreWord DEF Cell
<1> HIDE DEF d
<1>4. \A loc \in L \ {NoLoc} : Word(d, loc) = IF loc = h THEN e ELSE Word(c, loc)
  BY <1>3, PlaceIsHeld
<1>5. \A loc \in L : Clus(d, loc) = Clus(c, loc) /\ IsDir(d, loc) = IsDir(c, loc)
  BY <1>2, <1>4 DEF Clus, IsDir
<1>6. ASSUME NEW dir \in L, NEW k \in Places(C[dir])
      PROVE  /\ Slot(C[dir], k) # h => Word(d, Slot(C[dir], k)) = Word(c, Slot(C[dir], k))
             /\ Word(d, Slot(C[dir], k)) = Zero <=> Word(c, Slot(C[dir], k)) = Zero
             /\ IsEntry(Word(d, Slot(C[dir], k))) <=> IsEntry(Word(c, Slot(C[dir], k)))
             /\ IsEntry(Word(c, Slot(C[dir], k))) =>
                  Word(d, Slot(C[dir], k)).name = Word(c, Slot(C[dir], k)).name
  BY <1>1, <1>2, <1>3, SlotIsHeld, EntryType
<1>7. Typed(f, d, L, C)
  BY <1>3 DEF Layout, Typed
<1>8. Named(d, L)
  BY <1>2, <1>4 DEF Layout, Named
<1>9. Sized(d, L, C)
  BY <1>2, <1>4, <1>5 DEF Layout, Sized
<1>10. Chained(f, d, L, C)
  BY <1>5 DEF Layout, Chained
<1>11. Closed(d, L, C)
  BY <1>5, <1>6 DEF Layout, Closed
<1>12. Placed(d, L, C)
  BY <1>5 DEF Layout, Placed
<1>13. ZerosLast(d, L, C)
  <2> SUFFICES ASSUME NEW dir \in L, IsDir(d, dir),
                      NEW k \in Places(C[dir]), NEW m \in Places(C[dir]),
                      k < m, Word(d, Slot(C[dir], k)) = Zero
               PROVE  Word(d, Slot(C[dir], m)) = Zero
    BY DEF ZerosLast
  <2>1. IsDir(c, dir) /\ Word(c, Slot(C[dir], k)) = Zero
    BY <1>5, <1>6
  <2>2. Word(c, Slot(C[dir], m)) = Zero
    BY <2>1 DEF Layout, ZerosLast
  <2> QED BY <1>6, <2>2
<1>14. Distinct(d, L, C)
  BY <1>5, <1>6 DEF Layout, Distinct
<1>15. Clean(d, L, C)
  <2> SUFFICES ASSUME NEW dir \in L, IsDir(d, dir), NEW k \in Places(C[dir])
               PROVE  Word(d, Slot(C[dir], k)) \in Entries \cup {Zero, Deleted}
    BY DEF Clean
  <2>1. Word(c, Slot(C[dir], k)) \in Entries \cup {Zero, Deleted}
    BY <1>5 DEF Layout, Clean
  <2> QED BY <1>2, <1>3, <2>1, SlotIsHeld
<1>16. Layout(f, d, L, C)
  BY <1>7, <1>8, <1>9, <1>10, <1>11, <1>12, <1>13, <1>14, <1>15 DEF Layout
<1> QED BY <1>2, <1>4, <1>16 DEF d, e, Resized

\* What is asked of a new entry e and its place, the k-th of dir: it is the first
\* slot never used, the entry's name is new there and its cluster x was in no chain.
Enters(f, c, L, C, dir, k, x, e, loc) ==
  /\ Layout(f, c, L, C)
  /\ dir \in L /\ IsDir(c, dir) /\ k \in Places(C[dir]) /\ loc = Slot(C[dir], k)
  /\ Word(c, loc) = Zero
  /\ \A m \in Places(C[dir]) : m < k => Word(c, Slot(C[dir], m)) # Zero
  /\ x \in Clusters /\ Loose(x, L, C) /\ f[x] = EOC
  /\ e \in Entries /\ e.clus = x /\ e.size = 0 /\ (e.dir => c[x] = Blank)
  /\ \A m \in Places(C[dir]) :
       IsEntry(Word(c, Slot(C[dir], m))) => Word(c, Slot(C[dir], m)).name # e.name

\* The chains with the one of the new entry.
With(L, C, loc, x) == [l \in L \cup {loc} |-> IF l = loc THEN <<x>> ELSE C[l]]

LEMMA Enter ==
  ASSUME NEW f, NEW c, NEW L, NEW C, NEW dir, NEW k, NEW x, NEW e, NEW loc,
         Enters(f, c, L, C, dir, k, x, e, loc)
  PROVE  /\ loc \notin L /\ loc # NoLoc
         /\ Word(Store(c, loc, e), loc) = e
         /\ Layout(f, Store(c, loc, e), L \cup {loc}, With(L, C, loc, x))
<1>1. Layout(f, c, L, C) /\ dir \in L /\ k \in Places(C[dir])
  BY DEF Enters
<1>2. /\ Slot(C[dir], k) \in Clusters \X (1 .. Cells)
       /\ ~Loose(Slot(C[dir], k)[1], L, C)
       /\ \E i \in 1 .. Len(C[dir]) : Slot(C[dir], k)[1] = C[dir][i]
  <2>1. Slot(C[dir], k) \in Clusters \X (1 .. Cells) /\ ~Loose(Slot(C[dir], k)[1], L, C)
    BY <1>1, SlotIsHeld
  <2>2. \E i \in 1 .. Len(C[dir]) : Slot(C[dir], k)[1] = C[dir][i]
    BY <1>1, SlotIsHeld
  <2> QED BY <2>1, <2>2
<1> USE DEF Enters
<1> DEFINE d == Store(c, loc, e)  M == L \cup {loc}
           D == With(L, C, loc, x)
<1>3. /\ loc \in Clusters \X (1 .. Cells) /\ c \in Disks
      /\ ~Loose(loc[1], L, C) /\ Word(c, loc) = Zero
      /\ \E i \in 1 .. Len(C[dir]) : loc[1] = C[dir][i]
  <2>1. c \in Disks
    BY DEF Layout, Typed
  <2> QED BY <1>2, <2>1
<1>4. loc \notin L /\ loc # NoLoc /\ loc[1] # x
  <2>1. loc # NoLoc
    BY <1>3, Clusters1 DEF NoLoc
  <2>2. loc \notin L
    BY <1>3, <2>1, PlaceIsHeld, EntryType
  <2> QED BY <1>3, <2>1, <2>2
<1>5. d \in Disks /\ \A l \in Clusters \X (1 .. Cells) :
                       Word(d, l) = IF l = loc THEN e ELSE Word(c, l)
  BY <1>3, StoreWord DEF Cell
<1>6. d[x] = c[x]
  BY <1>3, <1>4 DEF Store, Disks
<1>7. D \in [M -> Seq(Clusters)] /\ D[loc] = <<x>> /\ \A l \in L : D[l] = C[l] /\ l # loc
  BY <1>4 DEF Layout, Typed, With
<1> HIDE DEF d, D
<1>8. \A l \in L \ {NoLoc} : Word(d, l) = Word(c, l)
  BY <1>4, <1>5, PlaceIsHeld
<1>9. /\ \A l \in L : Clus(d, l) = Clus(c, l) /\ IsDir(d, l) = IsDir(c, l)
      /\ Clus(d, loc) = x /\ IsDir(d, loc) = e.dir
  <2>1. \A l \in L : Clus(d, l) = Clus(c, l) /\ IsDir(d, l) = IsDir(c, l)
    BY <1>8 DEF Clus, IsDir
  <2>2. Word(d, loc) = e
    BY <1>3, <1>5
  <2>3. Clus(d, loc) = x
    BY <1>4, <2>2 DEF Clus
  <2>4. e.dir \in BOOLEAN
    BY EntryType
  <2>5. IsDir(d, loc) = e.dir
    BY <1>4, <2>2, <2>4 DEF IsDir
  <2> QED BY <2>1, <2>3, <2>5
<1>10. e.dir => \A j \in Places(<<x>>) : Word(d, Slot(<<x>>, j)) = Zero
  <2> SUFFICES ASSUME e.dir, NEW j \in Places(<<x>>)
               PROVE  Word(d, Slot(<<x>>, j)) = Zero
    OBVIOUS
  <2>1. Slot(<<x>>, j)[1] = x /\ Slot(<<x>>, j)[2] \in 1 .. Cells
    <3>1. <<x>> \in Seq(Clusters) /\ Len(<<x>>) = 1 /\ <<x>>[1] = x
      OBVIOUS
    <3> DEFINE s == <<x>>
    <3>2. s \in Seq(Clusters) /\ Len(s) = 1 /\ s[1] = x /\ j \in Places(s)
      BY <3>1
    <3> HIDE DEF s
    <3>3. Slot(s, j)[1] = x /\ Slot(s, j)[2] \in 1 .. Cells
      BY <3>2, SlotType
    <3> QED BY <3>3 DEF s
  <2> QED BY <1>6, <2>1 DEF Word, Blank
\* In every other directory nothing is new, in this one nothing but the slot k.
<1>11. ASSUME NEW l \in L, IsDir(c, l), NEW j \in Places(C[l])
      PROVE  /\ Word(d, Slot(C[l], j)) = IF l = dir /\ j = k THEN e ELSE Word(c, Slot(C[l], j))
             /\ Slot(C[l], j) = loc <=> l = dir /\ j = k
  <2>1. Slot(C[l], j) = loc => l = dir
    <3> SUFFICES ASSUME Slot(C[l], j) = loc, l # dir
                 PROVE  FALSE
      OBVIOUS
    <3>1. PICK i \in 1 .. Len(C[l]) : Slot(C[l], j)[1] = C[l][i]
      <4>1. C[l] \in Seq(Clusters)
        BY ChainFacts
      <4> QED BY <1>11, <4>1, SlotType
    <3>2. PICK n \in 1 .. Len(C[dir]) : loc[1] = C[dir][n]
      BY <1>3
    <3>3. C[l][i] # C[dir][n]
      BY <1>11, <3>1, <3>2 DEF Layout, Apart
    <3> QED BY <3>1, <3>2, <3>3
  <2>2. l = dir /\ Slot(C[l], j) = loc => j = k
    <3>1. C[dir] \in Seq(Clusters) /\ IsInjective(C[dir])
      BY ChainFacts
    <3> QED BY <3>1, SlotsDiffer
  <2>3. Slot(C[l], j) \in Clusters \X (1 .. Cells)
    BY SlotIsHeld
  <2> QED BY <1>5, <2>1, <2>2, <2>3
<1>12. Typed(f, d, M, D)
  BY <1>5, <1>7 DEF Layout, Typed
<1>13. Named(d, M)
  BY <1>3, <1>4, <1>5, <1>8 DEF Layout, Named
<1>14. Sized(d, M, D)
  <2>1. Word(d, loc).size = 0 /\ Len(D[loc]) * Cells \in Nat
    BY <1>3, <1>5, <1>7
  <2> SUFFICES ASSUME NEW l \in M \ {NoLoc}
               PROVE  /\ Word(d, l).size <= Len(D[l]) * Cells
                      /\ IsDir(d, l) => Word(d, l).size = 0
    BY DEF Sized
  <2>2. CASE l = loc
    BY <2>1, <2>2
  <2>3. CASE l \in L
    <3>1. Word(d, l) = Word(c, l) /\ D[l] = C[l] /\ (IsDir(d, l) <=> IsDir(c, l))
      BY <1>7, <1>8, <1>9, <2>3
    <3> QED BY <2>3, <3>1 DEF Layout, Sized
  <2> QED BY <2>2, <2>3
<1>15. Chained(f, d, M, D)
  <2>1. IsChain(f, x, <<x>>)
    BY DEF IsChain, IsInjective
  <2> QED BY <1>7, <1>9, <2>1 DEF Layout, Chained
<1>16. Apart(M, D)
  <2> SUFFICES ASSUME NEW l \in M, NEW m \in M, l # m,
                      NEW i \in 1 .. Len(D[l]), NEW j \in 1 .. Len(D[m])
               PROVE  D[l][i] # D[m][j]
    BY DEF Apart
  <2>1. CASE l \in L /\ m \in L
    <3>1. D[l] = C[l] /\ D[m] = C[m]
      BY <1>7, <2>1
    <3> QED BY <2>1, <3>1 DEF Layout, Apart
  <2>2. CASE l = loc
    <3>1. m \in L /\ D[m] = C[m] /\ D[l][i] = x
      BY <1>7, <2>2
    <3> QED BY <3>1 DEF Loose
  <2>3. CASE m = loc
    <3>1. l \in L /\ D[l] = C[l] /\ D[m][j] = x
      BY <1>7, <2>3
    <3> QED BY <3>1 DEF Loose
  <2> QED BY <2>1, <2>2, <2>3
<1>17. Closed(d, M, D)
  <2> SUFFICES ASSUME NEW l \in M, IsDir(d, l), NEW j \in Places(D[l]),
                      IsEntry(Word(d, Slot(D[l], j)))
               PROVE  Slot(D[l], j) \in M
    BY DEF Closed
  <2>1. CASE l = loc
    <3>1. Word(d, Slot(D[l], j)) = Zero
      BY <1>7, <1>9, <1>10, <2>1
    <3> QED BY <3>1 DEF IsEntry
  <2>2. CASE l \in L
    <3>1. D[l] = C[l] /\ IsDir(c, l)
      BY <1>7, <1>9, <2>2
    <3> QED BY <1>11, <2>2, <3>1 DEF Layout, Closed
  <2> QED BY <2>1, <2>2
<1>18. Placed(d, M, D)
  <2> SUFFICES ASSUME NEW l \in M \ {NoLoc}
               PROVE  \E m \in M : IsDir(d, m) /\ \E j \in Places(D[m]) : l = Slot(D[m], j)
    BY DEF Placed
  <2>1. CASE l = loc
    BY <1>7, <1>9, <2>1
  <2>2. CASE l \in L
    <3>1. PICK m \in L : IsDir(c, m) /\ \E j \in Places(C[m]) : l = Slot(C[m], j)
      BY <2>2 DEF Layout, Placed
    <3> QED BY <1>7, <1>9, <3>1
  <2> QED BY <2>1, <2>2
<1>19. ZerosLast(d, M, D)
  <2> SUFFICES ASSUME NEW l \in M, IsDir(d, l), NEW i \in Places(D[l]), NEW j \in Places(D[l]),
                      i < j, Word(d, Slot(D[l], i)) = Zero
               PROVE  Word(d, Slot(D[l], j)) = Zero
    BY DEF ZerosLast
  <2>1. CASE l = loc
    BY <1>7, <1>9, <1>10, <2>1
  <2>2. CASE l \in L
    <3>1. D[l] = C[l] /\ IsDir(c, l)
      BY <1>7, <1>9, <2>2
    <3>2. e # Zero
      BY EntryType
    <3>3. ~(l = dir /\ i = k) /\ Word(c, Slot(C[l], i)) = Zero
      BY <1>11, <2>2, <3>1, <3>2
    <3>4. ~(l = dir /\ j = k)
      BY <3>1, <3>3
    <3>5. Word(c, Slot(C[l], j)) = Zero
      BY <2>2, <3>1, <3>3 DEF Layout, ZerosLast
    <3> QED BY <1>11, <2>2, <3>1, <3>4, <3>5
  <2> QED BY <2>1, <2>2
<1>20. Distinct(d, M, D)
  <2> SUFFICES ASSUME NEW l \in M, IsDir(d, l), NEW i \in Places(D[l]), NEW j \in Places(D[l]),
                      IsEntry(Word(d, Slot(D[l], i))), IsEntry(Word(d, Slot(D[l], j))),
                      Word(d, Slot(D[l], i)).name = Word(d, Slot(D[l], j)).name
               PROVE  i = j
    BY DEF Distinct
  <2>1. CASE l = loc
    BY <1>7, <1>9, <1>10, <2>1 DEF IsEntry
  <2>2. CASE l \in L
    <3>1. D[l] = C[l] /\ IsDir(c, l)
      BY <1>7, <1>9, <2>2
    <3>2. CASE l = dir /\ i = k
      BY <1>11, <2>2, <3>1, <3>2
    <3>3. CASE l = dir /\ j = k
      BY <1>11, <2>2, <3>1, <3>3
    <3>4. CASE ~(l = dir /\ i = k) /\ ~(l = dir /\ j = k)
      <4>1. /\ Word(d, Slot(D[l], i)) = Word(c, Slot(C[l], i))
            /\ Word(d, Slot(D[l], j)) = Word(c, Slot(C[l], j))
        BY <1>11, <2>2, <3>1, <3>4
      <4> QED BY <2>2, <3>1, <4>1 DEF Layout, Distinct
    <3> QED BY <3>2, <3>3, <3>4
  <2> QED BY <2>1, <2>2
<1>21. Clean(d, M, D)
  <2> SUFFICES ASSUME NEW l \in M, IsDir(d, l), NEW j \in Places(D[l])
               PROVE  Word(d, Slot(D[l], j)) \in Entries \cup {Zero, Deleted}
    BY DEF Clean
  <2>1. CASE l = loc
    BY <1>7, <1>9, <1>10, <2>1
  <2>2. CASE l \in L
    <3>1. D[l] = C[l] /\ IsDir(c, l)
      BY <1>7, <1>9, <2>2
    <3>2. Word(c, Slot(C[l], j)) \in Entries \cup {Zero, Deleted}
      BY <2>2, <3>1 DEF Layout, Clean
    <3> QED BY <1>11, <2>2, <3>1, <3>2
  <2> QED BY <2>1, <2>2
<1>22. Layout(f, d, M, D)
  BY <1>12, <1>13, <1>14, <1>15, <1>16, <1>17, <1>18, <1>19, <1>20, <1>21 DEF Layout
<1> QED BY <1>3, <1>4, <1>5, <1>22 DEF d, D

\* An entry is removed, that of a directory only when there is none in it.
Without(L, C, loc) == [l \in L \ {loc} |-> C[l]]

LEMMA Leave ==
  ASSUME NEW f, NEW c, NEW L, NEW C, Layout(f, c, L, C),
         NEW loc \in L \ {NoLoc},
         IsDir(c, loc) => \A k \in Places(C[loc]) : ~IsEntry(Word(c, Slot(C[loc], k)))
  PROVE  Layout(f, Store(c, loc, Deleted), L \ {loc}, Without(L, C, loc))
<1> DEFINE d == Store(c, loc, Deleted)  M == L \ {loc}  D == Without(L, C, loc)
<1>1. loc \in Clusters \X (1 .. Cells) /\ c \in Disks /\ Word(c, loc) \in Entries
  BY PlaceIsHeld DEF Layout, Typed
<1>2. d \in Disks /\ \A l \in Clusters \X (1 .. Cells) :
                       Word(d, l) = IF l = loc THEN Deleted ELSE Word(c, l)
  BY <1>1, StoreWord DEF Cell
<1>3. D \in [M -> Seq(Clusters)] /\ \A l \in M : D[l] = C[l]
  BY DEF Layout, Typed, Without
<1> HIDE DEF d, D
<1>4. \A l \in M \ {NoLoc} : Word(d, l) = Word(c, l)
  BY <1>2, PlaceIsHeld
<1>5. \A l \in M : Clus(d, l) = Clus(c, l) /\ IsDir(d, l) = IsDir(c, l)
  BY <1>4 DEF Clus, IsDir
<1>6. ASSUME NEW l \in M, NEW k \in Places(C[l])
      PROVE  Word(d, Slot(C[l], k))
               = IF Slot(C[l], k) = loc THEN Deleted ELSE Word(c, Slot(C[l], k))
  BY <1>2, SlotIsHeld
<1>7. Typed(f, d, M, D)
  BY <1>2, <1>3 DEF Layout, Typed
<1>8. Named(d, M) /\ Sized(d, M, D)
  BY <1>3, <1>4, <1>5 DEF Layout, Named, Sized
<1>9. Chained(f, d, M, D)
  BY <1>3, <1>5 DEF Layout, Chained
<1>10. Apart(M, D)
  BY <1>3 DEF Layout, Apart
<1>11. Closed(d, M, D)
  <2> SUFFICES ASSUME NEW l \in M, IsDir(d, l), NEW k \in Places(D[l]),
                      IsEntry(Word(d, Slot(D[l], k)))
               PROVE  Slot(D[l], k) \in M
    BY DEF Closed
  <2>1. D[l] = C[l] /\ IsDir(c, l)
    BY <1>3, <1>5
  <2>2. Slot(C[l], k) # loc /\ IsEntry(Word(c, Slot(C[l], k)))
    BY <1>6, <2>1 DEF IsEntry
  <2> QED BY <2>1, <2>2 DEF Layout, Closed
<1>12. Placed(d, M, D)
  <2> SUFFICES ASSUME NEW l \in M \ {NoLoc}
               PROVE  \E m \in M : IsDir(d, m) /\ \E k \in Places(D[m]) : l = Slot(D[m], k)
    BY DEF Placed
  <2>1. PICK m \in L : IsDir(c, m) /\ \E k \in Places(C[m]) : l = Slot(C[m], k)
    BY DEF Layout, Placed
  <2>2. Word(c, l) \in Entries
    BY PlaceIsHeld
  <2>3. m # loc
    BY <2>1, <2>2, EntryType
  <2> QED BY <1>3, <1>5, <2>1, <2>3
<1>13. ZerosLast(d, M, D)
  <2> SUFFICES ASSUME NEW l \in M, IsDir(d, l), NEW k \in Places(D[l]), NEW m \in Places(D[l]),
                      k < m, Word(d, Slot(D[l], k)) = Zero
               PROVE  Word(d, Slot(D[l], m)) = Zero
    BY DEF ZerosLast
  <2>1. D[l] = C[l] /\ IsDir(c, l)
    BY <1>3, <1>5
  <2>2. Word(c, Slot(C[l], k)) = Zero
    BY <1>6, <2>1
  <2>3. Word(c, Slot(C[l], m)) = Zero
    BY <2>1, <2>2 DEF Layout, ZerosLast
  <2>4. Slot(C[l], m) # loc
    BY <1>1, <2>3, EntryType
  <2> QED BY <1>6, <2>1, <2>3, <2>4
<1>14. Distinct(d, M, D)
  <2> SUFFICES ASSUME NEW l \in M, IsDir(d, l), NEW k \in Places(D[l]), NEW m \in Places(D[l]),
                      IsEntry(Word(d, Slot(D[l], k))), IsEntry(Word(d, Slot(D[l], m))),
                      Word(d, Slot(D[l], k)).name = Word(d, Slot(D[l], m)).name
               PROVE  k = m
    BY DEF Distinct
  <2>1. D[l] = C[l] /\ IsDir(c, l)
    BY <1>3, <1>5
  <2>2. /\ Word(d, Slot(C[l], k)) = Word(c, Slot(C[l], k))
        /\ Word(d, Slot(C[l], m)) = Word(c, Slot(C[l], m))
    BY <1>6, <2>1 DEF IsEntry
  <2> QED BY <2>1, <2>2 DEF Layout, Distinct
<1>15. Clean(d, M, D)
  BY <1>3, <1>5, <1>6 DEF Layout, Clean
<1>16. Layout(f, d, M, D)
  BY <1>7, <1>8, <1>9, <1>10, <1>11, <1>12, <1>13, <1>14, <1>15 DEF Layout
<1> QED BY <1>16 DEF d, D

------------------------------------------------------------------------------
(* Searches *)

LEMMA LeastIs ==
  ASSUME NEW T, T \subseteq Nat, T # {}
  PROVE  Min(T) \in T /\ \A k \in T : Min(T) <= k
BY LeastNumber DEF Min

\* The places of a chain that a search looks at.
LEMMA SlotsSeen ==
  ASSUME fat \in Tables, NEW clus \in 0 .. NoClus
  PROVE  \E s \in Seq(Clusters) :
           /\ s = resolve_chain(fat, clus)
           /\ Slots(fat, clus) \in Seq(Locs)
           /\ DOMAIN Slots(fat, clus) = Places(s)
           /\ Places(s) \subseteq Nat
           /\ \A k \in Places(s) : Slots(fat, clus)[k] = Slot(s, k)
<1> DEFINE s == resolve_chain(fat, clus)
<1>1. s \in Seq(Clusters)
  BY ResolveType
<1> HIDE DEF s
<1>2. Slots(fat, clus) = SlotsOf[s]
  BY DEF Slots, s
<1>3. Places(s) \subseteq Nat
  BY DEF Places
<1> QED BY <1>1, <1>2, <1>3, SlotsOfChain DEF s

LEMMA EntryFound ==
  ASSUME fat \in Tables, NEW clus \in 0 .. NoClus, NEW name
  PROVE  LET s == resolve_chain(fat, clus)
         IN  \/ /\ find_entry(clus, name) = NoLoc
                /\ \A k \in Places(s) :
                     ~(IsEntry(At(Slot(s, k))) /\ At(Slot(s, k)).name = name)
             \/ \E k \in Places(s) :
                  /\ find_entry(clus, name) = Slot(s, k)
                  /\ IsEntry(At(Slot(s, k))) /\ At(Slot(s, k)).name = name
<1>1. PICK s \in Seq(Clusters) :
        /\ s = resolve_chain(fat, clus)
        /\ Slots(fat, clus) \in Seq(Locs)
        /\ DOMAIN Slots(fat, clus) = Places(s)
        /\ Places(s) \subseteq Nat
        /\ \A k \in Places(s) : Slots(fat, clus)[k] = Slot(s, k)
  BY SlotsSeen
<1> DEFINE hits(t) == {k \in DOMAIN t : IsEntry(At(t[k])) /\ At(t[k]).name = name}
           t0 == Slots(fat, clus)
<1>2. find_entry(clus, name) = IF hits(t0) = {} THEN NoLoc ELSE t0[Min(hits(t0))]
  BY <1>1 DEF find_entry, FirstSlot
<1>3. hits(t0) = {k \in Places(s) : IsEntry(At(Slot(s, k))) /\ At(Slot(s, k)).name = name}
  BY <1>1
<1> HIDE DEF hits, t0
<1>4. CASE hits(t0) = {}
  BY <1>1, <1>2, <1>3, <1>4
<1>5. CASE hits(t0) # {}
  <2>1. hits(t0) \subseteq Nat
    BY <1>1, <1>3
  <2>2. Min(hits(t0)) \in hits(t0)
    BY <1>5, <2>1, LeastIs
  <2> QED BY <1>1, <1>2, <1>3, <1>5, <2>2 DEF t0
<1> QED BY <1>4, <1>5

LEMMA FreeSlotFound ==
  ASSUME fat \in Tables, NEW clus \in 0 .. NoClus
  PROVE  LET s == resolve_chain(fat, clus)
         IN  \/ FreeSlot(clus) = NoLoc
             \/ \E k \in Places(s) :
                  /\ FreeSlot(clus) = Slot(s, k)
                  /\ At(Slot(s, k)) = Zero
                  /\ \A m \in Places(s) : m < k => At(Slot(s, m)) # Zero
<1>1. PICK s \in Seq(Clusters) :
        /\ s = resolve_chain(fat, clus)
        /\ Slots(fat, clus) \in Seq(Locs)
        /\ DOMAIN Slots(fat, clus) = Places(s)
        /\ Places(s) \subseteq Nat
        /\ \A k \in Places(s) : Slots(fat, clus)[k] = Slot(s, k)
  BY SlotsSeen
<1> DEFINE hits(t) == {k \in DOMAIN t : At(t[k]) = Zero}
           t0 == Slots(fat, clus)
<1>2. FreeSlot(clus) = IF hits(t0) = {} THEN NoLoc ELSE t0[Min(hits(t0))]
  BY <1>1 DEF FreeSlot, FirstSlot
<1>3. hits(t0) = {k \in Places(s) : At(Slot(s, k)) = Zero}
  BY <1>1
<1> HIDE DEF hits, t0
<1>4. CASE hits(t0) = {}
  BY <1>1, <1>2, <1>3, <1>4
<1>5. CASE hits(t0) # {}
  <2>1. hits(t0) \subseteq Nat
    BY <1>1, <1>3
  <2> DEFINE k == Min(hits(t0))
  <2>2. k \in hits(t0) /\ \A m \in hits(t0) : k <= m
    BY <1>5, <2>1, LeastIs
  <2>3. FreeSlot(clus) = t0[k]
    BY <1>2, <1>5
  <2> HIDE DEF k
  <2>4. k \in Places(s) /\ At(Slot(s, k)) = Zero /\ FreeSlot(clus) = Slot(s, k)
    BY <1>1, <1>3, <2>2, <2>3 DEF t0
  <2>5. \A m \in Places(s) : m < k => At(Slot(s, m)) # Zero
    BY <1>1, <1>3, <2>2, <2>4
  <2> QED BY <1>1, <2>4, <2>5
<1> QED BY <1>4, <1>5

\* Of a directory that is found empty each slot was removed, or is behind one
\* never used.
LEMMA EmptyFound ==
  ASSUME fat \in Tables, NEW clus \in 0 .. NoClus, is_dir_empty(clus)
  PROVE  LET s == resolve_chain(fat, clus)
         IN  \A k \in Places(s) :
               \/ At(Slot(s, k)) = Deleted
               \/ \E m \in Places(s) : m <= k /\ At(Slot(s, m)) = Zero
<1>1. PICK s \in Seq(Clusters) :
        /\ s = resolve_chain(fat, clus)
        /\ Slots(fat, clus) \in Seq(Locs)
        /\ DOMAIN Slots(fat, clus) = Places(s)
        /\ Places(s) \subseteq Nat
        /\ \A k \in Places(s) : Slots(fat, clus)[k] = Slot(s, k)
  BY SlotsSeen
<1> DEFINE hits(t) == {k \in DOMAIN t : At(t[k]) # Deleted}
           t0 == Slots(fat, clus)
           loc == IF hits(t0) = {} THEN NoLoc ELSE t0[Min(hits(t0))]
<1>2. loc = NoLoc \/ At(loc) = Zero
  BY <1>1 DEF is_dir_empty, FirstSlot
<1>3. hits(t0) = {k \in Places(s) : At(Slot(s, k)) # Deleted}
  BY <1>1
<1> HIDE DEF hits, t0
<1>4. CASE hits(t0) = {}
  BY <1>1, <1>3, <1>4
<1>5. CASE hits(t0) # {}
  <2>1. hits(t0) \subseteq Nat
    BY <1>1, <1>3
  <2> DEFINE m == Min(hits(t0))
  <2>2. m \in hits(t0) /\ \A k \in hits(t0) : m <= k
    BY <1>5, <2>1, LeastIs
  <2>3. loc = t0[m]
    BY <1>5
  <2> HIDE DEF m
  <2>4. m \in Places(s) /\ loc = Slot(s, m)
    BY <1>1, <1>3, <2>2, <2>3 DEF t0
  <2>5. loc # NoLoc
    BY <2>4, SlotType, Clusters1 DEF NoLoc
  <2>6. At(Slot(s, m)) = Zero
    BY <1>2, <2>4, <2>5
  <2> QED BY <1>1, <1>3, <2>2, <2>4, <2>6
<1> QED BY <1>4, <1>5

------------------------------------------------------------------------------
(* Paths *)

\* The directory at dir has an entry of that name, at loc.
Child(c, C, dir, name, loc) ==
  /\ IsDir(c, dir)
  /\ \E k \in Places(C[dir]) : loc = Slot(C[dir], k)
  /\ IsEntry(Word(c, loc)) /\ Word(c, loc).name = name

\* The first n names of a path lead from the root directory to loc.
Leads(c, L, C, path, n, loc) ==
  \E w \in [0 .. n -> L] :
    /\ w[0] = NoLoc /\ w[n] = loc
    /\ \A i \in 1 .. n : Child(c, C, w[i - 1], path[i], w[i])

LEMMA LeadsNowhere ==
  ASSUME NEW c, NEW L, NEW C, NEW path, NoLoc \in L
  PROVE  Leads(c, L, C, path, 0, NoLoc)
<1> DEFINE w == [i \in 0 .. 0 |-> NoLoc]
<1>1. w \in [0 .. 0 -> L] /\ w[0] = NoLoc
  OBVIOUS
<1>2. 1 .. 0 = {}
  OBVIOUS
<1> HIDE DEF w
<1> QED BY <1>1, <1>2 DEF Leads

\* One name more.
LEMMA LeadsOn ==
  ASSUME NEW c, NEW L, NEW C, NEW path, NEW n \in Nat, NEW dir \in L,
         Leads(c, L, C, path, n, dir),
         NEW loc \in L, Child(c, C, dir, path[n + 1], loc)
  PROVE  Leads(c, L, C, path, n + 1, loc)
<1>1. PICK w \in [0 .. n -> L] :
        /\ w[0] = NoLoc /\ w[n] = dir
        /\ \A i \in 1 .. n : Child(c, C, w[i - 1], path[i], w[i])
  BY DEF Leads
<1> DEFINE v == [i \in 0 .. n + 1 |-> IF i = n + 1 THEN loc ELSE w[i]]
<1>2. /\ v \in [0 .. n + 1 -> L] /\ v[n + 1] = loc
      /\ \A i \in 0 .. n : v[i] = w[i]
  OBVIOUS
<1> HIDE DEF v
<1>3. ASSUME NEW i \in 1 .. n + 1
      PROVE  Child(c, C, v[i - 1], path[i], v[i])
  <2>1. CASE i = n + 1
    <3>1. i - 1 = n /\ n \in 0 .. n
      BY <2>1
    <3> QED BY <1>1, <1>2, <2>1, <3>1
  <2>2. CASE i # n + 1
    <3>1. i \in 1 .. n /\ i - 1 \in 0 .. n /\ i \in 0 .. n
      BY <2>2
    <3> QED BY <1>1, <1>2, <3>1
  <2> QED BY <2>1, <2>2
<1>4. v[0] = NoLoc
  BY <1>1, <1>2
<1> QED BY <1>2, <1>3, <1>4 DEF Leads

\* One name less.
LEMMA LeadsBack ==
  ASSUME NEW c, NEW L, NEW C, NEW path, NEW n \in Nat, NEW loc,
         Leads(c, L, C, path, n + 1, loc)
  PROVE  \E dir \in L : Leads(c, L, C, path, n, dir) /\ Child(c, C, dir, path[n + 1], loc)
<1>1. PICK w \in [0 .. n + 1 -> L] :
        /\ w[0] = NoLoc /\ w[n + 1] = loc
        /\ \A i \in 1 .. n + 1 : Child(c, C, w[i - 1], path[i], w[i])
  BY DEF Leads
<1> DEFINE v == [i \in 0 .. n |-> w[i]]
<1>2. v \in [0 .. n -> L] /\ \A i \in 0 .. n : v[i] = w[i]
  OBVIOUS
<1> HIDE DEF v
<1>3. ASSUME NEW i \in 1 .. n
      PROVE  Child(c, C, v[i - 1], path[i], v[i])
  <2>1. i \in 1 .. n + 1 /\ i - 1 \in 0 .. n /\ i \in 0 .. n
    OBVIOUS
  <2> QED BY <1>1, <1>2, <2>1
<1>4. v[0] = NoLoc /\ v[n] = w[n] /\ w[n] \in L
  BY <1>1, <1>2
<1>5. Leads(c, L, C, path, n, w[n])
  BY <1>2, <1>3, <1>4 DEF Leads
<1>6. Child(c, C, w[n], path[n + 1], loc)
  <2>1. n + 1 \in 1 .. n + 1 /\ (n + 1) - 1 = n
    OBVIOUS
  <2>2. Child(c, C, w[(n + 1) - 1], path[n + 1], w[n + 1])
    BY <1>1, <2>1
  <2> QED BY <1>1, <2>1, <2>2
<1> QED BY <1>4, <1>5, <1>6

\* A search through the driver's eyes: what is found is in L.
LEMMA FoundInDirectory ==
  ASSUME NEW L, NEW C, Layout(fat, content, L, C),
         NEW dir \in L, IsDir(content, dir), NEW name
  PROVE  LET loc == find_entry(Clus(content, dir), name)
         IN  /\ loc \in L
             /\ loc # NoLoc => Child(content, C, dir, name, loc)
             /\ \A l \in L : Child(content, C, dir, name, l) => l # NoLoc /\ loc = l
<1> DEFINE clus == Clus(content, dir)  s == C[dir]
<1>1. fat \in Tables /\ clus \in 0 .. NoClus /\ IsChain(fat, clus, s) /\ NoLoc \in L
  BY ChainFacts, Clusters1 DEF Layout, Typed, Chained
<1>2. resolve_chain(fat, clus) = s
  BY <1>1, ChainIsResolved
<1>3. \A k \in Places(s) : At(Slot(s, k)) = Word(content, Slot(s, k))
  BY DEF At, Word
<1> HIDE DEF clus
<1>4. \/ /\ find_entry(clus, name) = NoLoc
         /\ \A k \in Places(s) : ~(IsEntry(At(Slot(s, k))) /\ At(Slot(s, k)).name = name)
      \/ \E k \in Places(s) : /\ find_entry(clus, name) = Slot(s, k)
                              /\ IsEntry(At(Slot(s, k))) /\ At(Slot(s, k)).name = name
  BY <1>1, <1>2, EntryFound
<1>5. ASSUME NEW k \in Places(s), IsEntry(At(Slot(s, k)))
      PROVE  Slot(s, k) \in L
  BY <1>3, <1>5 DEF Layout, Closed
<1>6. find_entry(clus, name) \in L
  BY <1>1, <1>4, <1>5
<1>7. ASSUME find_entry(clus, name) # NoLoc
      PROVE  Child(content, C, dir, name, find_entry(clus, name))
  BY <1>3, <1>4, <1>7 DEF Child
<1>8. ASSUME NEW l \in L, Child(content, C, dir, name, l)
      PROVE  l # NoLoc /\ find_entry(clus, name) = l
  <2>1. PICK k \in Places(s) : l = Slot(s, k)
    BY <1>8 DEF Child
  <2>2. IsEntry(Word(content, l)) /\ Word(content, l).name = name
    BY <1>8 DEF Child
  <2>3. l # NoLoc
    <3>1. l[1] \in Clusters
      BY <2>1, SlotIsHeld
    <3> QED BY <3>1, Clusters1 DEF NoLoc
  <2>4. PICK m \in Places(s) :
          /\ find_entry(clus, name) = Slot(s, m)
          /\ IsEntry(At(Slot(s, m))) /\ At(Slot(s, m)).name = name
    BY <1>3, <1>4, <2>1, <2>2
  <2>5. k = m
    BY <1>3, <2>1, <2>2, <2>4 DEF Layout, Distinct
  <2> QED BY <2>1, <2>3, <2>4, <2>5
<1> QED BY <1>6, <1>7, <1>8 DEF clus

\* A search anywhere gives a place of the disk, and what is there has a cluster.
LEMMA FoundAnywhere ==
  ASSUME fat \in Tables, content \in Disks, NEW clus \in 0 .. NoClus, NEW name
  PROVE  /\ find_entry(clus, name) \in Locs
         /\ DirAt[find_entry(clus, name)] \in 0 .. NoClus
<1> DEFINE s == resolve_chain(fat, clus)  loc == find_entry(clus, name)
<1>1. s \in Seq(Clusters)
  BY ResolveType
<1>2. \/ loc = NoLoc
      \/ \E k \in Places(s) : loc = Slot(s, k) /\ IsEntry(At(Slot(s, k)))
  BY EntryFound
<1> HIDE DEF s, loc
<1>3. loc \in Locs
  BY <1>1, <1>2, SlotType, Clusters1 DEF Locs, NoLoc, Clusters, EOC, RootClus
<1>4. DirAt[loc] = IF loc # NoLoc /\ At(loc).dir THEN At(loc).clus ELSE 0
  BY <1>3 DEF DirAt
<1>5. loc # NoLoc => At(loc) \in Entries
  BY <1>1, <1>2, SlotType, CellIsEntry DEF At, Disks
<1>6. 0 \in 0 .. NoClus /\ Clusters \cup {NoClus} \subseteq 0 .. NoClus
  BY Clusters1
<1> QED BY <1>3, <1>4, <1>5, <1>6, EntryType DEF loc

\* The way down the path ends at a directory of L, or there is none.
LEMMA ParsedPath ==
  ASSUME NEW L, NEW C, Layout(fat, content, L, C), NEW path \in Paths
  PROVE  /\ \/ parse_path(path) = 0
            \/ /\ path # <<>>
               /\ \E dir \in L : /\ IsDir(content, dir) /\ parse_path(path) = Clus(content, dir)
                                /\ Leads(content, L, C, path, Len(path) - 1, dir)
         /\ path # <<>> =>
              \A dir \in L : /\ IsDir(content, dir)
                             /\ Leads(content, L, C, path, Len(path) - 1, dir)
                             => parse_path(path) = Clus(content, dir)
<1> SUFFICES
      ASSUME path # <<>>
      PROVE  /\ \/ parse_path(path) = 0
                \/ \E dir \in L : /\ IsDir(content, dir) /\ parse_path(path) = Clus(content, dir)
                                 /\ Leads(content, L, C, path, Len(path) - 1, dir)
             /\ \A dir \in L : /\ IsDir(content, dir)
                              /\ Leads(content, L, C, path, Len(path) - 1, dir)
                              => parse_path(path) = Clus(content, dir)
  BY DEF parse_path
<1> DEFINE n == Len(path)
           below[i \in 1 .. n] == [clus \in 0 .. NoClus |-> DirAt[find_entry(clus, path[i])]]
           descend[i \in 0 .. n] == IF i = 0 THEN RootClus ELSE below[i][descend[i - 1]]
           step == [p \in (0 .. NoClus) \X (1 .. n) |-> below[p[2]][p[1]]]
<1>1. parse_path(path) = descend[n - 1]
  BY DEF parse_path
<1>2. n \in Nat \ {0}
  OBVIOUS
<1>3. fat \in Tables /\ content \in Disks /\ NoLoc \in L
  BY DEF Layout, Typed
<1>4. \A clus \in 0 .. NoClus, i \in 1 .. n :
        below[i][clus] = DirAt[find_entry(clus, path[i])]
  OBVIOUS
<1>5. step \in [(0 .. NoClus) \X (1 .. n) -> 0 .. NoClus]
  <2> HIDE DEF below, n
  <2> QED BY <1>3, <1>4, FoundAnywhere
<1>6. RootClus \in 0 .. NoClus
  BY Clusters1
<1>7. PICK w : IsRecursion(w, n, 0 .. NoClus, RootClus, step)
  <2> HIDE DEF step, n
  <2> QED BY <1>2, <1>5, <1>6, Recursion
<1>8. w = [i \in 0 .. n |-> IF i = 0 THEN RootClus ELSE below[i][w[i - 1]]]
  <2> HIDE DEF below, n
  <2>1. \A i \in 0 .. n : i # 0 => i \in 1 .. n
    BY <1>2
  <2>2. ASSUME NEW i \in 1 .. n
        PROVE  w[i] = below[i][w[i - 1]]
    <3>1. i - 1 \in 0 .. n
      BY <1>2
    <3>2. w[i - 1] \in 0 .. NoClus
      BY <1>7, <3>1 DEF IsRecursion
    <3>3. w[i] = step[<<w[i - 1], i>>]
      BY <1>7, Zenon DEF IsRecursion
    <3> QED BY <3>2, <3>3
  <2> HIDE DEF step
  <2> QED BY <1>7, <2>1, <2>2 DEF IsRecursion
<1>9. descend = [i \in 0 .. n |-> IF i = 0 THEN RootClus ELSE below[i][descend[i - 1]]]
  BY <1>8, Zenon
<1> HIDE DEF below, descend, n
<1> DEFINE Led(i, dir) == IsDir(content, dir) /\ Leads(content, L, C, path, i, dir)
           Good(i) == \/ descend[i] = 0
                      \/ \E dir \in L : Led(i, dir) /\ descend[i] = Clus(content, dir)
           Solely(i) == \A dir \in L : Led(i, dir) => descend[i] = Clus(content, dir)
           T == {i \in Nat : i <= n => descend[i] \in 0 .. NoClus /\ Good(i) /\ Solely(i)}
<1>10. 0 \in T
  <2>1. descend[0] = RootClus
    BY <1>2, <1>9
  <2>2. Led(0, NoLoc) /\ RootClus = Clus(content, NoLoc)
    BY <1>3, LeadsNowhere DEF IsDir, Clus
  <2>3. \A dir : Leads(content, L, C, path, 0, dir) => dir = NoLoc
    BY DEF Leads
  <2> HIDE DEF Led
  <2>4. Good(0)
    BY <1>3, <2>1, <2>2
  <2>5. Solely(0)
    BY <2>1, <2>2, <2>3 DEF Led
  <2> QED BY <1>6, <2>1, <2>4, <2>5
<1>11. ASSUME NEW i \in Nat, i \in T
       PROVE  i + 1 \in T
  <2> SUFFICES ASSUME i + 1 <= n
               PROVE  descend[i + 1] \in 0 .. NoClus /\ Good(i + 1) /\ Solely(i + 1)
    OBVIOUS
  <2> DEFINE x == descend[i]  loc == find_entry(x, path[i + 1])
  <2>1. x \in 0 .. NoClus /\ Good(i) /\ Solely(i)
    BY <1>2, <1>11
  <2>2. descend[i + 1] = DirAt[loc]
    <3>1. i + 1 \in 0 .. n /\ i + 1 # 0 /\ (i + 1) - 1 = i /\ i + 1 \in 1 .. n
      BY <1>2
    <3>2. descend[i + 1] = below[i + 1][descend[i]]
      BY <1>9, <3>1
    <3>3. below[i + 1][x] = DirAt[loc]
      BY <1>4, <2>1, <3>1
    <3> QED BY <3>2, <3>3
  <2>3. loc \in Locs /\ DirAt[loc] \in 0 .. NoClus
    BY <1>3, <2>1, FoundAnywhere
  <2>4. DirAt[loc] = IF loc # NoLoc /\ At(loc).dir THEN At(loc).clus ELSE 0
    BY <2>3 DEF DirAt
  <2>5. ASSUME NEW l \in L, l # NoLoc, IsDir(content, l), loc = l
        PROVE  DirAt[loc] = Clus(content, l)
    BY <2>4, <2>5 DEF IsDir, Clus, At, Word
  <2>6. Good(i + 1)
    <3>1. CASE x = 0
      <4>1. resolve_chain(fat, 0) = <<>>
        BY <1>3, Clusters1, ResolveType
      <4>2. Places(<<>>) = {}
        BY DEF Places
      <4>3. loc = NoLoc
        BY <1>3, <2>1, <3>1, <4>1, <4>2, EntryFound
      <4> HIDE DEF loc, Led
      <4> QED BY <2>2, <2>4, <4>3
    <3>2. ASSUME NEW dir \in L, Led(i, dir), x = Clus(content, dir)
          PROVE  Good(i + 1)
      <4>1. loc \in L /\ (loc # NoLoc => Child(content, C, dir, path[i + 1], loc))
        <5>1. IsDir(content, dir)
          BY <3>2
        <5> HIDE DEF x, Led
        <5> QED BY <3>2, <5>1, FoundInDirectory
      <4> HIDE DEF loc, x
      <4>2. CASE loc # NoLoc /\ At(loc).dir
        <5>1. IsDir(content, loc)
          BY <4>2 DEF IsDir, At, Word
        <5>2. Leads(content, L, C, path, i + 1, loc)
          BY <3>2, <4>1, <4>2, LeadsOn
        <5>3. descend[i + 1] = Clus(content, loc)
          BY <2>2, <2>5, <4>1, <4>2, <5>1
        <5>4. Led(i + 1, loc)
          BY <5>1, <5>2
        <5> HIDE DEF Led
        <5> QED BY <4>1, <5>3, <5>4
      <4>3. CASE ~(loc # NoLoc /\ At(loc).dir)
        <5> HIDE DEF Led
        <5> QED BY <2>2, <2>4, <4>3
      <4> QED BY <4>2, <4>3
    <3> HIDE DEF Led
    <3> QED BY <2>1, <3>1, <3>2
  <2>7. Solely(i + 1)
    <3> SUFFICES ASSUME NEW l \in L, Led(i + 1, l)
                 PROVE  descend[i + 1] = Clus(content, l)
      OBVIOUS
    <3>1. PICK dir \in L :
            Leads(content, L, C, path, i, dir) /\ Child(content, C, dir, path[i + 1], l)
      BY LeadsBack
    <3>2. IsDir(content, dir)
      BY <3>1 DEF Child
    <3>3. x = Clus(content, dir)
      BY <2>1, <3>1, <3>2
    <3>4. l # NoLoc /\ loc = l
      <4> HIDE DEF x, Led
      <4> QED BY <3>1, <3>2, <3>3, FoundInDirectory
    <3> HIDE DEF loc, x
    <3> QED BY <2>2, <2>5, <3>4
  <2> HIDE DEF loc, x, Good, Solely
  <2> QED BY <2>2, <2>3, <2>6, <2>7
<1>12. Nat \subseteq T
  <2> HIDE DEF T
  <2> QED BY <1>10, <1>11, Induction
<1>13. Good(n - 1) /\ Solely(n - 1)
  <2>1. n - 1 \in Nat /\ n - 1 <= n
    BY <1>2
  <2> HIDE DEF Good, Solely
  <2> QED BY <1>12, <2>1
<1> QED BY <1>1, <1>13 DEF n

\* What a path names is in L, and it is what the path leads to.
LEMMA LocatedInLayout ==
  ASSUME NEW L, NEW C, Layout(fat, content, L, C), NEW path \in Paths
  PROVE  /\ Located(path) \in L
         /\ path = <<>> \/ parse_path(path) = 0 => Located(path) = NoLoc
         /\ Located(path) # NoLoc =>
              Leads(content, L, C, path, Len(path), Located(path))
         /\ path # <<>> =>
              \A loc \in L : Leads(content, L, C, path, Len(path), loc) =>
                             loc # NoLoc /\ Located(path) = loc
<1> DEFINE entry[clus \in 0 .. NoClus] == find_entry(clus, Last(path))
<1>1. NoLoc \in L /\ fat \in Tables
  BY DEF Layout, Typed
<1>2. CASE path = <<>>
  BY <1>1, <1>2 DEF Located
<1>3. CASE path # <<>>
  <2> DEFINE n == Len(path) - 1
  <2>1. n \in Nat /\ n + 1 = Len(path) /\ path[n + 1] = Last(path)
    BY <1>3 DEF Last
  <2>2. Located(path) = entry[parse_path(path)]
    BY <1>3 DEF Located
  <2>3. ASSUME NEW dir \in L, IsDir(content, dir), parse_path(path) = Clus(content, dir)
        PROVE  Located(path) = find_entry(Clus(content, dir), path[n + 1])
    <3>1. Clus(content, dir) \in 0 .. NoClus
      BY ChainFacts, Clusters1
    <3> QED BY <2>1, <2>2, <2>3, <3>1
  <2>4. ASSUME parse_path(path) = 0
        PROVE  Located(path) = NoLoc
    <3>1. resolve_chain(fat, 0) = <<>> /\ 0 \in 0 .. NoClus
      BY <1>1, Clusters1, ResolveType
    <3>2. Places(<<>>) = {}
      BY DEF Places
    <3>3. find_entry(0, Last(path)) = NoLoc
      BY <1>1, <3>1, <3>2, EntryFound
    <3> QED BY <2>2, <2>4, <3>1, <3>3
  <2> HIDE DEF n
  <2>5. ASSUME parse_path(path) # 0
        PROVE  /\ Located(path) \in L
               /\ Located(path) # NoLoc => Leads(content, L, C, path, n + 1, Located(path))
    <3>1. PICK dir \in L : /\ IsDir(content, dir) /\ parse_path(path) = Clus(content, dir)
                          /\ Leads(content, L, C, path, n, dir)
      BY <2>5, ParsedPath DEF n
    <3>2. Located(path) = find_entry(Clus(content, dir), path[n + 1])
      BY <2>3, <3>1
    <3>3. /\ Located(path) \in L
          /\ Located(path) # NoLoc => Child(content, C, dir, path[n + 1], Located(path))
      BY <3>1, <3>2, FoundInDirectory
    <3>4. Located(path) # NoLoc => Leads(content, L, C, path, n + 1, Located(path))
      BY <2>1, <3>1, <3>3, LeadsOn
    <3> QED BY <3>3, <3>4
  <2>6. ASSUME NEW loc \in L, Leads(content, L, C, path, n + 1, loc)
        PROVE  loc # NoLoc /\ Located(path) = loc
    <3>1. PICK dir \in L :
            Leads(content, L, C, path, n, dir) /\ Child(content, C, dir, path[n + 1], loc)
      BY <2>1, <2>6, LeadsBack
    <3>2. IsDir(content, dir)
      BY <3>1 DEF Child
    <3>3. parse_path(path) = Clus(content, dir)
      BY <1>3, <3>1, <3>2, ParsedPath DEF n
    <3>4. Located(path) = find_entry(Clus(content, dir), path[n + 1])
      BY <2>3, <3>2, <3>3
    <3> QED BY <3>1, <3>2, <3>4, FoundInDirectory
  <2> QED BY <1>1, <1>3, <2>1, <2>4, <2>5, <2>6
<1> QED BY <1>2, <1>3

------------------------------------------------------------------------------
(* What a call does to the files *)

\* The entries paths of Paths lead to.
Visible(c, L, C) ==
  {loc \in L \ {NoLoc} :
     \E path \in Paths \ {<<>>} : Leads(c, L, C, path, Len(path), loc)}

\* The entry at l is as it was, and if it is a file's so is what the file holds.
Spares(c, C, d, D, l) ==
  /\ Word(d, l) = Word(c, l)
  /\ ~IsDir(c, l) =>
       /\ D[l] = C[l]
       /\ \A k \in Places(C[l]) : Word(d, Slot(C[l], k)) = Word(c, Slot(C[l], k))

\* From one layout to the next: entries keep their names, chains their clusters,
\* and only the file at h may hold something else.  What is removed had nothing in
\* it, and its clusters are free.
Deed(c, L, C, g, d, M, D, h) ==
  /\ Layout(g, d, M, D)
  /\ \A dir \in L, l \in L : \A name :
       Child(c, C, dir, name, l) => dir \in M /\ (l \in M => Child(d, D, dir, name, l))
  /\ \/ L \subseteq M
     \/ /\ M \subseteq L
        /\ \A dir \in M, l \in M : \A name : Child(d, D, dir, name, l) => Child(c, C, dir, name, l)
  /\ \A l \in L \cap M : Extends(C[l], D[l])
  /\ \A l \in L \ M : \A i \in 1 .. Len(C[l]) : g[C[l][i]] = 0
  /\ \A l \in L \cap M : l \notin {NoLoc, h} => Spares(c, C, d, D, l)

LEMMA DeedIs ==
  ASSUME NEW f, NEW c, NEW L, NEW C, Layout(f, c, L, C),
         NEW g, NEW d, NEW M, NEW D, Layout(g, d, M, D), NEW h,
         \A l \in (L \cap M) \ {NoLoc} :
           Word(d, l).name = Word(c, l).name /\ Word(d, l).dir = Word(c, l).dir,
         \A l \in L \cap M : Extends(C[l], D[l]),
         \A l \in L \cap M : l \notin {NoLoc, h} => Spares(c, C, d, D, l),
         L \subseteq M \/ (M \subseteq L /\ \A l \in M : D[l] = C[l]),
         \A l \in L \ M : \A i \in 1 .. Len(C[l]) : g[C[l][i]] = 0,
         \A l \in L \ M : IsDir(c, l) =>
           \A k \in Places(C[l]) : ~IsEntry(Word(c, Slot(C[l], k)))
  PROVE  Deed(c, L, C, g, d, M, D, h)
<1>1. \A l \in L \cap M : IsDir(d, l) = IsDir(c, l)
  BY DEF IsDir
<1>2. \A l \in M \ {NoLoc} : IsEntry(Word(d, l))
  BY PlaceIsHeld, EntryType
<1>3. \A l \in L \ {NoLoc} : IsEntry(Word(c, l))
  BY PlaceIsHeld, EntryType
<1>4. ASSUME NEW dir \in L, NEW l \in L, NEW name, Child(c, C, dir, name, l)
      PROVE  dir \in M /\ (l \in M => Child(d, D, dir, name, l))
  <2>1. PICK k \in Places(C[dir]) : l = Slot(C[dir], k)
    BY <1>4 DEF Child
  <2>2. IsDir(c, dir) /\ IsEntry(Word(c, l)) /\ Word(c, l).name = name
    BY <1>4 DEF Child
  <2>3. dir \in M
    BY <2>1, <2>2
  <2>4. l # NoLoc
    <3>1. l[1] \in Clusters
      BY <2>1, SlotIsHeld
    <3> QED BY <3>1, Clusters1 DEF NoLoc
  <2>5. k \in Places(D[dir]) /\ Slot(D[dir], k) = Slot(C[dir], k)
    <3>1. Extends(C[dir], D[dir])
      BY <2>3
    <3> QED BY <3>1, PlacesOfLonger, SlotsOfLonger
  <2>6. ASSUME l \in M
        PROVE  Child(d, D, dir, name, l)
    BY <1>1, <1>2, <2>1, <2>2, <2>3, <2>4, <2>5, <2>6 DEF Child
  <2> QED BY <2>3, <2>6
<1>5. ASSUME M \subseteq L, \A l \in M : D[l] = C[l],
             NEW dir \in M, NEW l \in M, NEW name, Child(d, D, dir, name, l)
      PROVE  Child(c, C, dir, name, l)
  <2>1. PICK k \in Places(C[dir]) : l = Slot(C[dir], k)
    BY <1>5 DEF Child
  <2>2. l # NoLoc
    <3>1. l[1] \in Clusters
      BY <1>5, <2>1, SlotIsHeld
    <3> QED BY <3>1, Clusters1 DEF NoLoc
  <2> QED BY <1>1, <1>3, <1>5, <2>1, <2>2 DEF Child
<1> QED BY <1>4, <1>5 DEF Deed

\* What is written to clusters of no chain, and directories that get longer.
LEMMA DeedOfLoose ==
  ASSUME NEW f, NEW c, NEW L, NEW C, Layout(f, c, L, C),
         NEW g, NEW d, NEW D, Layout(g, d, L, D), NEW h,
         \A x \in Clusters : ~Loose(x, L, C) => d[x] = c[x],
         \A l \in L : Extends(C[l], D[l]) /\ (~IsDir(c, l) => D[l] = C[l])
  PROVE  Deed(c, L, C, g, d, L, D, h)
<1>1. \A l \in L \ {NoLoc} : Word(d, l) = Word(c, l)
  BY LooseContent
<1>2. \A l \in L : \A k \in Places(C[l]) : Word(d, Slot(C[l], k)) = Word(c, Slot(C[l], k))
  BY LooseContent
<1>3. \A l \in L \ {NoLoc} : Spares(c, C, d, D, l)
  BY <1>1, <1>2 DEF Spares
<1> QED BY <1>1, <1>3, DeedIs

\* What is written to the place of one entry.
LEMMA DeedOfStore ==
  ASSUME NEW f, NEW c, NEW L, NEW C, Layout(f, c, L, C),
         NEW dir \in L, IsDir(c, dir), NEW k \in Places(C[dir]), NEW p, p = Slot(C[dir], k),
         NEW d, NEW D, NEW l \in L \ {NoLoc, p}, D[l] = C[l],
         \A q \in Clusters \X (1 .. Cells) :
           q # p /\ ~Loose(q[1], L, C) => Word(d, q) = Word(c, q)
  PROVE  Spares(c, C, d, D, l)
<1>1. l \in Clusters \X (1 .. Cells) /\ ~Loose(l[1], L, C)
  BY PlaceIsHeld DEF Loose
<1>2. ASSUME ~IsDir(c, l), NEW m \in Places(C[l])
      PROVE  Word(d, Slot(C[l], m)) = Word(c, Slot(C[l], m))
  <2>1. /\ Slot(C[l], m) \in Clusters \X (1 .. Cells) /\ ~Loose(Slot(C[l], m)[1], L, C)
    BY SlotIsHeld
  <2>2. PICK j \in 1 .. Len(C[l]) : Slot(C[l], m)[1] = C[l][j]
    BY SlotIsHeld
  <2>3. PICK i \in 1 .. Len(C[dir]) : p[1] = C[dir][i]
    <3>1. C[dir] \in Seq(Clusters)
      BY DEF Layout, Typed
    <3> QED BY <3>1, SlotType
  <2>4. C[l][j] # C[dir][i]
    <3>1. l # dir
      BY <1>2
    <3> QED BY <3>1 DEF Layout, Apart
  <2>5. Slot(C[l], m) # p
    BY <2>2, <2>3, <2>4
  <2> QED BY <2>1, <2>5
<1> QED BY <1>1, <1>2 DEF Spares

\* Paths lead where they led, unless what they led to was removed.
LEMMA LeadsStill ==
  ASSUME NEW c, NEW L, NEW C, NEW g, NEW d, NEW M, NEW D, NEW h, Deed(c, L, C, g, d, M, D, h),
         NEW path, NEW n \in Nat, NEW loc \in M, Leads(c, L, C, path, n, loc)
  PROVE  Leads(d, M, D, path, n, loc)
<1>1. PICK w \in [0 .. n -> L] :
        /\ w[0] = NoLoc /\ w[n] = loc
        /\ \A i \in 1 .. n : Child(c, C, w[i - 1], path[i], w[i])
  BY DEF Leads
<1>2. ASSUME NEW i \in 0 .. n
      PROVE  w[i] \in M
  <2>1. CASE i = n
    BY <1>1, <2>1
  <2>2. CASE i # n
    <3>1. i + 1 \in 1 .. n /\ i + 1 \in 0 .. n /\ (i + 1) - 1 = i
      BY <2>2
    <3>2. Child(c, C, w[(i + 1) - 1], path[i + 1], w[i + 1])
      BY <1>1, <3>1
    <3>3. w[i] \in L /\ w[i + 1] \in L
      BY <3>1
    <3> QED BY <3>1, <3>2, <3>3 DEF Deed
  <2> QED BY <2>1, <2>2
<1>3. ASSUME NEW i \in 1 .. n
      PROVE  Child(d, D, w[i - 1], path[i], w[i])
  <2>1. i \in 0 .. n /\ i - 1 \in 0 .. n
    OBVIOUS
  <2>2. w[i] \in L /\ w[i] \in M /\ w[i - 1] \in L
    BY <1>2, <2>1
  <2>3. Child(c, C, w[i - 1], path[i], w[i])
    BY <1>1
  <2> QED BY <2>2, <2>3 DEF Deed
<1>4. w \in [0 .. n -> M]
  BY <1>2
<1> QED BY <1>1, <1>3, <1>4 DEF Leads

\* After a removal they lead nowhere else than before.
LEMMA LedBefore ==
  ASSUME NEW c, NEW L, NEW C, NEW g, NEW d, NEW M, NEW D, NEW h, Deed(c, L, C, g, d, M, D, h),
         ~(L \subseteq M),
         NEW path, NEW n \in Nat, NEW loc \in M, Leads(d, M, D, path, n, loc)
  PROVE  loc \in L /\ Leads(c, L, C, path, n, loc)
<1>1. PICK w \in [0 .. n -> M] :
        /\ w[0] = NoLoc /\ w[n] = loc
        /\ \A i \in 1 .. n : Child(d, D, w[i - 1], path[i], w[i])
  BY DEF Leads
<1>2. /\ M \subseteq L
      /\ \A dir \in M, l \in M : \A name : Child(d, D, dir, name, l) => Child(c, C, dir, name, l)
  BY DEF Deed
<1>3. ASSUME NEW i \in 1 .. n
      PROVE  Child(c, C, w[i - 1], path[i], w[i])
  <2>1. i \in 0 .. n /\ i - 1 \in 0 .. n
    OBVIOUS
  <2>2. w[i] \in M /\ w[i - 1] \in M
    BY <2>1
  <2> QED BY <1>1, <1>2, <2>2
<1>4. w \in [0 .. n -> L]
  BY <1>2
<1> QED BY <1>1, <1>2, <1>3, <1>4 DEF Leads

LEMMA StaysVisible ==
  ASSUME NEW c, NEW L, NEW C, NEW g, NEW d, NEW M, NEW D, NEW h, Deed(c, L, C, g, d, M, D, h),
         NEW loc \in Visible(c, L, C), loc \in M
  PROVE  loc \in Visible(d, M, D)
<1>1. PICK path \in Paths \ {<<>>} : Leads(c, L, C, path, Len(path), loc)
  BY DEF Visible
<1>2. Len(path) \in Nat
  OBVIOUS
<1>3. Leads(d, M, D, path, Len(path), loc)
  BY <1>1, <1>2, LeadsStill
<1> QED BY <1>3 DEF Visible

------------------------------------------------------------------------------
(* Free clusters *)

LEMMA FreeIsFinite ==
  ASSUME NEW f
  PROVE  IsFiniteSet(Free(f)) /\ Cardinality(Free(f)) \in Nat
<1>1. IsFiniteSet(Clusters)
  BY FS_Interval DEF Clusters, RootClus
<1>2. Free(f) \subseteq Clusters
  BY DEF Free
<1> QED BY <1>1, <1>2, FS_Subset, FS_CardinalityType

\* A cluster found free is free, and there is one while any is.
LEMMA FreeFound ==
  ASSUME NEW f, Cardinality(Free(f)) >= 1
  PROVE  /\ find_free_clus(f) \in Clusters
         /\ f[find_free_clus(f)] = 0
<1>1. Free(f) # {}
  BY FS_EmptySet, FreeIsFinite
<1>2. Free(f) \subseteq Nat
  BY Clusters1 DEF Free
<1>3. Min(Free(f)) \in Free(f)
  BY <1>1, <1>2, LeastIs
<1> QED BY <1>1, <1>3 DEF find_free_clus, Free

LEMMA FreeFoundType ==
  ASSUME NEW f
  PROVE  find_free_clus(f) \in Clusters \cup {NoClus}
<1>1. Free(f) \subseteq Nat /\ Free(f) \subseteq Clusters
  BY Clusters1 DEF Free
<1> QED BY <1>1, LeastIs DEF find_free_clus

LEMMA LinkType ==
  ASSUME NEW f \in Tables, NEW clus, NEW to \in Clusters \cup {EOC, NoClus}
  PROVE  link_clus(f, clus, to) \in Tables
BY DEF link_clus, Tables

\* One that is linked is not free any more.
LEMMA OneLess ==
  ASSUME NEW f \in Tables, NEW x \in Clusters, f[x] = 0, NEW g \in Tables, g[x] # 0,
         \A y \in Clusters \ {x} : g[y] = 0 <=> f[y] = 0
  PROVE  Cardinality(Free(g)) = Cardinality(Free(f)) - 1
<1> DEFINE S == Free(f)
<1>1. Free(g) = S \ {x} /\ x \in S
  BY DEF Free
<1>2. IsFiniteSet(S)
  BY FreeIsFinite
<1> HIDE DEF S
<1>3. Cardinality(S \ {x}) = Cardinality(S) - 1
  BY <1>1, <1>2, FS_RemoveElement
<1> QED BY <1>1, <1>3 DEF S

------------------------------------------------------------------------------
(* Creation *)

\* What claiming a cluster for a file or a directory does to the disk.
LEMMA Claiming ==
  ASSUME NEW L, NEW C, Layout(fat, content, L, C), NEW n \in Nat \ {0}, HasRoom(n), ~Fills,
         NEW is_dir \in BOOLEAN
  PROVE  /\ Claimed \in Clusters /\ fat[Claimed] = 0 /\ Loose(Claimed, L, C)
         /\ ClaimedFat \in Tables /\ ClaimedFat[Claimed] = EOC
         /\ \A x \in Clusters \ {Claimed} : ClaimedFat[x] = fat[x]
         /\ ClaimedContent(is_dir) \in Disks
         /\ is_dir => ClaimedContent(is_dir)[Claimed] = Blank
         /\ \A x \in Clusters \ {Claimed} : ClaimedContent(is_dir)[x] = content[x]
         /\ Layout(ClaimedFat, ClaimedContent(is_dir), L, C)
         /\ resolve_chain(ClaimedFat, Claimed) = <<Claimed>>
         /\ Cardinality(Free(ClaimedFat)) >= n - 1
<1> DEFINE x == Claimed  g == ClaimedFat  d == ClaimedContent(is_dir)
<1>1. Cardinality(Free(fat)) >= n /\ Cardinality(Free(fat)) \in Nat
  BY FreeIsFinite DEF HasRoom
<1>2. x \in Clusters /\ fat[x] = 0
  BY <1>1, FreeFound DEF Claimed
<1>3. fat \in Tables /\ content \in Disks
  BY DEF Layout, Typed
<1>4. EOC # NoClus /\ EOC # 0
  BY DEF EOC, NoClus
<1>5. g = [fat EXCEPT ![x] = EOC]
  BY <1>2, <1>4 DEF ClaimedFat, link_clus
<1>6. d = IF is_dir THEN [content EXCEPT ![x] = Blank] ELSE content
  BY <1>2 DEF ClaimedContent, write_clus
<1>7. Loose(x, L, C)
  BY <1>2, FreeIsLoose
<1> HIDE DEF x, g, d
<1>8. g \in Tables /\ g[x] = EOC /\ \A y \in Clusters \ {x} : g[y] = fat[y]
  BY <1>2, <1>3, <1>5 DEF Tables
<1>9. Blank \in [1 .. Cells -> Cell]
  BY DEF Blank, Cell
<1>10. d \in Disks /\ (is_dir => d[x] = Blank) /\ \A y \in Clusters \ {x} : d[y] = content[y]
  BY <1>2, <1>3, <1>6, <1>9 DEF Disks
<1>11. Layout(g, d, L, C)
  BY <1>7, <1>8, <1>10, Untouched
<1>12. resolve_chain(g, x) = <<x>>
  <2>1. IsChain(g, x, <<x>>)
    BY <1>2, <1>8 DEF IsChain, IsInjective
  <2> QED BY <1>8, <2>1, ChainIsResolved
<1>13. Cardinality(Free(g)) >= n - 1
  <2>1. Cardinality(Free(g)) = Cardinality(Free(fat)) - 1
    BY <1>2, <1>3, <1>4, <1>8, OneLess
  <2> QED BY <1>1, <2>1
<1> QED BY <1>2, <1>7, <1>8, <1>10, <1>11, <1>12, <1>13 DEF x, g, d

\* create_entry makes a file or directory of one cluster.
Created(L, C, dir, name, is_dir, loc) ==
  LET M == L \cup {loc}  D == With(L, C, loc, Claimed)
  IN  /\ Layout(fat', content', M, D)
      /\ loc \notin L /\ loc # NoLoc /\ D[loc] = <<Claimed>>
      /\ Word(content', loc) = NewEntry(name, is_dir, 0)
      /\ resolve_chain(fat', Claimed) = <<Claimed>>
      /\ \A x \in Clusters \ {Claimed} : fat'[x] = fat[x]
      /\ Child(content', D, dir, name, loc)
      /\ \A h : Deed(content, L, C, fat', content', M, D, h)

LEMMA Creates ==
  ASSUME NEW L, NEW C, Layout(fat, content, L, C), ~Fills,
         NEW dir \in L, IsDir(content, dir), NEW name \in Names, NEW is_dir \in BOOLEAN,
         find_entry(Clus(content, dir), name) = NoLoc,
         create_entry(Clus(content, dir), name, is_dir)
  PROVE  Created(L, C, dir, name, is_dir, FreeSlot(Clus(content, dir)))
<1> DEFINE clus == Clus(content, dir)  loc == FreeSlot(clus)  x == Claimed
           e == NewEntry(name, is_dir, 0)  d == ClaimedContent(is_dir)  g == ClaimedFat
<1>1. /\ x \in Clusters /\ Loose(x, L, C)
      /\ g \in Tables /\ g[x] = EOC
      /\ d \in Disks /\ (is_dir => d[x] = Blank)
      /\ \A y \in Clusters \ {x} : d[y] = content[y]
      /\ Layout(g, d, L, C)
      /\ resolve_chain(g, x) = <<x>>
      /\ \A y \in Clusters \ {x} : g[y] = fat[y]
  BY Claiming DEF create_entry
<1>2. e \in Entries /\ e.clus = x /\ e.size = 0 /\ e.dir = is_dir
  BY <1>1 DEF NewEntry, Entries
<1>3. clus \in 0 .. NoClus /\ fat \in Tables /\ resolve_chain(fat, clus) = C[dir]
  BY ChainFacts, Clusters1, ChainIsResolved DEF Layout, Typed, Chained
<1>4. PICK k \in Places(C[dir]) :
        /\ loc = Slot(C[dir], k)
        /\ At(Slot(C[dir], k)) = Zero
        /\ \A m \in Places(C[dir]) : m < k => At(Slot(C[dir], m)) # Zero
  BY <1>3, FreeSlotFound DEF create_entry
<1>5. fat' = g /\ content' = Store(d, loc, e)
  BY DEF create_entry
<1>6. e.name = name
  BY DEF NewEntry
<1> HIDE DEF clus, loc, x, e, d, g
<1>7. \A m \in Places(C[dir]) :
         ~(IsEntry(At(Slot(C[dir], m))) /\ At(Slot(C[dir], m)).name = name)
  <2>1. find_entry(clus, name) = NoLoc
    BY DEF clus
  <2>2. \A m \in Places(C[dir]) : Slot(C[dir], m) # NoLoc
    BY ChainFacts, SlotType, Clusters1 DEF NoLoc
  <2> QED BY <1>3, <2>1, <2>2, EntryFound
<1>8. \A y \in Clusters : ~Loose(y, L, C) => d[y] = content[y]
  BY <1>1
<1>9. \A m \in Places(C[dir]) : Word(d, Slot(C[dir], m)) = At(Slot(C[dir], m))
  <2>1. \A l \in L : \A m \in Places(C[l]) :
          Word(d, Slot(C[l], m)) = Word(content, Slot(C[l], m))
    BY <1>8, LooseContent
  <2>2. \A m \in Places(C[dir]) : At(Slot(C[dir], m)) = Word(content, Slot(C[dir], m))
    BY DEF Word, At
  <2> QED BY <2>1, <2>2
<1>10. IsDir(d, dir)
  BY <1>8, LooseContent
<1>11. /\ loc \notin L /\ loc # NoLoc
      /\ Word(Store(d, loc, e), loc) = e
      /\ Layout(g, Store(d, loc, e), L \cup {loc}, With(L, C, loc, x))
  <2>1. Word(d, Slot(C[dir], k)) = Zero
    BY <1>4, <1>9
  <2>2. \A m \in Places(C[dir]) : m < k => Word(d, Slot(C[dir], m)) # Zero
    BY <1>4, <1>9
  <2>3. e.dir => d[x] = Blank
    BY <1>1, <1>2
  <2>4. \A m \in Places(C[dir]) :
          IsEntry(Word(d, Slot(C[dir], m))) => Word(d, Slot(C[dir], m)).name # e.name
    BY <1>9, <1>6, <1>7
  <2>5. Enters(g, d, L, C, dir, k, x, e, loc)
    BY <1>1, <1>2, <1>4, <1>10, <2>1, <2>2, <2>3, <2>4 DEF Enters
  <2> QED BY <2>5, Enter
<1> DEFINE M == L \cup {loc}  D == With(L, C, loc, x)
<1>12. D[loc] = <<x>> /\ \A l \in L : D[l] = C[l] /\ l # loc
  BY <1>11 DEF With
<1>13. Layout(fat', content', M, D) /\ Word(content', loc) = e
  BY <1>5, <1>11
<1> HIDE DEF M, D
<1>14. \A q \in Clusters \X (1 .. Cells) :
         q # loc /\ ~Loose(q[1], L, C) => Word(content', q) = Word(content, q)
  <2>1. loc \in Clusters \X (1 .. Cells)
    BY <1>4, SlotIsHeld
  <2>2. \A q \in Clusters \X (1 .. Cells) : q # loc => Word(content', q) = Word(d, q)
    BY <1>1, <1>2, <1>5, <2>1, StoreWord DEF Cell
  <2>3. \A q \in Clusters \X (1 .. Cells) : ~Loose(q[1], L, C) => Word(d, q) = Word(content, q)
    BY <1>8 DEF Word
  <2> QED BY <2>2, <2>3
<1>15. \A l \in L \ {NoLoc} : Spares(content, C, content', D, l)
  <2> SUFFICES ASSUME NEW l \in L \ {NoLoc}
               PROVE  Spares(content, C, content', D, l)
    OBVIOUS
  <2>1. l \in L \ {NoLoc, loc} /\ D[l] = C[l]
    BY <1>12
  <2>2. loc = Slot(C[dir], k)
    BY <1>4
  <2> QED BY <1>4, <1>14, <2>1, <2>2, DeedOfStore, SMTT(30)
<1>16. ASSUME NEW h
       PROVE  Deed(content, L, C, fat', content', M, D, h)
  <2>1. L \subseteq M /\ L \ M = {} /\ L \cap M = L
    BY DEF M
  <2>2. \A l \in L : Extends(C[l], D[l])
    BY <1>12, ChainFacts DEF Extends
  <2>3. \A l \in L \ {NoLoc} :
          Word(content', l).name = Word(content, l).name /\ Word(content', l).dir = Word(content, l).dir
    BY <1>15 DEF Spares
  <2>4. \A l \in L : l \notin {NoLoc, h} => Spares(content, C, content', D, l)
    BY <1>15
  <2> QED BY <1>13, <2>1, <2>2, <2>3, <2>4, DeedIs
<1>17. Child(content', D, dir, name, loc)
  <2>1. IsDir(content', dir)
    BY <1>15 DEF Spares, IsDir
  <2>2. IsEntry(e)
    BY <1>2, EntryType
  <2> QED BY <1>4, <1>12, <1>13, <1>6, <2>1, <2>2 DEF Child
<1> QED BY <1>1, <1>5, <1>11, <1>12, <1>13, <1>16, <1>17 DEF x, e, loc, clus, M, D, Created

\* A creation refused leaves a cluster claimed, and nothing else.
LEMMA Refuses ==
  ASSUME NEW L, NEW C, Layout(fat, content, L, C), ~Fills, NEW clus, NEW is_dir \in BOOLEAN,
         CreateRefused(clus, is_dir)
  PROVE  \A h : Deed(content, L, C, fat', content', L, C, h)
<1>1. Layout(fat', content', L, C)
  BY Claiming DEF CreateRefused
<1>2. /\ Loose(Claimed, L, C)
      /\ \A x \in Clusters \ {Claimed} : content'[x] = content[x]
  BY Claiming DEF CreateRefused
<1>3. \A x \in Clusters : ~Loose(x, L, C) => content'[x] = content[x]
  BY <1>2
<1>4. \A l \in L : Extends(C[l], C[l])
  BY ChainFacts DEF Extends
<1> QED BY <1>1, <1>3, <1>4, DeedOfLoose

------------------------------------------------------------------------------
(* Growth *)

\* A chain s of table f has become t of table g, one free cluster longer.
OneLonger(f, s, g, t) ==
  /\ g \in Tables /\ Extends(s, t) /\ Len(t) = Len(s) + 1
  /\ IsChain(g, s[1], t)
  /\ t[Len(t)] \in Clusters /\ f[t[Len(t)]] = 0
  /\ \A x \in Clusters : (\A i \in 1 .. Len(t) : t[i] # x) => g[x] = f[x]
  /\ Cardinality(Free(g)) = Cardinality(Free(f)) - 1

LEMMA Extending ==
  ASSUME NEW f \in Tables, NEW s, IsChain(f, s[1], s), Cardinality(Free(f)) >= 1,
         NEW word
  PROVE  /\ OneLonger(f, s, Extended(f, s, word).fat, Extended(f, s, word).chain)
         /\ Extended(f, s, word).chain = Append(s, find_free_clus(f))
<1> DEFINE x == find_free_clus(f)  t == Append(s, x)  g == Extended(f, s, word).fat
<1>1. x \in Clusters /\ f[x] = 0
  BY FreeFound
<1>2. s \in Seq(Clusters) /\ Len(s) \in Nat \ {0}
  BY DEF IsChain
<1> DEFINE last == s[Len(s)]
<1>3. last \in Clusters /\ f[last] = EOC /\ EOC # 0 /\ EOC # NoClus /\ last # x
  BY <1>1, <1>2, Clusters1 DEF IsChain, EOC, NoClus
<1>4. Extended(f, s, word).chain = t /\ g = [[f EXCEPT ![last] = x] EXCEPT ![x] = EOC]
  <2>1. Tip(s, word) = last
    BY <1>2 DEF Tip, Last
  <2>2. x # NoClus
    BY <1>1, Clusters1 DEF NoClus, Clusters
  <2> HIDE DEF x, last
  <2>3. link_clus(f, last, x) = [f EXCEPT ![last] = x]
    BY <1>3, <2>2 DEF link_clus
  <2>4. link_clus([f EXCEPT ![last] = x], x, EOC) = [[f EXCEPT ![last] = x] EXCEPT ![x] = EOC]
    BY <1>1, <1>3 DEF link_clus
  <2> QED BY <2>1, <2>3, <2>4 DEF Extended, x
<1> HIDE DEF x, g, last
<1>5. /\ g \in Tables /\ g[last] = x /\ g[x] = EOC
      /\ \A y \in Clusters \ {last, x} : g[y] = f[y]
  BY <1>1, <1>3, <1>4 DEF Tables
<1>6. \A i \in 1 .. Len(s) : s[i] \in Clusters /\ f[s[i]] # 0 /\ s[i] # x
  <2> SUFFICES ASSUME NEW i \in 1 .. Len(s)
               PROVE  s[i] \in Clusters /\ f[s[i]] # 0
    BY <1>1
  <2>1. CASE i = Len(s)
    BY <1>3, <2>1 DEF last
  <2>2. CASE i # Len(s)
    <3>1. i \in 1 .. Len(s) - 1 /\ i + 1 \in 1 .. Len(s)
      BY <1>2, <2>2
    <3>2. f[s[i]] = s[i + 1] /\ s[i + 1] \in Clusters
      BY <1>2, <3>1 DEF IsChain
    <3> QED BY <1>2, <3>2, Clusters1
  <2> QED BY <2>1, <2>2
<1>7. /\ t \in Seq(Clusters) /\ Len(t) = Len(s) + 1 /\ t[Len(s) + 1] = x
      /\ \A i \in 1 .. Len(s) : t[i] = s[i]
  BY <1>1, <1>2
<1> HIDE DEF t
<1>8. IsChain(g, s[1], t)
  <2>1. t # <<>> /\ t[1] = s[1]
    BY <1>2, <1>7
  <2>2. g[t[Len(t)]] = EOC
    BY <1>5, <1>7
  <2>3. ASSUME NEW i \in 1 .. Len(t) - 1
        PROVE  g[t[i]] = t[i + 1]
    <3>1. CASE i = Len(s)
      BY <1>2, <1>5, <1>7, <3>1 DEF last
    <3>2. CASE i # Len(s)
      <4>1. /\ i \in 1 .. Len(s) - 1 /\ i \in 1 .. Len(s)
            /\ Len(s) \in 1 .. Len(s) /\ i + 1 \in 1 .. Len(s)
        BY <1>2, <1>7, <3>2
      <4>2. s[i] # last
        BY <3>2, <4>1 DEF last, IsChain, IsInjective
      <4>3. f[s[i]] = s[i + 1]
        BY <4>1 DEF IsChain
      <4> QED BY <1>5, <1>6, <1>7, <4>1, <4>2, <4>3
    <3> QED BY <3>1, <3>2
  <2>4. IsInjective(t)
    <3> SUFFICES ASSUME NEW i \in 1 .. Len(s) + 1, NEW j \in 1 .. Len(s) + 1, t[i] = t[j]
                 PROVE  i = j
      BY <1>7 DEF IsInjective
    <3>1. CASE i = Len(s) + 1 \/ j = Len(s) + 1
      BY <1>2, <1>6, <1>7, <3>1
    <3>2. CASE ~(i = Len(s) + 1 \/ j = Len(s) + 1)
      <4>1. i \in 1 .. Len(s) /\ j \in 1 .. Len(s)
        BY <1>2, <3>2
      <4> QED BY <1>7, <4>1 DEF IsChain, IsInjective
    <3> QED BY <3>1, <3>2
  <2> QED BY <1>7, <2>1, <2>2, <2>3, <2>4 DEF IsChain
<1>9. ASSUME NEW y \in Clusters, \A i \in 1 .. Len(t) : t[i] # y
      PROVE  g[y] = f[y]
  <2>1. Len(s) \in 1 .. Len(t) /\ Len(s) + 1 \in 1 .. Len(t) /\ t[Len(s)] = last
    BY <1>2, <1>7 DEF last
  <2> QED BY <1>5, <1>7, <1>9, <2>1
<1>10. Cardinality(Free(g)) = Cardinality(Free(f)) - 1
  <2>1. \A y \in Clusters \ {x} : g[y] = 0 <=> f[y] = 0
    BY <1>1, <1>3, <1>5, Clusters1
  <2> QED BY <1>1, <1>3, <1>5, <2>1, OneLess
<1>11. Extends(s, t)
  BY <1>2, <1>7 DEF Extends
<1>12. OneLonger(f, s, g, t)
  BY <1>1, <1>5, <1>7, <1>8, <1>9, <1>10, <1>11 DEF OneLonger
<1> QED BY <1>4, <1>12 DEF g, t, x

\* The same of any number of clusters.
Longer(f, s, g, t, n) ==
  /\ g \in Tables /\ Extends(s, t) /\ Len(t) = Len(s) + n
  /\ IsChain(g, s[1], t)
  /\ \A i \in Len(s) + 1 .. Len(t) : t[i] \in Clusters /\ f[t[i]] = 0
  /\ \A x \in Clusters : (\A i \in 1 .. Len(t) : t[i] # x) => g[x] = f[x]
  /\ Cardinality(Free(g)) = Cardinality(Free(f)) - n

LEMMA OneMore ==
  ASSUME NEW f \in Tables, NEW s, NEW g, NEW t, NEW n \in Nat, Longer(f, s, g, t, n),
         NEW h, NEW u, OneLonger(g, t, h, u)
  PROVE  Longer(f, s, h, u, n + 1)
<1>1. /\ s \in Seq(Clusters) /\ t \in Seq(Clusters) /\ u \in Seq(Clusters)
      /\ Len(s) \in Nat /\ Len(t) = Len(s) + n /\ Len(u) = Len(s) + (n + 1)
      /\ g \in Tables /\ h \in Tables
  BY DEF Longer, OneLonger, Extends
<1>2. /\ \A i \in 1 .. Len(s) : t[i] = s[i]
      /\ \A i \in 1 .. Len(t) : u[i] = t[i]
  BY DEF Longer, OneLonger, Extends
<1>3. Extends(s, u)
  BY <1>1, <1>2 DEF Extends
<1>4. IsChain(h, s[1], u)
  <2>1. IsChain(g, s[1], t)
    BY DEF Longer
  <2>2. t[1] = s[1]
    BY <2>1 DEF IsChain
  <2> QED BY <2>2 DEF OneLonger
<1>5. ASSUME NEW x \in Clusters, \A i \in 1 .. Len(u) : u[i] # x
      PROVE  h[x] = f[x]
  <2>1. h[x] = g[x]
    BY <1>5 DEF OneLonger
  <2>2. \A i \in 1 .. Len(t) : t[i] # x
    BY <1>1, <1>2, <1>5
  <2> QED BY <2>1, <2>2 DEF Longer
<1>6. ASSUME NEW i \in Len(s) + 1 .. Len(u)
      PROVE  u[i] \in Clusters /\ f[u[i]] = 0
  <2>1. CASE i \in 1 .. Len(t)
    <3>1. i \in Len(s) + 1 .. Len(t)
      BY <1>1, <2>1
    <3> QED BY <1>2, <3>1 DEF Longer
  <2>2. CASE i \notin 1 .. Len(t)
    <3>1. i = Len(u)
      <4> DEFINE a == Len(s)  b == Len(t)  z == Len(u)
      <4>1. a \in Nat /\ b = a + n /\ z = b + 1
        BY <1>1
      <4>2. i \in a + 1 .. z /\ i \notin 1 .. b
        BY <2>2
      <4> HIDE DEF a, b, z
      <4>3. i = z
        BY <4>1, <4>2
      <4> QED BY <4>3 DEF z
    <3>2. u[i] \in Clusters /\ g[u[i]] = 0
      BY <3>1 DEF OneLonger
    <3>3. \A j \in 1 .. Len(t) : t[j] # u[i]
      <4> SUFFICES ASSUME NEW j \in 1 .. Len(t), u[j] = u[i]
                   PROVE  FALSE
        BY <1>2
      <4>1. j \in 1 .. Len(u) /\ i \in 1 .. Len(u) /\ j # i
        BY <1>1, <2>2, <3>1
      <4> QED BY <1>4, <4>1 DEF IsChain, IsInjective
    <3> QED BY <3>2, <3>3 DEF Longer
  <2> QED BY <2>1, <2>2
<1>7. Cardinality(Free(h)) = Cardinality(Free(f)) - (n + 1)
  <2>1. /\ Cardinality(Free(h)) = Cardinality(Free(g)) - 1
        /\ Cardinality(Free(g)) = Cardinality(Free(f)) - n
    BY DEF Longer, OneLonger
  <2> QED BY <2>1, FreeIsFinite
<1> QED BY <1>1, <1>3, <1>4, <1>5, <1>6, <1>7 DEF Longer

\* What a write gets its chain grown to.
LEMMA Growing ==
  ASSUME fat \in Tables, NEW s, IsChain(fat, s[1], s),
         NEW need \in Nat, Cardinality(Free(fat)) >= need, NEW word
  PROVE  Longer(fat, s, Grown(s, need, word).fat, Grown(s, need, word).chain, need)
<1> DEFINE Type == [fat : Tables, chain : Seq(0 .. NoClus)]
           more[g \in Type] == Extended(g.fat, g.chain, word)
           grown[n \in 0 .. need] ==
             IF n = 0 THEN [fat |-> fat, chain |-> s] ELSE more[grown[n - 1]]
           start == [fat |-> fat, chain |-> s]
           step == [p \in Type \X (1 .. need) |-> more[p[1]]]
<1>1. Grown(s, need, word) = grown[need]
  BY DEF Grown
<1>2. s \in Seq(Clusters) /\ start \in Type
  <2>1. s \in Seq(Clusters)
    BY DEF IsChain
  <2>2. s \in Seq(0 .. NoClus)
    <3> DEFINE Words == 0 .. NoClus
    <3>1. Clusters \subseteq Words
      BY Clusters1
    <3> HIDE DEF Words
    <3>2. s \in Seq(Words)
      BY <2>1, <3>1
    <3> QED BY <3>2 DEF Words
  <2> QED BY <2>1, <2>2
<1>3. ASSUME NEW g \in Type
      PROVE  more[g] \in Type /\ more[g] = Extended(g.fat, g.chain, word)
  <2> DEFINE x == find_free_clus(g.fat)
  <2>1. x \in Clusters \cup {NoClus}
    BY FreeFoundType
  <2>2. more[g] = Extended(g.fat, g.chain, word)
    OBVIOUS
  <2> HIDE DEF x, more
  <2>3. link_clus(g.fat, Tip(g.chain, word), x) \in Tables
    BY <2>1, LinkType
  <2>4. link_clus(link_clus(g.fat, Tip(g.chain, word), x), x, EOC) \in Tables
    BY <2>3, LinkType
  <2>5. Append(g.chain, x) \in Seq(0 .. NoClus)
    BY <2>1, Clusters1
  <2> QED BY <2>2, <2>4, <2>5 DEF Extended, x
<1>4. PICK w : IsRecursion(w, need, Type, start, step)
  <2>1. step \in [Type \X (1 .. need) -> Type]
    <3> HIDE DEF more, Type
    <3> QED BY <1>3
  <2> HIDE DEF step, start, Type
  <2> QED BY <1>2, <2>1, Recursion
<1>5. w = [n \in 0 .. need |-> IF n = 0 THEN start ELSE more[w[n - 1]]]
  <2>1. \A n \in 0 .. need : n # 0 => n \in 1 .. need /\ n - 1 \in 0 .. need
    OBVIOUS
  <2>2. ASSUME NEW n \in 1 .. need
        PROVE  w[n] = more[w[n - 1]]
    <3>1. n - 1 \in 0 .. need
      OBVIOUS
    <3> HIDE DEF more, Type
    <3>2. w[n - 1] \in Type
      BY <1>4, <3>1 DEF IsRecursion
    <3>3. w[n] = step[<<w[n - 1], n>>]
      BY <1>4, Zenon DEF IsRecursion
    <3> QED BY <3>2, <3>3
  <2> HIDE DEF step, more, Type, start
  <2> QED BY <1>4, <2>1, <2>2 DEF IsRecursion
<1>6. grown = [n \in 0 .. need |-> IF n = 0 THEN start ELSE more[grown[n - 1]]]
  BY <1>5, Zenon
<1> HIDE DEF more, grown
<1> DEFINE Good(n) == /\ grown[n] \in Type
                      /\ Longer(fat, s, grown[n].fat, grown[n].chain, n)
           T == {n \in Nat : n <= need => Good(n)}
<1>7. 0 \in T
  <2>1. 0 \in 0 .. need
    OBVIOUS
  <2>2. grown[0] = start
    BY <1>6, <2>1
  <2>3. Longer(fat, s, fat, s, 0)
    BY <1>2, FreeIsFinite DEF Longer, Extends
  <2> QED BY <1>2, <2>2, <2>3
<1>8. ASSUME NEW n \in Nat, n \in T
      PROVE  n + 1 \in T
  <2> SUFFICES ASSUME n + 1 <= need
               PROVE  Good(n + 1)
    OBVIOUS
  <2> DEFINE g == grown[n]  e == Extended(g.fat, g.chain, word)
  <2>1. g \in Type /\ Longer(fat, s, g.fat, g.chain, n)
    BY <1>8
  <2>2. grown[n + 1] = e /\ e \in Type
    <3>1. n + 1 \in 0 .. need /\ n + 1 # 0 /\ (n + 1) - 1 = n
      OBVIOUS
    <3>2. grown[n + 1] = more[g]
      BY <1>6, <3>1
    <3> HIDE DEF Type, g
    <3> QED BY <1>3, <2>1, <3>2
  <2>3. g.fat \in Tables /\ IsChain(g.fat, s[1], g.chain) /\ g.chain[1] = s[1]
    BY <2>1 DEF Longer, IsChain
  <2>4. Cardinality(Free(g.fat)) >= 1
    <3>1. Cardinality(Free(g.fat)) = Cardinality(Free(fat)) - n
      BY <2>1 DEF Longer
    <3> QED BY <3>1, FreeIsFinite
  <2> HIDE DEF g
  <2>5. OneLonger(g.fat, g.chain, e.fat, e.chain)
    BY <2>3, <2>4, Extending
  <2>6. Longer(fat, s, e.fat, e.chain, n + 1)
    <3> HIDE DEF e
    <3> QED BY <2>1, <2>5, OneMore
  <2> QED BY <2>2, <2>6
<1>9. Good(need)
  <2> HIDE DEF T
  <2>1. Nat \subseteq T
    BY <1>7, <1>8, Induction
  <2> QED BY <2>1 DEF T
<1> QED BY <1>1, <1>9

------------------------------------------------------------------------------
(* Creation without an entry, and writing *)

\* The entry of a creation in a directory with no slot goes nowhere: the
\* directory is longer, the file's cluster is in no chain of it.
Lost(L, C, dir, D) ==
  /\ Layout(fat', content', L, D)
  /\ Claimed \in Clusters /\ Loose(Claimed, L, D) /\ fat'[Claimed] = EOC
  /\ \A q : Deed(content, L, C, fat', content', L, D, q)
  /\ \A z \in Clusters \ {Claimed} : fat[z] = 0 /\ fat'[z] # 0 =>
       \E i \in 1 .. Len(D[dir]) : D[dir][i] = z

LEMMA Loses ==
  ASSUME NEW L, NEW C, Layout(fat, content, L, C), ~Fills,
         NEW dir \in L, IsDir(content, dir), NEW is_dir \in BOOLEAN,
         CreateLost(Clus(content, dir), is_dir)
  PROVE  \E D : Lost(L, C, dir, D)
<1> DEFINE g == ClaimedFat  d == ClaimedContent(is_dir)  x == Claimed
           s == C[dir]  y == find_free_clus(g)  h == Extended(g, s, 0).fat  t == Append(s, y)
           e == [d EXCEPT ![y] = Blank]
<1>1. /\ x \in Clusters /\ fat[x] = 0 /\ Loose(x, L, C)
      /\ g \in Tables /\ g[x] = EOC
      /\ d \in Disks /\ \A z \in Clusters \ {x} : d[z] = content[z]
      /\ Layout(g, d, L, C)
      /\ Cardinality(Free(g)) >= 1
  BY Claiming DEF CreateLost
<1>2. y \in Clusters /\ g[y] = 0
  BY <1>1, FreeFound
<1>3. Loose(y, L, C) /\ x # y
  BY <1>1, <1>2, FreeIsLoose, Clusters1
<1>4. resolve_chain(fat, Clus(content, dir)) = s
  BY ChainIsResolved DEF Layout, Typed, Chained
<1>5. s \in Seq(Clusters) /\ Len(s) \in Nat \ {0}
  BY ChainFacts
<1>6. fat' = h /\ content' = e
  <2>1. Tip(s, 0) = Last(s)
    BY <1>5 DEF Tip
  <2> QED BY <1>4, <2>1 DEF CreateLost, Extended
<1> HIDE DEF g, d, x, s, y, h, t
<1>7. e \in Disks /\ e[y] = Blank /\ \A z \in Clusters \ {y} : e[z] = d[z]
  <2>1. Blank \in [1 .. Cells -> Cell]
    BY DEF Blank, Cell
  <2> QED BY <1>1, <1>2, <2>1 DEF Disks
<1> HIDE DEF e
<1>8. Layout(g, e, L, C)
  BY <1>1, <1>3, <1>7, Untouched
<1>9. Clus(e, dir) = s[1] /\ IsChain(g, s[1], s)
  BY <1>8, ChainFacts DEF Layout, Chained, s
<1>10. OneLonger(g, s, h, t)
  <2>1. /\ OneLonger(g, s, Extended(g, s, 0).fat, Extended(g, s, 0).chain)
        /\ Extended(g, s, 0).chain = Append(s, find_free_clus(g))
    BY <1>1, <1>9, Extending
  <2> QED BY <2>1 DEF h, t, y
<1>11. t[Len(t)] = y /\ Len(t) = Len(s) + 1
  BY <1>2, <1>5 DEF t
<1>12. Layout(h, e, L, [C EXCEPT ![dir] = t])
  <2>1. Extends(s, t) /\ h \in Tables /\ IsChain(h, Clus(e, dir), t)
    BY <1>9, <1>10 DEF OneLonger
  <2>2. \A i \in Len(s) + 1 .. Len(t) : t[i] = y
    BY <1>5, <1>11
  <2>3. \A z \in Clusters : (\A i \in 1 .. Len(t) : t[i] # z) => h[z] = g[z]
    BY <1>10 DEF OneLonger
  <2> QED BY <1>3, <1>7, <1>8, <2>1, <2>2, <2>3, Lengthen DEF s
<1> DEFINE D == [C EXCEPT ![dir] = t]
<1>13. Loose(x, L, D) /\ \A i \in 1 .. Len(t) : t[i] # x
  <2>1. \A i \in 1 .. Len(t) : t[i] # x
    <3> SUFFICES ASSUME NEW i \in 1 .. Len(t)
                 PROVE  t[i] # x
      OBVIOUS
    <3>1. CASE i \in 1 .. Len(s)
      <4>1. t[i] = C[dir][i] /\ i \in 1 .. Len(C[dir])
        BY <1>10, <3>1 DEF OneLonger, Extends, s
      <4> QED BY <1>1, <4>1 DEF Loose
    <3>2. CASE i \notin 1 .. Len(s)
      <4>1. i = Len(t)
        BY <1>5, <1>11, <3>2
      <4> QED BY <1>3, <1>11, <4>1
    <3> QED BY <3>1, <3>2
  <2>2. D[dir] = t /\ \A l \in L \ {dir} : D[l] = C[l]
    BY DEF Layout, Typed
  <2> HIDE DEF D
  <2> QED BY <1>1, <2>1, <2>2 DEF Loose
<1>14. h[x] = EOC
  BY <1>1, <1>10, <1>13 DEF OneLonger
<1>15. \A z \in Clusters : ~Loose(z, L, C) => e[z] = content[z]
  BY <1>1, <1>3, <1>7
<1>16. \A l \in L : Extends(C[l], D[l]) /\ (~IsDir(content, l) => D[l] = C[l])
  <2>1. D[dir] = t /\ \A l \in L \ {dir} : D[l] = C[l]
    BY DEF Layout, Typed
  <2>2. Extends(C[dir], t)
    BY <1>10 DEF OneLonger, s
  <2>3. \A l \in L : Extends(C[l], C[l])
    BY ChainFacts DEF Extends
  <2> HIDE DEF D
  <2> QED BY <2>1, <2>2, <2>3
<1> HIDE DEF D
<1>17. \A q : Deed(content, L, C, h, e, L, D, q)
  BY <1>12, <1>15, <1>16, DeedOfLoose DEF D
<1>18. ASSUME NEW z \in Clusters \ {x}, fat[z] = 0, h[z] # 0
       PROVE  \E i \in 1 .. Len(D[dir]) : D[dir][i] = z
  <2>1. g[z] = 0
    BY <1>18 DEF g, x, ClaimedFat, link_clus
  <2>2. \E i \in 1 .. Len(t) : t[i] = z
    BY <1>10, <1>18, <2>1 DEF OneLonger
  <2>3. D[dir] = t
    BY DEF D, Layout, Typed
  <2> QED BY <2>2, <2>3
<1>19. Layout(fat', content', L, D) /\ fat'[x] = EOC
  BY <1>6, <1>12, <1>14 DEF D
<1>20. \A q : Deed(content, L, C, fat', content', L, D, q)
  BY <1>6, <1>17
<1>21. Lost(L, C, dir, D)
  BY <1>1, <1>6, <1>13, <1>18, <1>19, <1>20 DEF Lost, x
<1> QED BY <1>21

\* Where a write of some cells stops in its last cluster.
LEMMA LastPart ==
  ASSUME NEW n \in Nat \ {0}, NEW d \in Nat \ {0}
  PROVE  LET q == (n - 1) \div d
         IN  /\ q \in Nat /\ q * d < n /\ n <= q * d + d
             /\ (IF n % d # 0 THEN n % d ELSE d) = n - q * d
<1> DEFINE m == n - 1  q == m \div d  r == m % d
<1>1. m \in Nat /\ n = m + 1
  OBVIOUS
<1> HIDE DEF m
<1>2. q \in Nat /\ r \in 0 .. d - 1 /\ m = d * q + r
  BY <1>1, Division
<1> HIDE DEF q, r
<1>3. q * d \in Nat /\ q * d = d * q /\ n = q * d + (r + 1)
  BY <1>1, <1>2
<1>4. CASE r + 1 < d
  <2>1. n % d = r + 1
    <3> DEFINE k == r + 1
    <3>1. k \in Nat /\ k < d
      BY <1>2, <1>4
    <3> HIDE DEF k
    <3>2. (q * d + k) % d = k
      BY <1>2, <3>1, FromParts
    <3> QED BY <1>3, <3>2 DEF k
  <2> QED BY <1>2, <1>3, <2>1 DEF q, m
<1>5. CASE r + 1 = d
  <2>1. n = (q + 1) * d + 0
    BY <1>2, <1>3, <1>5
  <2>2. n % d = 0
    BY <1>2, <2>1, FromParts
  <2> QED BY <1>2, <1>3, <1>5, <2>2 DEF q, m
<1> QED BY <1>2, <1>4, <1>5

\* A chain that has got the clusters a write needs has a place for all it writes.
LEMMA Needed ==
  ASSUME NEW s \in Seq(Clusters), NEW end \in Nat
  PROVE  /\ ClustersNeeded(s, end) \in Nat
         /\ end <= (Len(s) + ClustersNeeded(s, end)) * Cells
<1> DEFINE n == Len(s)  have == n * Cells
<1>1. n \in Nat /\ have \in Nat
  OBVIOUS
<1>2. CASE end > have
  <2> DEFINE m == end - have + Cells - 1  q == m \div Cells  r == m % Cells
  <2>1. m \in Nat /\ ClustersNeeded(s, end) = q
    BY <1>1, <1>2 DEF ClustersNeeded
  <2>2. end - have <= m - Cells + 1
    BY <1>1
  <2> HIDE DEF m
  <2>3. q \in Nat /\ r \in 0 .. Cells - 1 /\ m = Cells * q + r
    BY <2>1, Division
  <2> HIDE DEF q, r, n
  <2>4. (n + q) * Cells = have + Cells * q
    BY <1>1, <2>3
  <2> HIDE DEF have
  <2>5. Cells * q \in Nat
    BY <2>3
  <2>6. end <= have + Cells * q
    BY <1>1, <2>1, <2>2, <2>3, <2>5
  <2> QED BY <2>1, <2>3, <2>4, <2>6 DEF n
<1>3. CASE ~(end > have)
  <2>1. ClustersNeeded(s, end) = 0
    BY <1>3 DEF ClustersNeeded
  <2> QED BY <1>1, <1>3, <2>1
<1> QED BY <1>2, <1>3

\* The middle of a cluster replaced.
LEMMA Replaced ==
  ASSUME NEW old \in [1 .. Cells -> Cell], NEW buffer \in Seq(Data),
         NEW start \in 0 .. Cells, NEW stop \in 0 .. Cells, start <= stop,
         NEW done \in Nat, done + stop - start <= Len(buffer)
  PROVE  SubSeq(old, 1, start) \o SubSeq(buffer, done + 1, done + stop - start)
           \o SubSeq(old, stop + 1, Cells) \in [1 .. Cells -> Cell]
<1> DEFINE a == SubSeq(old, 1, start)  b == SubSeq(buffer, done + 1, done + stop - start)
           z == SubSeq(old, stop + 1, Cells)
<1>1. old \in Seq(Cell) /\ Len(old) = Cells
  OBVIOUS
<1>2. a \in Seq(Cell) /\ Len(a) = start
  BY <1>1
<1>3. z \in Seq(Cell) /\ Len(z) = Cells - stop
  BY <1>1
<1>4. b \in Seq(Cell) /\ Len(b) = stop - start
  <2>1. b \in Seq(Data) /\ Len(b) = stop - start
    OBVIOUS
  <2>2. Data \subseteq Cell
    BY DEF Cell
  <2> HIDE DEF b
  <2> QED BY <2>1, <2>2
<1> HIDE DEF a, b, z
<1>5. a \o b \o z \in Seq(Cell) /\ Len(a \o b \o z) = Cells
  BY <1>2, <1>3, <1>4
<1>6. a \o b \o z \in [1 .. Cells -> Cell]
  <2> DEFINE w == a \o b \o z
  <2>1. w \in Seq(Cell) /\ Len(w) = Cells
    BY <1>5
  <2> HIDE DEF w
  <2>2. w \in [1 .. Cells -> Cell]
    BY <2>1
  <2> QED BY <2>2 DEF w
<1> QED BY <1>6 DEF a, b, z

\* The part of the buffer for a cluster is in the buffer, its place in the cluster.
LEMMA PartIsThere ==
  ASSUME NEW pos \in Nat, NEW len \in Nat \ {0}, NEW i \in Nat,
         pos \div Cells <= i, i <= (pos + len - 1) \div Cells
  PROVE  LET start == StartOffset(pos, i)
             stop == EndOffset(pos + len, i)
             done == IF i = pos \div Cells THEN 0 ELSE i * Cells - pos
         IN  /\ start \in 0 .. Cells /\ stop \in 0 .. Cells /\ start <= stop
             /\ done \in Nat /\ done + stop - start <= len
<1> DEFINE p == pos \div Cells  r == pos % Cells
           end == pos + len  q == (end - 1) \div Cells
           base == i * Cells
           start == StartOffset(pos, i)
           stop == EndOffset(end, i)
           done == IF i = pos \div Cells THEN 0 ELSE i * Cells - pos
<1>1. p \in Nat /\ r \in 0 .. Cells - 1 /\ pos = Cells * p + r
  BY Division
<1>2. end \in Nat \ {0} /\ end - pos = len
  OBVIOUS
<1>3. /\ q \in Nat /\ q * Cells < end /\ end <= q * Cells + Cells
      /\ (IF end % Cells # 0 THEN end % Cells ELSE Cells) = end - q * Cells
  <2> HIDE DEF end
  <2> QED BY <1>2, LastPart
<1>4. stop = IF i = q THEN end - q * Cells ELSE Cells
  BY <1>3 DEF EndOffset
<1>5. start = IF i = p THEN r ELSE 0
  BY DEF StartOffset
<1>6. done = IF i = p THEN 0 ELSE base - pos
  OBVIOUS
<1>7. p <= i /\ i <= q
  OBVIOUS
<1> HIDE DEF p, r, q, start, stop, done, end, base
<1>8. base \in Nat /\ (i = p => base = Cells * p) /\ (i = q => base = q * Cells)
      /\ (i > p => base >= Cells * p + Cells) /\ (i < q => base + Cells <= q * Cells)
  <2>1. base \in Nat /\ (i = p => base = Cells * p) /\ (i = q => base = q * Cells)
    BY <1>1, <1>3 DEF base
  <2>2. ASSUME i > p
        PROVE  base >= Cells * p + Cells
    <3>1. (p + 1) * Cells <= i * Cells /\ (p + 1) * Cells = Cells * p + Cells
      BY <1>1, <2>2
    <3> QED BY <3>1 DEF base
  <2>3. ASSUME i < q
        PROVE  base + Cells <= q * Cells
    <3>1. (i + 1) * Cells <= q * Cells /\ (i + 1) * Cells = i * Cells + Cells
      BY <1>3, <2>3
    <3> QED BY <3>1 DEF base
  <2> QED BY <2>1, <2>2, <2>3
<1> DEFINE lo == Cells * p  hi == q * Cells
<1>9. lo \in Nat /\ hi \in Nat
  BY <1>1, <1>3
<1> USE <1>9
<1> HIDE DEF lo, hi
<1>10. done - start = base - pos /\ done \in Nat
  <2>1. pos = lo + r
    BY <1>1 DEF lo
  <2>2. CASE i = p
    BY <1>1, <1>5, <1>6, <1>8, <2>1, <2>2 DEF lo
  <2>3. CASE i # p
    <3>1. base >= lo + Cells
      BY <1>1, <1>7, <1>8, <2>3 DEF lo
    <3> QED BY <1>1, <1>5, <1>6, <1>8, <2>1, <2>3, <3>1
  <2> QED BY <2>2, <2>3
<1>11. stop \in 1 .. Cells /\ base + stop <= end
  <2>1. hi < end /\ end <= hi + Cells
    BY <1>3 DEF hi
  <2>2. CASE i = q
    BY <1>2, <1>4, <1>8, <2>1, <2>2 DEF hi
  <2>3. CASE i # q
    <3>1. base + Cells <= hi
      BY <1>3, <1>7, <1>8, <2>3 DEF hi
    <3> QED BY <1>2, <1>4, <1>8, <2>1, <2>3, <3>1
  <2> QED BY <2>2, <2>3
<1>12. start \in 0 .. Cells - 1 /\ start <= stop
  <2>1. start \in 0 .. Cells - 1
    BY <1>1, <1>5
  <2>2. CASE i = p
    <3>1. start = pos - base
      BY <1>1, <1>5, <1>8, <2>2
    <3>2. CASE i = q
      <4>1. stop = end - base
        BY <1>4, <1>8, <3>2
      <4>2. base <= pos /\ pos <= end
        BY <1>2, <1>8, <2>1, <3>1
      <4> QED BY <1>2, <1>8, <2>1, <3>1, <4>1, <4>2
    <3>3. CASE i # q
      BY <1>4, <2>1, <3>3
    <3> QED BY <3>2, <3>3
  <2>3. CASE i # p
    BY <1>5, <1>11, <2>3
  <2> QED BY <2>1, <2>2, <2>3
<1>13. done + stop - start <= len
  BY <1>2, <1>8, <1>10, <1>11, <1>12
<1> QED BY <1>10, <1>11, <1>12, <1>13 DEF start, stop, done, end

\* What is written has its place in the chain.
Fits(t, pos, buffer) ==
  /\ content \in Disks /\ t \in Seq(Clusters)
  /\ pos \in Nat /\ buffer \in Seq(Data) \ {<<>>}
  /\ pos + Len(buffer) <= Len(t) * Cells
\* The i-th cluster of the file gets a part of it.
HasPart(pos, buffer, i) ==
  i \in Nat /\ pos \div Cells <= i /\ i <= (pos + Len(buffer) - 1) \div Cells

LEMMA ClusterWritten ==
  ASSUME NEW t, NEW pos, NEW buffer, Fits(t, pos, buffer),
         NEW d \in Disks, NEW i, HasPart(pos, buffer, i)
  PROVE  /\ WriteCluster(d, t, pos, buffer, i) \in Disks
         /\ \A x \in Clusters : (\A j \in 1 .. Len(t) : t[j] # x) =>
              WriteCluster(d, t, pos, buffer, i)[x] = d[x]
<1> USE DEF Fits, HasPart
<1> DEFINE len == Len(buffer)  end == pos + len
           done == IF i = pos \div Cells THEN 0 ELSE i * Cells - pos
           start == StartOffset(pos, i)
           stop == EndOffset(end, i)
           old == CellsOf(t, i)
           cells == SubSeq(old, 1, start) \o SubSeq(buffer, done + 1, done + stop - start)
                      \o SubSeq(old, stop + 1, Cells)
           e == WriteCluster(d, t, pos, buffer, i)
<1>1. len \in Nat \ {0} /\ i <= (pos + len - 1) \div Cells
  OBVIOUS
<1>2. /\ start \in 0 .. Cells /\ stop \in 0 .. Cells /\ start <= stop
      /\ done \in Nat /\ done + stop - start <= len
  <2> HIDE DEF len
  <2> QED BY <1>1, PartIsThere
<1>3. i < Len(t)
  <2> DEFINE a == end - 1  n == Len(t)
  <2>1. a \in Nat /\ n \in Nat /\ a < n * Cells
    BY <1>1
  <2>2. i <= a \div Cells
    OBVIOUS
  <2> HIDE DEF a, n
  <2>3. a \div Cells < n /\ a \div Cells \in Nat
    BY <2>1, QuotientBelow, Division
  <2>4. i < n
    BY <2>1, <2>2, <2>3
  <2> QED BY <2>4 DEF n
<1>4. i + 1 \in 1 .. Len(t) /\ t[i + 1] \in Clusters
  BY <1>3
<1>5. old \in [1 .. Cells -> Cell]
  BY <1>3, <1>4 DEF CellsOf, Disks
<1>6. e = [d EXCEPT ![t[i + 1]] = cells]
  BY <1>4 DEF WriteCluster, write_clus
<1>7. cells \in [1 .. Cells -> Cell]
  <2> HIDE DEF old, start, stop, done
  <2> QED BY <1>2, <1>5, Replaced
<1> HIDE DEF cells, e
<1>8. e \in Disks /\ \A x \in Clusters : x # t[i + 1] => e[x] = d[x]
  BY <1>4, <1>6, <1>7 DEF Disks
<1> QED BY <1>4, <1>8 DEF e

\* The disk before each cluster that is written, and after the last.
IsWriting(put, t, pos, buffer) ==
  LET ix == Indices(pos, pos + Len(buffer))  n == Len(ix)
  IN  /\ n \in Nat /\ put[0] = content /\ Written(t, pos, buffer) = put[n]
      /\ \A k \in 0 .. n : put[k] \in Disks
      /\ \A k \in 1 .. n : /\ HasPart(pos, buffer, ix[k])
                          /\ put[k] = WriteCluster(put[k - 1], t, pos, buffer, ix[k])

LEMMA WrittenInSteps ==
  ASSUME NEW t, NEW pos, NEW buffer, Fits(t, pos, buffer)
  PROVE  \E put : IsWriting(put, t, pos, buffer)
<1>1. /\ content \in Disks /\ t \in Seq(Clusters)
      /\ pos \in Nat /\ buffer \in Seq(Data) \ {<<>>}
  BY DEF Fits
<1> DEFINE ix == Indices(pos, pos + Len(buffer))
           write[i \in Nat] == [c \in Contents |-> WriteCluster(c, t, pos, buffer, i)]
           put[n \in 0 .. Len(ix)] == IF n = 0 THEN content ELSE write[ix[n]][put[n - 1]]
           n == Len(ix)
           step == [p \in Disks \X (1 .. n) |-> write[ix[p[2]]][p[1]]]
<1>2. Written(t, pos, buffer) = put[Len(ix)]
  BY DEF Written
<1>3. /\ n \in Nat
      /\ \A k \in 1 .. n : ix[k] \in Nat /\ HasPart(pos, buffer, ix[k])
  <2> DEFINE a == pos  b == pos + Len(buffer) - 1  p == a \div Cells  q == b \div Cells
  <2>1. a \in Nat /\ b \in Nat /\ a <= b
    BY <1>1
  <2>2. ix = [k \in 1 .. q - p + 1 |-> p + k - 1]
    BY <1>1, <2>1 DEF Indices
  <2> HIDE DEF a, b
  <2>3. p \in Nat /\ q \in Nat
    BY <2>1, Division
  <2>4. p <= q
    <3>1. /\ a % Cells \in 0 .. Cells - 1 /\ a = Cells * p + (a % Cells)
          /\ b % Cells \in 0 .. Cells - 1 /\ b = Cells * q + (b % Cells)
      BY <2>1, Division
    <3> DEFINE r == a % Cells  z == b % Cells
    <3>2. r \in 0 .. Cells - 1 /\ z \in 0 .. Cells - 1 /\ a = Cells * p + r /\ b = Cells * q + z
      BY <3>1
    <3> HIDE DEF r, z, p, q
    <3>3. ASSUME q < p PROVE FALSE
      <4>1. Cells * (q + 1) <= Cells * p /\ Cells * (q + 1) = Cells * q + Cells
        BY <2>3, <3>3
      <4> QED BY <2>1, <2>3, <3>2, <4>1
    <3> QED BY <2>3, <3>3
  <2> DEFINE m == q - p + 1
  <2>5. m \in Nat
    BY <2>3, <2>4
  <2> HIDE DEF p, q, ix
  <2>6. n = m /\ \A k \in 1 .. m : ix[k] = p + k - 1
    BY <2>2, <2>5
  <2>7. \A k \in 1 .. m : p + k - 1 \in Nat /\ p <= p + k - 1 /\ p + k - 1 <= q
    BY <2>3, <2>4
  <2> QED BY <2>5, <2>6, <2>7 DEF p, q, a, b, HasPart
<1>4. Cell \subseteq Data \cup {Zero, Deleted, Unknown} \cup Entries
  BY DEF Cell
<1>5. Disks \subseteq Contents
  <2> DEFINE W == Data \cup {Zero, Deleted, Unknown} \cup Entries
  <2>1. [1 .. Cells -> Cell] \subseteq Seq(W)
    <3> HIDE DEF W
    <3> SUFFICES ASSUME NEW u \in [1 .. Cells -> Cell] PROVE u \in Seq(W)
      OBVIOUS
    <3>1. u \in [1 .. Cells -> W] /\ Cells \in Nat
      BY <1>4 DEF W
    <3> QED BY <3>1
  <2> HIDE DEF W
  <2>2. Contents = [Clusters -> Seq(W)]
    BY DEF Contents, W
  <2> QED BY <2>1, <2>2 DEF Disks
<1> HIDE DEF ix
<1>6. ASSUME NEW d \in Disks, NEW k \in 1 .. n
      PROVE  /\ write[ix[k]][d] = WriteCluster(d, t, pos, buffer, ix[k])
             /\ write[ix[k]][d] \in Disks
  <2>1. write[ix[k]][d] = WriteCluster(d, t, pos, buffer, ix[k])
    BY <1>3, <1>5
  <2>2. WriteCluster(d, t, pos, buffer, ix[k]) \in Disks
    <3>1. HasPart(pos, buffer, ix[k])
      BY <1>3
    <3> HIDE DEF write, n
    <3> QED BY <3>1, ClusterWritten
  <2> QED BY <2>1, <2>2
<1> HIDE DEF write, n
<1>7. PICK w : IsRecursion(w, n, Disks, content, step)
  <2>1. step \in [Disks \X (1 .. n) -> Disks]
    BY <1>6
  <2> HIDE DEF step
  <2> QED BY <1>1, <1>3, <2>1, Recursion
<1>8. w = [k \in 0 .. n |-> IF k = 0 THEN content ELSE write[ix[k]][w[k - 1]]]
  <2>1. \A k \in 0 .. n : k # 0 => k \in 1 .. n
    BY <1>3
  <2>2. ASSUME NEW k \in 1 .. n
        PROVE  w[k] = write[ix[k]][w[k - 1]]
    <3>1. k - 1 \in 0 .. n
      BY <1>3
    <3>2. w[k - 1] \in Disks
      BY <1>7, <3>1 DEF IsRecursion
    <3>3. w[k] = step[<<w[k - 1], k>>]
      BY <1>7, Zenon DEF IsRecursion
    <3> QED BY <3>2, <3>3
  <2> HIDE DEF step
  <2> QED BY <1>7, <2>1, <2>2 DEF IsRecursion
<1>9. put = [k \in 0 .. n |-> IF k = 0 THEN content ELSE write[ix[k]][put[k - 1]]]
  BY <1>8, Zenon DEF n
<1> HIDE DEF put
<1> DEFINE T == {k \in Nat : k <= n => put[k] \in Disks}
<1>10. 0 \in T
  BY <1>1, <1>3, <1>9
<1>11. ASSUME NEW k \in Nat, k \in T
       PROVE  k + 1 \in T
  <2> SUFFICES ASSUME k + 1 <= n
               PROVE  put[k + 1] \in Disks
    OBVIOUS
  <2>1. k + 1 \in 1 .. n /\ k + 1 \in 0 .. n /\ k + 1 # 0 /\ (k + 1) - 1 = k
    BY <1>3
  <2>2. put[k + 1] = write[ix[k + 1]][put[k]]
    BY <1>9, <2>1
  <2>3. put[k] \in Disks
    BY <1>3, <1>11
  <2> QED BY <1>6, <2>1, <2>2, <2>3
<1>12. \A k \in 0 .. n : put[k] \in Disks
  <2> HIDE DEF T
  <2>1. Nat \subseteq T
    BY <1>10, <1>11, Induction
  <2>2. \A k \in 0 .. n : k \in T /\ k \in Nat /\ k <= n
    BY <1>3, <2>1
  <2> QED BY <1>3, <2>2 DEF T
<1>13. put[0] = content
  BY <1>3, <1>9
<1>14. ASSUME NEW k \in 1 .. n
       PROVE  put[k] = WriteCluster(put[k - 1], t, pos, buffer, ix[k])
  <2>1. k \in 0 .. n /\ k # 0 /\ k - 1 \in 0 .. n
    BY <1>3
  <2>2. put[k] = write[ix[k]][put[k - 1]]
    BY <1>9, <2>1
  <2>3. put[k - 1] \in Disks
    BY <1>12, <2>1
  <2> QED BY <1>6, <2>2, <2>3
<1>15. IsWriting(put, t, pos, buffer)
  BY <1>2, <1>3, <1>12, <1>13, <1>14 DEF IsWriting, n, ix
<1> QED BY <1>15

\* A write puts cells of data into the clusters of its chain and nothing elsewhere.
LEMMA Writing ==
  ASSUME NEW t, NEW pos, NEW buffer, Fits(t, pos, buffer)
  PROVE  /\ Written(t, pos, buffer) \in Disks
         /\ \A x \in Clusters : (\A j \in 1 .. Len(t) : t[j] # x) =>
              Written(t, pos, buffer)[x] = content[x]
<1> DEFINE ix == Indices(pos, pos + Len(buffer))  n == Len(ix)
           Spared(d) == \A x \in Clusters : (\A j \in 1 .. Len(t) : t[j] # x) => d[x] = content[x]
<1>1. PICK put : IsWriting(put, t, pos, buffer)
  BY WrittenInSteps
<1>2. /\ n \in Nat /\ put[0] = content /\ Written(t, pos, buffer) = put[n]
      /\ \A k \in 0 .. n : put[k] \in Disks
      /\ \A k \in 1 .. n : /\ HasPart(pos, buffer, ix[k])
                          /\ put[k] = WriteCluster(put[k - 1], t, pos, buffer, ix[k])
  BY <1>1 DEF IsWriting
<1> HIDE DEF n, ix
<1> DEFINE T == {k \in Nat : k <= n => Spared(put[k])}
<1>3. 0 \in T
  BY <1>2
<1>4. ASSUME NEW k \in Nat, k \in T
      PROVE  k + 1 \in T
  <2> SUFFICES ASSUME k + 1 <= n
               PROVE  Spared(put[k + 1])
    OBVIOUS
  <2>1. k + 1 \in 1 .. n /\ k \in 0 .. n /\ (k + 1) - 1 = k /\ k <= n
    BY <1>2
  <2>2. put[k] \in Disks /\ HasPart(pos, buffer, ix[k + 1])
        /\ put[k + 1] = WriteCluster(put[k], t, pos, buffer, ix[k + 1])
    BY <1>2, <2>1
  <2>3. Spared(put[k])
    BY <1>4, <2>1
  <2>4. \A x \in Clusters : (\A j \in 1 .. Len(t) : t[j] # x) => put[k + 1][x] = put[k][x]
    BY <2>2, ClusterWritten
  <2> QED BY <2>3, <2>4
<1>5. n \in T
  <2> HIDE DEF T
  <2>1. Nat \subseteq T
    BY <1>3, <1>4, Induction
  <2> QED BY <1>2, <2>1
<1>6. Spared(put[n]) /\ put[n] \in Disks
  BY <1>2, <1>5
<1> QED BY <1>2, <1>6

------------------------------------------------------------------------------
(* The open file *)

FileRec == [chain : Seq(Clusters), dir : BOOLEAN, size : Nat, loc : Locs, pos : Nat]

\* What it caches is what the disk c holds.
Held(c, L, C, h) ==
  /\ h.loc \in L
  /\ h.chain = C[h.loc]
  /\ h.dir <=> IsDir(c, h.loc)
  /\ h.loc # NoLoc => h.size = Word(c, h.loc).size

\* Or it has no entry, and a chain of clusters that nothing else has.
Adrift(f, L, C, h) ==
  /\ h.loc = <<EOC, 1>> /\ ~h.dir
  /\ IsChain(f, h.chain[1], h.chain)
  /\ \A i \in 1 .. Len(h.chain) : Loose(h.chain[i], L, C)

Handled(f, c, L, C, open) ==
  open = <<>> \/ \E h \in FileRec : open = <<h>> /\ (Held(c, L, C, h) \/ Adrift(f, L, C, h))

LEMMA FileType ==
  ASSUME NEW chain \in Seq(Clusters), NEW entry, entry.dir \in BOOLEAN, entry.size \in Nat,
         NEW loc \in Locs, NEW flags
  PROVE  /\ File(chain, entry, loc, flags) \in FileRec
         /\ File(chain, entry, loc, flags).chain = chain
         /\ File(chain, entry, loc, flags).dir = entry.dir
         /\ File(chain, entry, loc, flags).size = entry.size
         /\ File(chain, entry, loc, flags).loc = loc
         /\ File(chain, entry, loc, flags).pos =
              IF "APPEND" \in flags /\ ~entry.dir THEN entry.size ELSE 0
<1> DEFINE pos == IF "APPEND" \in flags /\ ~entry.dir THEN entry.size ELSE 0
<1>1. pos \in Nat
  OBVIOUS
<1> HIDE DEF pos
<1>2. File(chain, entry, loc, flags)
        = [chain |-> chain, dir |-> entry.dir, size |-> entry.size, loc |-> loc, pos |-> pos]
  BY DEF File, pos
<1>3. /\ File(chain, entry, loc, flags) \in FileRec
      /\ File(chain, entry, loc, flags).chain = chain
      /\ File(chain, entry, loc, flags).dir = entry.dir
      /\ File(chain, entry, loc, flags).size = entry.size
      /\ File(chain, entry, loc, flags).loc = loc
      /\ File(chain, entry, loc, flags).pos = pos
  BY <1>1, <1>2 DEF FileRec
<1> QED BY <1>3 DEF pos

LEMMA MoreHeld ==
  ASSUME NEW a \in Nat, NEW b \in Nat
  PROVE  Max({a, b}) \in {a, b} /\ Max({a, b}) >= a /\ Max({a, b}) >= b
<1>1. \E m \in {a, b} : \A y \in {a, b} : m >= y
  <2>1. CASE a >= b
    BY <2>1
  <2>2. CASE b >= a
    BY <2>2
  <2> QED BY <2>1, <2>2
<1>2. Max({a, b}) \in {a, b} /\ \A y \in {a, b} : Max({a, b}) >= y
  BY <1>1 DEF Max
<1> QED BY <1>2

\* What a write does to the disk, before the size is written.
WritesTo(h, buffer, s, t, g, d) ==
  /\ s = h.chain
  /\ Longer(fat, s, g, t, ClustersNeeded(s, h.pos + Len(buffer)))
  /\ h.pos + Len(buffer) <= Len(t) * Cells
  /\ d \in Disks
  /\ \A x \in Clusters : (\A j \in 1 .. Len(t) : t[j] # x) => d[x] = content[x]

LEMMA WriteTables ==
  ASSUME fat \in Tables, content \in Disks, NEW h \in FileRec,
         IsChain(fat, h.chain[1], h.chain), ~Fills,
         NEW buffer \in Seq(Data) \ {<<>>}, NEW word,
         HasRoom(ClustersNeeded(h.chain, h.pos + Len(buffer)))
  PROVE  LET grown == Grown(h.chain, ClustersNeeded(h.chain, h.pos + Len(buffer)), word)
         IN  WritesTo(h, buffer, h.chain, grown.chain, grown.fat,
                      Written(grown.chain, h.pos, buffer))
<1> DEFINE s == h.chain  end == h.pos + Len(buffer)  need == ClustersNeeded(s, end)
           grown == Grown(s, need, word)  t == grown.chain
<1>1. s \in Seq(Clusters) /\ h.pos \in Nat /\ end \in Nat
  BY DEF FileRec
<1>2. need \in Nat /\ end <= (Len(s) + need) * Cells
  <2> HIDE DEF s, end
  <2> QED BY <1>1, Needed
<1>3. Cardinality(Free(fat)) >= need
  BY DEF HasRoom
<1>4. Longer(fat, s, grown.fat, t, need)
  <2> HIDE DEF need
  <2> QED BY <1>2, <1>3, Growing
<1>5. t \in Seq(Clusters) /\ Len(t) = Len(s) + need
  BY <1>4 DEF Longer, Extends
<1>6. Fits(t, h.pos, buffer)
  <2>1. end <= Len(t) * Cells
    <3> HIDE DEF need, end, s, grown
    <3> QED BY <1>2, <1>5
  <2> HIDE DEF grown
  <2> QED BY <1>1, <1>5, <2>1 DEF Fits
<1> DEFINE d == Written(t, h.pos, buffer)
<1>7. d \in Disks /\ \A x \in Clusters : (\A j \in 1 .. Len(t) : t[j] # x) => d[x] = content[x]
  <2> HIDE DEF grown
  <2> QED BY <1>6, Writing
<1> QED BY <1>4, <1>6, <1>7 DEF WritesTo, Fits

\* A write to a file that has an entry: its chain is t now, the open file o.
Grew(L, C, D, g, e, loc, t, o) ==
  /\ Layout(g, e, L, D)
  /\ o \in FileRec /\ Held(e, L, D, o)
  /\ loc \in L \ {NoLoc} /\ D[loc] = t
  /\ Deed(content, L, C, g, e, L, D, loc)

LEMMA WritesHeld ==
  ASSUME NEW L, NEW C, Layout(fat, content, L, C),
         NEW h \in FileRec, Held(content, L, C, h), ~h.dir, NEW buffer \in Seq(Data) \ {<<>>},
         NEW t, NEW g, NEW d, WritesTo(h, buffer, h.chain, t, g, d),
         NEW size, size = Max({h.pos + Len(buffer), h.size}),
         NEW o, o = [h EXCEPT !.chain = t, !.pos = h.pos + Len(buffer), !.size = size]
  PROVE  \E D : Grew(L, C, D, g, WithSize(d, h.loc, size), h.loc, t, o)
<1> DEFINE loc == h.loc  D == [C EXCEPT ![loc] = t]  end == h.pos + Len(buffer)
           e == WithSize(d, loc, size)
<1>1. loc \in L \ {NoLoc} /\ ~IsDir(content, loc) /\ h.chain = C[loc]
  BY DEF Held, IsDir
<1>2. loc \in Clusters \X (1 .. Cells) /\ Word(content, loc) \in Entries
  BY <1>1, PlaceIsHeld
<1>3. /\ Extends(C[loc], t) /\ g \in Tables /\ IsChain(g, C[loc][1], t)
      /\ \A i \in Len(C[loc]) + 1 .. Len(t) : t[i] \in Clusters /\ fat[t[i]] = 0
      /\ \A x \in Clusters : (\A i \in 1 .. Len(t) : t[i] # x) => g[x] = fat[x]
  BY <1>1 DEF WritesTo, Longer
<1>4. Layout(g, content, L, D)
  <2>1. \A i \in Len(C[loc]) + 1 .. Len(t) : Loose(t[i], L, C)
    BY <1>3, FreeIsLoose
  <2>2. C[loc][1] = Clus(content, loc)
    BY <1>1, ChainFacts
  <2> HIDE DEF loc
  <2> QED BY <1>1, <1>3, <2>1, <2>2, Lengthen
<1>5. D[loc] = t /\ t \in Seq(Clusters)
  BY <1>1, <1>3 DEF Layout, Typed, Extends
<1>6. /\ Layout(g, d, L, D)
      /\ \A l \in L \ {NoLoc} : Word(d, l) = Word(content, l)
  <2>1. /\ d \in Disks
        /\ \A x \in Clusters : (\A j \in 1 .. Len(D[loc]) : D[loc][j] # x) => d[x] = content[x]
    BY <1>5 DEF WritesTo
  <2> HIDE DEF D, loc
  <2> QED BY <1>1, <1>4, <2>1, Overwrite
<1>7. /\ end \in Nat /\ h.size \in Nat /\ h.size = Word(content, loc).size
      /\ size \in {end, h.size} /\ size \in Nat
  <2>1. end \in Nat /\ h.size \in Nat
    BY DEF FileRec
  <2>2. size \in {end, h.size}
    <3> HIDE DEF end
    <3> QED BY <2>1, MoreHeld DEF end
  <2> QED BY <1>1, <2>1, <2>2 DEF Held
<1>8. size <= Len(D[loc]) * Cells
  <2>1. end <= Len(D[loc]) * Cells
    BY <1>5 DEF WritesTo
  <2>2. h.size <= Len(D[loc]) * Cells
    BY <1>1, <1>4, <1>7 DEF Layout, Sized
  <2> QED BY <1>7, <2>1, <2>2
<1>9. e = Resized(d, loc, size)
  <2>1. loc[1] \in Clusters /\ IsEntry(d[loc[1]][loc[2]])
    BY <1>1, <1>2, <1>6, EntryType DEF Word
  <2> HIDE DEF loc
  <2> QED BY <2>1 DEF WithSize, Word, Resized
<1>10. /\ Layout(g, e, L, D)
       /\ Word(e, loc).size = size /\ Word(e, loc).dir = Word(d, loc).dir
  <2>1. loc \in L \ {NoLoc} /\ size \in Nat /\ Layout(g, d, L, D) /\ ~IsDir(d, loc)
    BY <1>1, <1>6, <1>7 DEF IsDir
  <2> HIDE DEF D, loc, e
  <2>2. /\ Layout(g, Resized(d, loc, size), L, D)
        /\ Word(Resized(d, loc, size), loc).size = size
        /\ Word(Resized(d, loc, size), loc).dir = Word(d, loc).dir
    BY <2>1, <1>8, Resize
  <2> QED BY <1>9, <2>2
<1>11. Word(e, loc).size = size /\ Word(e, loc).dir = Word(content, loc).dir
  <2> HIDE DEF e, loc
  <2> QED BY <1>1, <1>6, <1>10
<1>12. /\ o \in FileRec /\ o.loc = loc /\ o.chain = t /\ o.dir = h.dir /\ o.size = size
  BY <1>5, <1>7 DEF FileRec
<1>13. Held(e, L, D, o)
  <2> HIDE DEF e, D, loc
  <2> QED BY <1>1, <1>5, <1>11, <1>12 DEF Held, IsDir
<1>14. \A l \in L \ {loc} : D[l] = C[l]
  BY DEF Layout, Typed
<1>15. /\ \A q \in Clusters \X (1 .. Cells) : q # loc => Word(e, q) = Word(d, q)
       /\ Word(e, loc).name = Word(d, loc).name /\ Word(e, loc).dir = Word(d, loc).dir
  <2>1. loc \in L \ {NoLoc} /\ size \in Nat /\ Layout(g, d, L, D)
    BY <1>1, <1>6, <1>7
  <2> HIDE DEF loc, e, D
  <2> QED BY <1>8, <1>9, <2>1, Resizing
<1>16. \A x \in Clusters : (\A j \in 1 .. Len(t) : t[j] # x) => d[x] = content[x]
  BY DEF WritesTo
<1> HIDE DEF e, D, loc
<1>17. ASSUME NEW l \in L, l \notin {NoLoc, loc}
       PROVE  Spares(content, C, e, D, l)
  <2>1. Word(e, l) = Word(content, l)
    BY <1>6, <1>15, <1>17, PlaceIsHeld
  <2>2. ASSUME ~IsDir(content, l), NEW k \in Places(C[l])
        PROVE  Word(e, Slot(C[l], k)) = Word(content, Slot(C[l], k))
    <3> DEFINE q == Slot(C[l], k)
    <3>1. q \in Clusters \X (1 .. Cells)
      BY SlotIsHeld
    <3>2. \E i \in 1 .. Len(C[l]) : q[1] = C[l][i]
      BY SlotIsHeld
    <3>3. \A j \in 1 .. Len(t) : t[j] # q[1]
      <4>1. D[l] = C[l] /\ D[loc] = t /\ loc \in L /\ l # loc
        BY <1>1, <1>5, <1>14, <1>17
      <4> HIDE DEF q
      <4> QED BY <1>4, <3>2, <4>1 DEF Layout, Apart
    <3>4. q # loc
      <4>1. PICK dir \in L : IsDir(content, dir) /\ \E i \in 1 .. Len(C[dir]) : loc[1] = C[dir][i]
        BY <1>1, PlaceIsHeld
      <4>2. dir # l
        BY <2>2, <4>1
      <4> HIDE DEF q
      <4> QED BY <3>2, <4>1, <4>2 DEF Layout, Apart
    <3> HIDE DEF q
    <3>5. Word(e, q) = Word(d, q) /\ d[q[1]] = content[q[1]]
      BY <1>15, <1>16, <3>1, <3>3, <3>4
    <3> QED BY <3>5 DEF Word, q
  <2> QED BY <1>14, <1>17, <2>1, <2>2 DEF Spares
<1>18. Deed(content, L, C, g, e, L, D, loc)
  <2>1. \A l \in L : Extends(C[l], D[l])
    <3>1. \A l \in L : Extends(C[l], C[l])
      BY ChainFacts DEF Extends
    <3> QED BY <1>3, <1>5, <1>14, <3>1
  <2>2. \A l \in L \ {NoLoc} :
          Word(e, l).name = Word(content, l).name /\ Word(e, l).dir = Word(content, l).dir
    BY <1>1, <1>6, <1>15, <1>17 DEF Spares
  <2> QED BY <1>10, <1>17, <2>1, <2>2, DeedIs
<1> QED BY <1>1, <1>5, <1>10, <1>12, <1>13, <1>18 DEF e, loc, Grew

\* A write to one that has none.
LEMMA WritesAdrift ==
  ASSUME NEW L, NEW C, Layout(fat, content, L, C),
         NEW h \in FileRec, Adrift(fat, L, C, h), NEW buffer \in Seq(Data) \ {<<>>},
         NEW t, NEW g, NEW d, WritesTo(h, buffer, h.chain, t, g, d),
         NEW size, size = Max({h.pos + Len(buffer), h.size}),
         NEW o, o = [h EXCEPT !.chain = t, !.pos = h.pos + Len(buffer), !.size = size]
  PROVE  /\ Layout(g, WithSize(d, h.loc, size), L, C)
         /\ o \in FileRec /\ Adrift(g, L, C, o)
         /\ \A q : Deed(content, L, C, g, WithSize(d, h.loc, size), L, C, q)
<1> DEFINE s == h.chain  end == h.pos + Len(buffer)
<1>1. /\ Extends(s, t) /\ g \in Tables /\ IsChain(g, s[1], t)
      /\ \A i \in Len(s) + 1 .. Len(t) : t[i] \in Clusters /\ fat[t[i]] = 0
      /\ \A x \in Clusters : (\A i \in 1 .. Len(t) : t[i] # x) => g[x] = fat[x]
      /\ d \in Disks
      /\ \A x \in Clusters : (\A j \in 1 .. Len(t) : t[j] # x) => d[x] = content[x]
  BY DEF WritesTo, Longer
<1>2. \A i \in 1 .. Len(t) : Loose(t[i], L, C)
  <2> SUFFICES ASSUME NEW i \in 1 .. Len(t)
               PROVE  Loose(t[i], L, C)
    OBVIOUS
  <2>1. CASE i \in 1 .. Len(s)
    <3>1. t[i] = s[i]
      BY <1>1, <2>1 DEF Extends
    <3> QED BY <2>1, <3>1 DEF Adrift
  <2>2. CASE i \notin 1 .. Len(s)
    <3>1. i \in Len(s) + 1 .. Len(t)
      BY <1>1, <2>2 DEF Extends
    <3> QED BY <1>1, <3>1, FreeIsLoose
  <2> QED BY <2>1, <2>2
<1>3. Layout(g, d, L, C)
  <2>1. \A x \in Clusters : ~Loose(x, L, C) => g[x] = fat[x] /\ d[x] = content[x]
    BY <1>1, <1>2
  <2> QED BY <1>1, <2>1, Untouched
<1>4. WithSize(d, h.loc, size) = d
  <2>1. h.loc[1] \notin Clusters
    BY Clusters1 DEF Adrift
  <2> QED BY <2>1 DEF WithSize
<1>5. end \in Nat /\ h.size \in Nat /\ size \in Nat
  <2>1. end \in Nat /\ h.size \in Nat
    BY DEF FileRec
  <2>2. size \in {end, h.size}
    <3> HIDE DEF end
    <3> QED BY <2>1, MoreHeld DEF end
  <2> QED BY <2>1, <2>2
<1>6. /\ o \in FileRec /\ o.loc = h.loc /\ o.chain = t /\ o.dir = h.dir
  BY <1>1, <1>5 DEF FileRec, Extends
<1>7. t[1] = s[1]
  BY <1>1 DEF IsChain
<1>8. Adrift(g, L, C, o)
  BY <1>1, <1>2, <1>6, <1>7 DEF Adrift
<1>9. \A q : Deed(content, L, C, g, d, L, C, q)
  <2>1. \A x \in Clusters : ~Loose(x, L, C) => d[x] = content[x]
    BY <1>1, <1>2
  <2>2. \A l \in L : Extends(C[l], C[l])
    BY ChainFacts DEF Extends
  <2> QED BY <1>3, <2>1, <2>2, DeedOfLoose
<1> QED BY <1>3, <1>4, <1>6, <1>8, <1>9

------------------------------------------------------------------------------
(* Opening and removing *)

LEMMA EntryHere ==
  ASSUME NEW L, NEW C, Layout(fat, content, L, C), NEW loc \in L \ {NoLoc}
  PROVE  /\ At(loc) = Word(content, loc) /\ At(loc) \in Entries
         /\ At(loc).clus = Clus(content, loc) /\ At(loc).clus \in Clusters
         /\ (IsDir(content, loc) <=> At(loc).dir)
         /\ resolve_chain(fat, At(loc).clus) = C[loc]
         /\ loc \in Locs
<1>1. At(loc) = Word(content, loc) /\ At(loc) \in Entries /\ loc \in Clusters \X (1 .. Cells)
  BY PlaceIsHeld DEF At, Word
<1>2. At(loc).clus = Clus(content, loc) /\ (IsDir(content, loc) <=> At(loc).dir)
  BY <1>1 DEF Clus, IsDir
<1>3. At(loc).clus \in Clusters
  BY <1>2, ChainFacts
<1>4. resolve_chain(fat, At(loc).clus) = C[loc]
  BY <1>2, ChainIsResolved DEF Layout, Typed, Chained
<1>5. loc \in Locs
  BY <1>1, Clusters1 DEF Locs, Clusters, EOC, RootClus
<1> QED BY <1>1, <1>2, <1>3, <1>4, <1>5

\* What is opened is as it was, but for its size if it is cut.
LEMMA Opens ==
  ASSUME NEW L, NEW C, Layout(fat, content, L, C), ~TruncatesLong,
         NEW path \in Paths, NEW flags, OpenExisting(path, flags)
  PROVE  /\ Layout(fat', content', L, C) /\ Handled(fat', content', L, C, fd')
         /\ fat' = fat /\ fd' # <<>> /\ fd'[1].loc = Located(path)
         /\ Located(path) \in L \ {NoLoc}
         /\ Deed(content, L, C, fat', content', L, C, Located(path))
         /\ \E h \in FileRec :
              /\ fd' = <<h>> /\ Held(content', L, C, h) /\ h.loc = Located(path)
              /\ h.dir = At(Located(path)).dir
              /\ h.size = At(Located(path)).size \/ (h.size = 0 /\ ~h.dir)
              /\ h.pos = IF "APPEND" \in flags /\ ~h.dir THEN h.size ELSE 0
              /\ content' = Resized(content, Located(path), h.size)
<1> DEFINE loc == Located(path)  entry == At(loc)
           cut == "TRUNCATE" \in flags /\ ~entry.dir
           chain == resolve_chain(fat, entry.clus)
           now == IF cut THEN [entry EXCEPT !.size = 0] ELSE entry
           n == IF cut THEN 0 ELSE entry.size
<1>1. loc \in L \ {NoLoc}
  BY LocatedInLayout DEF OpenExisting
<1>2. /\ (cut => Len(chain) <= 1)
      /\ fat' = IF cut THEN FreeChain(fat, SubSeq(chain, 2, Len(chain))) ELSE fat
      /\ content' = Store(content, loc, now)
      /\ fd' = <<File(resolve_chain(fat', now.clus), now, loc, flags)>>
  BY DEF OpenExisting, Opened
<1> HIDE DEF loc
<1>3. /\ entry = Word(content, loc) /\ entry \in Entries
      /\ (IsDir(content, loc) <=> entry.dir) /\ chain = C[loc] /\ loc \in Locs
  BY <1>1, EntryHere
<1>4. /\ chain \in Seq(Clusters) /\ Len(chain) \in Nat \ {0} /\ fat \in Tables
  BY <1>1, <1>3, ChainFacts DEF Layout, Typed
<1> HIDE DEF entry, chain, cut
<1>5. now = [entry EXCEPT !.size = n] /\ n \in Nat
  BY <1>3 DEF Entries
<1> HIDE DEF now, n
<1>6. now \in Entries /\ now.clus = entry.clus /\ now.dir = entry.dir /\ now.size = n
  BY <1>3, <1>5 DEF Entries
<1>7. fat' = fat
  <2> SUFFICES ASSUME cut
               PROVE  FreeChain(fat, SubSeq(chain, 2, Len(chain))) = fat
    BY <1>2
  <2> DEFINE rest == SubSeq(chain, 2, Len(chain))
  <2>1. Len(chain) = 1
    BY <1>2, <1>4
  <2>2. rest = <<>>
    BY <1>4, <2>1
  <2> HIDE DEF rest
  <2>3. FreeChain(fat, rest) = [c \in Clusters |-> fat[c]]
    BY <2>2 DEF FreeChain
  <2> QED BY <1>4, <2>3 DEF Tables, rest
<1>8. content' = Resized(content, loc, n)
  BY <1>2, <1>3, <1>5 DEF Resized
<1>9. n <= Len(C[loc]) * Cells
  <2>1. entry.size <= Len(C[loc]) * Cells
    BY <1>1, <1>3 DEF Layout, Sized
  <2>2. Len(C[loc]) * Cells \in Nat
    BY <1>3, <1>4
  <2> QED BY <2>1, <2>2 DEF n
<1>10. /\ Layout(fat, content', L, C)
       /\ Word(content', loc).size = n /\ Word(content', loc).dir = entry.dir
  <2>1. IsDir(content, loc) => n = 0
    BY <1>1, <1>3 DEF n, Layout, Sized
  <2>2. /\ Layout(fat, Resized(content, loc, n), L, C)
        /\ Word(Resized(content, loc, n), loc).size = n
        /\ Word(Resized(content, loc, n), loc).dir = Word(content, loc).dir
    BY <1>1, <1>5, <1>9, <2>1, Resize
  <2> QED BY <1>3, <1>8, <2>2
<1> DEFINE h == File(chain, now, loc, flags)
<1>11. fd' = <<h>>
  BY <1>2, <1>6, <1>7 DEF chain
<1>12. /\ h \in FileRec /\ h.chain = chain /\ h.dir = now.dir /\ h.size = now.size /\ h.loc = loc
       /\ h.pos = IF "APPEND" \in flags /\ ~now.dir THEN now.size ELSE 0
  BY <1>3, <1>4, <1>6, EntryType, FileType
<1> HIDE DEF h
<1>13. Held(content', L, C, h)
  BY <1>1, <1>3, <1>6, <1>10, <1>12 DEF Held, IsDir
<1>14. Handled(fat', content', L, C, fd')
  BY <1>11, <1>12, <1>13 DEF Handled
<1>15. /\ \A q \in Clusters \X (1 .. Cells) : q # loc => Word(content', q) = Word(content, q)
       /\ Word(content', loc).name = Word(content, loc).name
       /\ Word(content', loc).dir = Word(content, loc).dir
  BY <1>1, <1>5, <1>8, Resizing
<1>16. ASSUME NEW l \in L, l \notin {NoLoc, loc}
       PROVE  Spares(content, C, content', C, l)
  <2>1. PICK dir \in L : IsDir(content, dir) /\ \E k \in Places(C[dir]) : loc = Slot(C[dir], k)
    BY <1>1 DEF Layout, Placed
  <2>2. PICK k \in Places(C[dir]) : loc = Slot(C[dir], k)
    BY <2>1
  <2> QED BY <1>15, <1>16, <2>1, <2>2, DeedOfStore
<1>17. Deed(content, L, C, fat', content', L, C, loc)
  <2>1. \A l \in L : Extends(C[l], C[l])
    BY ChainFacts DEF Extends
  <2>2. \A l \in L \ {NoLoc} :
          Word(content', l).name = Word(content, l).name /\ Word(content', l).dir = Word(content, l).dir
    BY <1>15, <1>16 DEF Spares
  <2> QED BY <1>7, <1>10, <1>16, <2>1, <2>2, DeedIs
<1>18. fd' # <<>> /\ fd'[1].loc = loc
  BY <1>11, <1>12
<1>19. h.size = entry.size \/ (h.size = 0 /\ ~h.dir)
  BY <1>6, <1>12 DEF n, cut
<1>20. /\ fd' = <<h>> /\ Held(content', L, C, h) /\ h.loc = loc
       /\ h.dir = entry.dir
       /\ h.pos = IF "APPEND" \in flags /\ ~h.dir THEN h.size ELSE 0
       /\ content' = Resized(content, loc, h.size)
  BY <1>6, <1>8, <1>11, <1>12, <1>13
<1> QED BY <1>1, <1>7, <1>10, <1>12, <1>14, <1>17, <1>18, <1>19, <1>20 DEF loc, entry

\* What is removed is a file, or a directory without entries.
LEMMA Erases ==
  ASSUME NEW L, NEW C, Layout(fat, content, L, C), NEW loc \in L \ {NoLoc},
         At(loc).dir => is_dir_empty(At(loc).clus), Erase(loc)
  PROVE  /\ Layout(fat', content', L \ {loc}, Without(L, C, loc))
         /\ \A x \in Clusters : fat[x] = 0 => fat'[x] = 0
         /\ \A h : Deed(content, L, C, fat', content', L \ {loc}, Without(L, C, loc), h)
<1> DEFINE s == C[loc]  clus == At(loc).clus  c == Store(content, loc, Deleted)
           M == L \ {loc}  D == Without(L, C, loc)
<1>1. /\ (IsDir(content, loc) <=> At(loc).dir) /\ clus \in 0 .. NoClus
      /\ resolve_chain(fat, clus) = s /\ fat \in Tables
  <2>1. fat \in Tables
    BY DEF Layout, Typed
  <2>2. /\ (IsDir(content, loc) <=> At(loc).dir) /\ clus \in Clusters
        /\ resolve_chain(fat, clus) = s
    BY EntryHere
  <2> QED BY <2>1, <2>2, Clusters1
<1>2. IsDir(content, loc) => \A k \in Places(s) : ~IsEntry(Word(content, Slot(s, k)))
  <2> SUFFICES ASSUME IsDir(content, loc), NEW k \in Places(s)
               PROVE  ~IsEntry(Word(content, Slot(s, k)))
    OBVIOUS
  <2>1. \/ At(Slot(s, k)) = Deleted
        \/ \E m \in Places(s) : m <= k /\ At(Slot(s, m)) = Zero
    BY <1>1, EmptyFound
  <2>2. \A m \in Places(s) : At(Slot(s, m)) = Word(content, Slot(s, m))
    BY DEF At, Word
  <2>3. CASE Word(content, Slot(s, k)) = Deleted
    BY <2>3 DEF IsEntry
  <2>4. ASSUME NEW m \in Places(s), m <= k, Word(content, Slot(s, m)) = Zero
        PROVE  Word(content, Slot(s, k)) = Zero
    <3>1. CASE m = k
      BY <2>4, <3>1
    <3>2. CASE m # k
      <4>1. m < k
        BY <2>4, <3>2 DEF Places
      <4> QED BY <2>4, <4>1 DEF Layout, ZerosLast
    <3> QED BY <3>1, <3>2
  <2>5. CASE Word(content, Slot(s, k)) = Zero
    BY <2>5 DEF IsEntry
  <2> QED BY <2>1, <2>2, <2>3, <2>4, <2>5
<1>3. Layout(fat, c, M, D)
  BY <1>2, Leave
<1>4. fat' = FreeChain(fat, s) /\ content' = c
  BY <1>1 DEF Erase
<1>5. \A l \in M : D[l] = C[l] /\ l \in L /\ l # loc
  BY DEF Without
<1> HIDE DEF c, D, M
<1>6. /\ FreeChain(fat, s) \in Tables
      /\ \A x \in Clusters : (\A i \in 1 .. Len(s) : s[i] # x) => FreeChain(fat, s)[x] = fat[x]
      /\ \A i \in 1 .. Len(s) : FreeChain(fat, s)[s[i]] = 0
  <2>1. DOMAIN s = 1 .. Len(s) /\ \A i \in 1 .. Len(s) : s[i] \in Clusters
    BY ChainFacts
  <2> QED BY <1>1, <2>1 DEF FreeChain, Tables
<1>7. \A x \in Clusters : ~Loose(x, M, D) => FreeChain(fat, s)[x] = fat[x] /\ c[x] = c[x]
  <2> SUFFICES ASSUME NEW x \in Clusters, NEW l \in M, NEW j \in 1 .. Len(D[l]), D[l][j] = x
               PROVE  \A i \in 1 .. Len(s) : s[i] # x
    BY <1>6 DEF Loose
  <2>1. D[l] = C[l] /\ l \in L /\ l # loc
    BY <1>5
  <2> QED BY <2>1 DEF Layout, Apart
<1>8. Layout(FreeChain(fat, s), c, M, D)
  <2>1. c \in Disks
    BY <1>3 DEF Layout, Typed
  <2> QED BY <1>3, <1>6, <1>7, <2>1, Untouched
<1>9. loc \in Clusters \X (1 .. Cells) /\ content \in Disks
  BY PlaceIsHeld DEF Layout, Typed
<1>10. \A q \in Clusters \X (1 .. Cells) : q # loc => Word(c, q) = Word(content, q)
  BY <1>9, StoreWord DEF c, Cell
<1>11. ASSUME NEW l \in M \ {NoLoc}
       PROVE  Spares(content, C, c, D, l)
  <2>1. PICK dir \in L : IsDir(content, dir) /\ \E k \in Places(C[dir]) : loc = Slot(C[dir], k)
    BY DEF Layout, Placed
  <2>2. PICK k \in Places(C[dir]) : loc = Slot(C[dir], k)
    BY <2>1
  <2>3. l \in L \ {NoLoc, loc} /\ D[l] = C[l]
    BY <1>5, <1>11
  <2>4. \A q \in Clusters \X (1 .. Cells) :
          q # loc /\ ~Loose(q[1], L, C) => Word(c, q) = Word(content, q)
    BY <1>10
  <2>5. IsDir(content, dir)
    BY <2>1
  <2> QED BY <2>2, <2>3, <2>4, <2>5, DeedOfStore
<1>12. ASSUME NEW h
       PROVE  Deed(content, L, C, FreeChain(fat, s), c, M, D, h)
  <2>1. L \cap M = M /\ M \subseteq L /\ L \ M = {loc}
    BY DEF M
  <2>2. \A l \in L \cap M : Extends(C[l], D[l])
    BY <1>5, ChainFacts DEF Extends
  <2>3. \A l \in (L \cap M) \ {NoLoc} :
          Word(c, l).name = Word(content, l).name /\ Word(c, l).dir = Word(content, l).dir
    BY <1>11 DEF Spares
  <2>4. \A l \in L \cap M : l \notin {NoLoc, h} => Spares(content, C, c, D, l)
    BY <1>11
  <2>5. \A l \in L \ M : \A i \in 1 .. Len(C[l]) : FreeChain(fat, s)[C[l][i]] = 0
    BY <1>6, <2>1
  <2>6. \A l \in L \ M : IsDir(content, l) =>
          \A k \in Places(C[l]) : ~IsEntry(Word(content, Slot(C[l], k)))
    BY <1>2, <2>1
  <2>7. M \subseteq L /\ \A l \in M : D[l] = C[l]
    BY <1>5, <2>1
  <2> HIDE DEF s
  <2> QED BY <1>8, <2>2, <2>3, <2>4, <2>5, <2>6, <2>7, DeedIs
<1>13. \A x \in Clusters : fat[x] = 0 => FreeChain(fat, s)[x] = 0
  BY <1>6
<1> QED BY <1>4, <1>8, <1>12, <1>13 DEF c, M, D

------------------------------------------------------------------------------
(* Reading *)

\* The sequences of a sequence one behind the other.
IsFlattening(g, n, S, seqs) ==
  /\ g \in [1 .. n -> Seq(S)]
  /\ g[1] = seqs[1] /\ \A i \in 1 .. n - 1 : g[i + 1] = g[i] \o seqs[i + 1]
  /\ FlattenSeq(seqs) = g[n]

LEMMA Flattening ==
  ASSUME NEW S, NEW n \in Nat \ {0}, NEW seqs \in [1 .. n -> Seq(S)]
  PROVE  \E g : IsFlattening(g, n, S, seqs)
<1>1. seqs \in Seq(Seq(S)) /\ Len(seqs) = n
  OBVIOUS
<1> DEFINE flatten[i \in 1 .. Len(seqs)] ==
             IF i = 1 THEN seqs[i] ELSE flatten[i - 1] \o seqs[i]
           m == n - 1
           step == [p \in Seq(S) \X (1 .. m) |-> p[1] \o seqs[p[2] + 1]]
<1>2. FlattenSeq(seqs) = flatten[n]
  BY <1>1 DEF FlattenSeq
<1>3. /\ m \in Nat /\ seqs[1] \in Seq(S)
      /\ \A i \in 1 .. m : i + 1 \in 1 .. n /\ seqs[i + 1] \in Seq(S)
  OBVIOUS
<1>4. step \in [Seq(S) \X (1 .. m) -> Seq(S)]
  <2> HIDE DEF m
  <2> QED BY <1>3
<1>5. PICK w : IsRecursion(w, m, Seq(S), seqs[1], step)
  <2> HIDE DEF m, step
  <2> QED BY <1>3, <1>4, Recursion
<1> DEFINE g == [i \in 1 .. n |-> w[i - 1]]
<1>6. g = [i \in 1 .. n |-> IF i = 1 THEN seqs[i] ELSE g[i - 1] \o seqs[i]]
  <2> SUFFICES ASSUME NEW i \in 1 .. n
               PROVE  w[i - 1] = IF i = 1 THEN seqs[i] ELSE g[i - 1] \o seqs[i]
    OBVIOUS
  <2>1. CASE i = 1
    BY <1>5, <2>1 DEF IsRecursion
  <2>2. CASE i # 1
    <3> DEFINE k == i - 1
    <3>1. k \in 1 .. m /\ k - 1 \in 0 .. m /\ k \in 1 .. n /\ i = k + 1
      BY <2>2
    <3> HIDE DEF k
    <3>2. w[k] = step[<<w[k - 1], k>>] /\ w[k - 1] \in Seq(S)
      BY <1>5, <3>1 DEF IsRecursion
    <3>3. w[k] = w[k - 1] \o seqs[k + 1]
      BY <3>1, <3>2, Zenon
    <3>4. g[k] = w[k - 1]
      BY <3>1
    <3> QED BY <2>2, <3>1, <3>3, <3>4 DEF k
  <2> QED BY <2>1, <2>2
<1>7. flatten = [i \in 1 .. n |-> IF i = 1 THEN seqs[i] ELSE flatten[i - 1] \o seqs[i]]
  BY <1>1, <1>6, Zenon
<1> HIDE DEF flatten
<1> DEFINE T == {i \in Nat : i <= m => flatten[i + 1] \in Seq(S)}
<1>8. 0 \in T
  <2>1. 1 \in 1 .. n
    OBVIOUS
  <2> QED BY <1>3, <1>7, <2>1
<1>9. ASSUME NEW i \in Nat, i \in T
      PROVE  i + 1 \in T
  <2> SUFFICES ASSUME i + 1 <= m
               PROVE  flatten[i + 2] \in Seq(S)
    OBVIOUS
  <2>1. /\ i + 2 \in 1 .. n /\ i + 2 # 1 /\ (i + 2) - 1 = i + 1
        /\ i + 1 \in 1 .. m /\ (i + 1) + 1 = i + 2
    OBVIOUS
  <2>2. flatten[i + 2] = flatten[i + 1] \o seqs[i + 2]
    BY <1>7, <2>1
  <2>3. flatten[i + 1] \in Seq(S) /\ seqs[i + 2] \in Seq(S)
    BY <1>3, <1>9, <2>1
  <2> QED BY <2>2, <2>3
<1>10. \A i \in 0 .. m : flatten[i + 1] \in Seq(S)
  <2> HIDE DEF T, m
  <2>1. Nat \subseteq T
    BY <1>8, <1>9, Induction
  <2>2. \A i \in 0 .. m : i \in T /\ i <= m
    BY <1>3, <2>1
  <2> QED BY <2>2 DEF T
<1>11. \A i \in 1 .. n : flatten[i] \in Seq(S)
  <2> SUFFICES ASSUME NEW i \in 1 .. n
               PROVE  flatten[i] \in Seq(S)
    OBVIOUS
  <2>1. i - 1 \in 0 .. m /\ (i - 1) + 1 = i
    OBVIOUS
  <2> HIDE DEF m
  <2> QED BY <1>10, <2>1
<1>12. flatten \in [1 .. n -> Seq(S)]
  <2>1. flatten = [i \in 1 .. n |-> flatten[i]]
    BY <1>7
  <2> QED BY <1>11, <2>1
<1>13. flatten[1] = seqs[1]
  BY <1>7
<1>14. ASSUME NEW i \in 1 .. n - 1
       PROVE  flatten[i + 1] = flatten[i] \o seqs[i + 1]
  <2>1. i + 1 \in 1 .. n /\ i + 1 # 1 /\ (i + 1) - 1 = i
    OBVIOUS
  <2> QED BY <1>7, <2>1
<1> QED BY <1>2, <1>12, <1>13, <1>14 DEF IsFlattening

LEMMA Flattened ==
  ASSUME NEW S, NEW n \in Nat, NEW seqs \in [1 .. n -> Seq(S)]
  PROVE  FlattenSeq(seqs) \in Seq(S)
<1>1. CASE n = 0
  <2>1. FlattenSeq(seqs) = seqs /\ seqs = <<>>
    BY <1>1 DEF FlattenSeq
  <2> QED BY <2>1
<1>2. CASE n # 0
  <2>1. PICK g : IsFlattening(g, n, S, seqs)
    BY <1>2, Flattening
  <2>2. n \in 1 .. n
    BY <1>2
  <2> QED BY <2>1, <2>2 DEF IsFlattening
<1> QED BY <1>1, <1>2

LEMMA LessHeld ==
  ASSUME NEW a \in Nat, NEW b \in Nat
  PROVE  Min({a, b}) \in Nat
<1>1. {a, b} \subseteq Nat /\ {a, b} # {}
  OBVIOUS
<1>2. Min({a, b}) \in {a, b}
  BY <1>1, LeastIs
<1> QED BY <1>2

\* What is read is a sequence of cells, at the end of the disk and behind a chain too.
LEMMA GotType ==
  ASSUME content \in Disks, NEW h \in FileRec, NEW cnt \in Nat
  PROVE  Len(Got(h, cnt)) \in Nat
<1> DEFINE end == Min({h.pos + cnt, h.size})
           ix == Indices(h.pos, end)
           W == Cell \cup {Unknown}
           part(i) == SubSeq(CellsOf(h.chain, i), StartOffset(h.pos, i) + 1, EndOffset(end, i))
           parts == [k \in DOMAIN ix |-> part(ix[k])]
<1>1. h.pos \in Nat /\ h.size \in Nat /\ h.chain \in Seq(Clusters)
  BY DEF FileRec
<1>2. end \in Nat
  <2>1. h.pos + cnt \in Nat
    BY <1>1
  <2> QED BY <1>1, <2>1, LessHeld
<1>3. Got(h, cnt) = IF h.pos = h.size \/ cnt = 0 THEN <<>> ELSE FlattenSeq(parts)
  BY DEF Got
<1> HIDE DEF end
<1>4. PICK n \in Nat : DOMAIN ix = 1 .. n /\ \A k \in 1 .. n : ix[k] \in Nat
  <2> DEFINE e == end - 1  p == h.pos \div Cells  q == e \div Cells
  <2>1. e \in Int /\ Cells \in Nat \ {0}
    BY <1>2
  <2> HIDE DEF e
  <2>2. q \in Int
    BY <2>1
  <2>3. p \in Nat
    BY <1>1, Division
  <2>4. ix = [k \in 1 .. q - p + 1 |-> p + k - 1]
    BY DEF Indices, e
  <2> HIDE DEF p, q, ix
  <2> DEFINE m == IF q - p + 1 < 0 THEN 0 ELSE q - p + 1
  <2>5. m \in Nat /\ 1 .. q - p + 1 = 1 .. m
    BY <2>2, <2>3
  <2> HIDE DEF m
  <2>6. DOMAIN ix = 1 .. m /\ \A k \in 1 .. m : ix[k] = p + k - 1
    BY <2>4, <2>5
  <2>7. \A k \in 1 .. m : p + k - 1 \in Nat
    BY <2>3
  <2> QED BY <2>5, <2>6, <2>7
<1>5. ASSUME NEW i \in Nat
      PROVE  part(i) \in Seq(W)
  <2> DEFINE old == CellsOf(h.chain, i)  a == StartOffset(h.pos, i)  b == EndOffset(end, i)
  <2>1. old \in [1 .. Cells -> W]
    <3>1. CASE i < Len(h.chain) /\ h.chain[i + 1] \in Clusters
      <4>1. old = content[h.chain[i + 1]]
        BY <3>1 DEF CellsOf
      <4> QED BY <3>1, <4>1 DEF Disks
    <3>2. CASE ~(i < Len(h.chain) /\ h.chain[i + 1] \in Clusters)
      <4>1. old = [k \in 1 .. Cells |-> Unknown]
        BY <3>2 DEF CellsOf
      <4> QED BY <4>1
    <3> QED BY <3>1, <3>2
  <2>2. a \in Nat
    <3>1. h.pos % Cells \in Nat
      BY <1>1, Division
    <3> QED BY <3>1 DEF StartOffset
  <2>3. b \in Nat /\ b <= Cells
    <3>1. end % Cells \in 0 .. Cells - 1
      BY <1>2, Division
    <3> QED BY <3>1 DEF EndOffset
  <2> HIDE DEF old, a, b, W
  <2>4. old \in Seq(W) /\ Len(old) = Cells
    BY <2>1
  <2>5. SubSeq(old, a + 1, b) \in Seq(W)
    BY <2>2, <2>3, <2>4
  <2> QED BY <2>5 DEF old, a, b
<1>6. parts \in [1 .. n -> Seq(W)]
  <2> HIDE DEF part, ix, W
  <2> QED BY <1>4, <1>5
<1>7. FlattenSeq(parts) \in Seq(W)
  <2> HIDE DEF parts, W
  <2> QED BY <1>6, Flattened
<1>8. Got(h, cnt) \in Seq(W)
  <2> HIDE DEF parts
  <2> QED BY <1>3, <1>7
<1> HIDE DEF W
<1> QED BY <1>8

\* Reading and listing move an open file, nothing else.
LEMMA Moved ==
  ASSUME NEW f, NEW c, NEW L, NEW C, NEW h \in FileRec,
         Held(c, L, C, h) \/ Adrift(f, L, C, h), NEW p \in Nat
  PROVE  Handled(f, c, L, C, <<[h EXCEPT !.pos = p]>>) /\ [h EXCEPT !.pos = p].loc = h.loc
<1> DEFINE o == [h EXCEPT !.pos = p]
<1>1. /\ o \in FileRec /\ o.chain = h.chain /\ o.dir = h.dir /\ o.size = h.size /\ o.loc = h.loc
  BY DEF FileRec
<1> HIDE DEF o
<1>2. Held(c, L, C, o) \/ Adrift(f, L, C, o)
  BY <1>1 DEF Held, Adrift
<1>3. Handled(f, c, L, C, <<o>>)
  BY <1>1, <1>2 DEF Handled
<1> QED BY <1>1, <1>3 DEF o

LEMMA Reads ==
  ASSUME NEW L, NEW C, Layout(fat, content, L, C), Handled(fat, content, L, C, fd),
         NEW cnt \in Counts, fs_read(cnt)
  PROVE  /\ fat' = fat /\ content' = content /\ new_entry' = new_entry
         /\ Handled(fat, content, L, C, fd')
         /\ fd # <<>> /\ fd' # <<>> /\ fd'[1].loc = fd[1].loc
<1>1. CASE OnDirectory
  BY <1>1 DEF OnDirectory, disk
<1>2. CASE fd # <<>> /\ ~OnDirectory
  <2>1. PICK h \in FileRec : fd = <<h>> /\ (Held(content, L, C, h) \/ Adrift(fat, L, C, h))
    BY <1>2 DEF Handled
  <2>2. fd[1] = h
    BY <2>1
  <2>3. /\ fd' = <<[h EXCEPT !.pos = h.pos + Len(Got(h, cnt))]>>
        /\ fat' = fat /\ content' = content /\ new_entry' = new_entry
    BY <1>2, <2>2 DEF fs_read, disk
  <2> DEFINE p == h.pos + Len(Got(h, cnt))
  <2>4. p \in Nat
    <3>1. Len(Got(h, cnt)) \in Nat
      BY GotType DEF Layout, Typed
    <3> QED BY <3>1 DEF FileRec
  <2> HIDE DEF p
  <2>5. Handled(fat, content, L, C, <<[h EXCEPT !.pos = p]>>) /\ [h EXCEPT !.pos = p].loc = h.loc
    BY <2>1, <2>4, Moved
  <2> DEFINE o == [h EXCEPT !.pos = p]
  <2>6. fd' = <<o>> /\ o.loc = h.loc
    BY <2>3, <2>5 DEF p
  <2> HIDE DEF o
  <2>7. fd' # <<>> /\ fd'[1].loc = fd[1].loc
    BY <2>2, <2>6
  <2> QED BY <1>2, <2>3, <2>5, <2>7 DEF p
<1> QED BY <1>1, <1>2 DEF fs_read, OnDirectory

LEMMA Lists ==
  ASSUME NEW L, NEW C, Layout(fat, content, L, C), Handled(fat, content, L, C, fd), fs_readdir
  PROVE  /\ fat' = fat /\ content' = content /\ new_entry' = new_entry
         /\ Handled(fat, content, L, C, fd')
         /\ fd # <<>> /\ fd' # <<>> /\ fd'[1].loc = fd[1].loc
<1>1. fat' = fat /\ content' = content /\ new_entry' = new_entry /\ fd # <<>>
  BY DEF fs_readdir, disk
<1>2. PICK h \in FileRec : fd = <<h>> /\ (Held(content, L, C, h) \/ Adrift(fat, L, C, h))
  BY <1>1 DEF Handled
<1>3. fd[1] = h
  BY <1>2
<1>4. PICK word :
        LET limit == Limit(h.chain)
            stops == {k \in h.pos .. limit - 1 : Listed(h.chain, word, k) # Deleted}
            k == Min(stops \cup {limit})
        IN  \/ fd' = fd
            \/ fd' = <<[h EXCEPT !.pos = k]>>
            \/ fd' = <<[h EXCEPT !.pos = k + 1]>>
  BY <1>3, Zenon DEF fs_readdir
<1> DEFINE limit == Limit(h.chain)
           stops == {k \in h.pos .. limit - 1 : Listed(h.chain, word, k) # Deleted}
           k == Min(stops \cup {limit})
<1>5. k \in Nat
  <2>1. limit \in Nat
    <3> DEFINE n == Len(h.chain)
    <3>1. n \in Nat
      BY DEF FileRec
    <3> HIDE DEF n
    <3>2. (n + 1) * Cells \in Nat
      BY <3>1
    <3> QED BY <3>2 DEF Limit, n
  <2>2. stops \cup {limit} \subseteq Nat /\ stops \cup {limit} # {}
    <3> HIDE DEF limit
    <3> QED BY <2>1 DEF FileRec
  <2> HIDE DEF stops, limit
  <2> QED BY <2>2, LeastIs
<1>6. fd' = fd \/ fd' = <<[h EXCEPT !.pos = k]>> \/ fd' = <<[h EXCEPT !.pos = k + 1]>>
  BY <1>4
<1> HIDE DEF k
<1>7. ASSUME NEW p \in Nat, fd' = <<[h EXCEPT !.pos = p]>>
      PROVE  Handled(fat, content, L, C, fd') /\ fd' # <<>> /\ fd'[1].loc = fd[1].loc
  <2> DEFINE o == [h EXCEPT !.pos = p]
  <2>1. Handled(fat, content, L, C, <<o>>) /\ o.loc = h.loc
    BY <1>2, Moved
  <2>2. fd' = <<o>>
    BY <1>7
  <2> HIDE DEF o
  <2> QED BY <1>3, <2>1, <2>2
<1>8. k + 1 \in Nat
  BY <1>5
<1> QED BY <1>1, <1>5, <1>6, <1>7, <1>8

------------------------------------------------------------------------------
(* Every call keeps the layout *)

\* There is nothing but what a path of Paths leads to.
Shown(c, L, C) == L \subseteq Visible(c, L, C) \cup {NoLoc}

\* The inductive invariant.
Holds(L, C) ==
  /\ Layout(fat, content, L, C)
  /\ Handled(fat, content, L, C, fd)
  /\ Shown(content, L, C)
Kept == \E L, C : Holds(L, C)
Inv == Kept /\ new_entry \in BOOLEAN

\* What every call does.  A cluster it takes belongs to something a path leads to,
\* but in the two cases LeaksOnlyWhenFull names: the one claimed in vain, and what
\* is written to the file whose entry is nowhere.
Claims(f, g, d, M, D, lost) ==
  \A x \in Clusters \ lost : f[x] = 0 /\ g[x] # 0 =>
    \E l \in Visible(d, M, D) \cup {NoLoc} : \E i \in 1 .. Len(D[l]) : D[l][i] = x
Takes(M, D) ==
  \/ Claims(fat, fat', content', M, D, {})
  \/ CreatesInVain /\ Claims(fat, fat', content', M, D, {Claimed})
  \/ EntryIsNowhere /\ fat' # fat
OpenLoc(open) == IF open = <<>> THEN NoLoc ELSE open[1].loc
Goes(L, C, M, D) ==
  /\ Deed(content, L, C, fat', content', M, D, OpenLoc(fd'))
  /\ Handled(fat', content', M, D, fd')
  /\ Shown(content', M, D)
  /\ new_entry' \in BOOLEAN
  /\ Takes(M, D)

LEMMA InitKeeps == Init => Inv
<1> SUFFICES ASSUME Init
             PROVE  Kept
  BY DEF Inv, Init
<1> DEFINE L == {NoLoc}  C == [loc \in L |-> <<RootClus>>]
<1>1. /\ fat = [c \in Clusters |-> IF c = RootClus THEN EOC ELSE 0]
      /\ content = [c \in Clusters |-> Blank] /\ fd = <<>>
  BY DEF Init
<1>2. Typed(fat, content, L, C)
  <2>1. Blank \in [1 .. Cells -> Cell]
    BY DEF Blank, Cell
  <2>2. fat \in Tables
    BY <1>1 DEF Tables
  <2>3. content \in Disks
    BY <1>1, <2>1 DEF Disks
  <2>4. C \in [L -> Seq(Clusters)]
    BY Clusters1
  <2> QED BY <2>2, <2>3, <2>4 DEF Typed
<1>3. Chained(fat, content, L, C)
  BY <1>1, Clusters1 DEF Chained, IsChain, IsInjective, Clus
<1>4. \A k \in Places(C[NoLoc]) : Word(content, Slot(C[NoLoc], k)) = Zero
  <2> SUFFICES ASSUME NEW k \in Places(C[NoLoc])
               PROVE  Word(content, Slot(C[NoLoc], k)) = Zero
    OBVIOUS
  <2>1. C[NoLoc] \in Seq(Clusters)
    BY <1>2 DEF Typed
  <2>2. Slot(C[NoLoc], k) \in Clusters \X (1 .. Cells)
    BY <2>1, SlotType
  <2> QED BY <1>1, <2>2 DEF Word, Blank
<1> HIDE DEF C
<1>5. Named(content, L) /\ Sized(content, L, C) /\ Placed(content, L, C) /\ Apart(L, C)
  BY DEF Named, Sized, Placed, Apart
<1>6. /\ Closed(content, L, C) /\ Clean(content, L, C)
      /\ ZerosLast(content, L, C) /\ Distinct(content, L, C)
  BY <1>4 DEF Closed, Clean, ZerosLast, Distinct, IsEntry
<1>7. Layout(fat, content, L, C)
  BY <1>2, <1>3, <1>5, <1>6 DEF Layout
<1> QED BY <1>1, <1>7 DEF Kept, Holds, Handled, Shown

\* What there was stays where a path leads to it.
LEMMA StillShown ==
  ASSUME NEW c, NEW L, NEW C, NEW g, NEW d, NEW M, NEW D, NEW h, Deed(c, L, C, g, d, M, D, h),
         Shown(c, L, C), M \ L \subseteq Visible(d, M, D)
  PROVE  Shown(d, M, D)
<1> SUFFICES ASSUME NEW loc \in M \ {NoLoc}, loc \in L
             PROVE  loc \in Visible(d, M, D)
  BY DEF Shown
<1>1. loc \in Visible(c, L, C)
  BY DEF Shown
<1> QED BY <1>1, StaysVisible

\* Calls that leave the disk alone.
LEMMA SameDisk ==
  ASSUME NEW L, NEW C, Holds(L, C), fat' = fat, content' = content, new_entry' \in BOOLEAN,
         Handled(fat, content, L, C, fd')
  PROVE  Goes(L, C, L, C)
<1>1. Layout(fat, content, L, C)
  BY DEF Holds
<1>2. \A l \in L : Extends(C[l], C[l])
  BY <1>1, ChainFacts DEF Extends
<1>3. ASSUME NEW h
      PROVE  Deed(content, L, C, fat, content, L, C, h)
  BY <1>1, <1>2, DeedOfLoose
<1>4. Claims(fat, fat, content, L, C, {})
  BY DEF Claims
<1> QED BY <1>3, <1>4 DEF Goes, Takes, Holds

\* The directory a path leads to, and the name in it.
LEMMA PathLeads ==
  ASSUME NEW L, NEW C, Layout(fat, content, L, C), NEW path \in Paths, parse_path(path) # 0
  PROVE  /\ path # <<>> /\ Last(path) \in Names
         /\ \E dir \in L : /\ IsDir(content, dir) /\ parse_path(path) = Clus(content, dir)
                          /\ Leads(content, L, C, path, Len(path) - 1, dir)
         /\ Located(path) = find_entry(parse_path(path), Last(path))
<1>1. path # <<>> /\ path \in Seq(Names)
  BY ParsedPath
<1>2. Last(path) \in Names
  BY <1>1 DEF Last
<1>3. PICK dir \in L : /\ IsDir(content, dir) /\ parse_path(path) = Clus(content, dir)
                      /\ Leads(content, L, C, path, Len(path) - 1, dir)
  BY ParsedPath
<1>4. parse_path(path) \in 0 .. NoClus
  <2>1. Clus(content, dir) \in Clusters
    BY ChainFacts
  <2> QED BY <1>3, <2>1, Clusters1
<1>5. Located(path) = find_entry(parse_path(path), Last(path))
  BY <1>1, <1>4 DEF Located
<1> QED BY <1>1, <1>2, <1>3, <1>5

\* What create_entry makes is where the path leads, and what it claims is its.
LEMMA Makes ==
  ASSUME NEW L, NEW C, Layout(fat, content, L, C), ~Fills,
         NEW path \in Paths, parse_path(path) # 0, Located(path) = NoLoc,
         NEW is_dir \in BOOLEAN, create_entry(parse_path(path), Last(path), is_dir)
  PROVE  LET loc == FreeSlot(parse_path(path))
             M == L \cup {loc}  D == With(L, C, loc, Claimed)
         IN  /\ Layout(fat', content', M, D)
             /\ loc # NoLoc /\ D[loc] = <<Claimed>>
             /\ Word(content', loc) = NewEntry(Last(path), is_dir, 0)
             /\ resolve_chain(fat', Claimed) = <<Claimed>>
             /\ \A h : Deed(content, L, C, fat', content', M, D, h)
             /\ loc \in Visible(content', M, D)
             /\ Leads(content', M, D, path, Len(path), loc)
             /\ Claims(fat, fat', content', M, D, {})
<1>1. /\ path # <<>> /\ Last(path) \in Names
      /\ Located(path) = find_entry(parse_path(path), Last(path))
  BY PathLeads
<1>2. PICK dir \in L : /\ IsDir(content, dir) /\ parse_path(path) = Clus(content, dir)
                      /\ Leads(content, L, C, path, Len(path) - 1, dir)
  BY PathLeads
<1> DEFINE name == Last(path)  loc == FreeSlot(Clus(content, dir))
           M == L \cup {loc}  D == With(L, C, loc, Claimed)
<1>3. Created(L, C, dir, name, is_dir, loc)
  <2>1. /\ find_entry(Clus(content, dir), name) = NoLoc
        /\ create_entry(Clus(content, dir), name, is_dir)
    BY <1>1, <1>2
  <2> HIDE DEF name
  <2>2. name \in Names
    BY <1>1 DEF name
  <2> QED BY <1>2, <2>1, <2>2, Creates
<1>4. loc = FreeSlot(parse_path(path)) /\ loc \in M /\ dir \in M
  BY <1>2
<1> HIDE DEF loc
<1>5. /\ Layout(fat', content', M, D)
      /\ loc # NoLoc /\ D[loc] = <<Claimed>>
      /\ Word(content', loc) = NewEntry(name, is_dir, 0)
      /\ resolve_chain(fat', Claimed) = <<Claimed>>
      /\ \A x \in Clusters \ {Claimed} : fat'[x] = fat[x]
      /\ Child(content', D, dir, name, loc)
      /\ \A h : Deed(content, L, C, fat', content', M, D, h)
  BY <1>3 DEF Created
<1> HIDE DEF M, D
<1>6. /\ loc \in Visible(content', M, D)
      /\ Leads(content', M, D, path, Len(path), loc)
  <2> DEFINE n == Len(path) - 1
  <2>1. n \in Nat /\ n + 1 = Len(path) /\ path[n + 1] = name
    BY <1>1 DEF Last
  <2> HIDE DEF n, name
  <2>2. Leads(content, L, C, path, n, dir)
    BY <1>2 DEF n
  <2>3. Deed(content, L, C, fat', content', M, D, NoLoc)
    BY <1>5
  <2>4. Leads(content', M, D, path, n, dir)
    BY <1>4, <2>1, <2>2, <2>3, LeadsStill
  <2>5. Leads(content', M, D, path, n + 1, loc)
    BY <1>4, <1>5, <2>1, <2>4, LeadsOn
  <2> QED BY <1>1, <1>4, <1>5, <2>1, <2>5 DEF Visible
<1>7. Claims(fat, fat', content', M, D, {})
  <2> SUFFICES ASSUME NEW x \in Clusters, fat[x] = 0, fat'[x] # 0
               PROVE  \E l \in Visible(content', M, D) : \E i \in 1 .. Len(D[l]) : D[l][i] = x
    BY DEF Claims
  <2>1. x = Claimed
    BY <1>5
  <2>2. 1 \in 1 .. Len(D[loc]) /\ D[loc][1] = x
    BY <1>5, <2>1
  <2> QED BY <1>6, <2>2
<1> QED BY <1>4, <1>5, <1>6, <1>7 DEF M, D

\* One without a slot, refused or lost, is in vain: all that is lost is the cluster
\* claimed for it.
LEMMA RefusedInVain ==
  ASSUME NEW L, NEW C, Layout(fat, content, L, C),
         NEW path \in Paths, parse_path(path) # 0, Located(path) = NoLoc,
         NEW is_dir \in BOOLEAN, CreateRefused(parse_path(path), is_dir)
  PROVE  Takes(L, C)
<1>1. path # <<>>
  BY PathLeads
<1>2. FreeSlot(parse_path(path)) = NoLoc /\ fat' = ClaimedFat
  BY DEF CreateRefused
<1>3. CreatesInVain
  BY <1>1, <1>2 DEF CreatesInVain, NoSlotFor
<1>4. Claims(fat, fat', content', L, C, {Claimed})
  BY <1>2 DEF Claims, ClaimedFat, link_clus
<1> QED BY <1>3, <1>4 DEF Takes

LEMMA LostInVain ==
  ASSUME NEW L, NEW C, Layout(fat, content, L, C),
         NEW path \in Paths, parse_path(path) # 0, Located(path) = NoLoc,
         NEW is_dir \in BOOLEAN, CreateLost(parse_path(path), is_dir),
         NEW D, NEW dir \in L, Lost(L, C, dir, D), Shown(content', L, D)
  PROVE  Takes(L, D)
<1>1. path # <<>>
  BY PathLeads
<1>2. FreeSlot(parse_path(path)) = NoLoc
  BY DEF CreateLost
<1>3. CreatesInVain
  BY <1>1, <1>2 DEF CreatesInVain, NoSlotFor
<1>4. dir \in Visible(content', L, D) \cup {NoLoc}
  BY DEF Shown
<1>5. Claims(fat, fat', content', L, D, {Claimed})
  BY <1>4 DEF Claims, Lost
<1> QED BY <1>3, <1>5 DEF Takes

\* fs_write.
LEMMA WriteGoes ==
  ASSUME NEW L, NEW C, Holds(L, C), new_entry \in BOOLEAN, ~Fills,
         NEW buffer \in Seq(Data), NEW word, fs_write(buffer, word)
  PROVE  \E D : Goes(L, C, L, D)
<1>1. Layout(fat, content, L, C) /\ Handled(fat, content, L, C, fd) /\ Shown(content, L, C)
  BY DEF Holds
<1>2. CASE OnDirectory \/ OfNothing
  <2>1. fat' = fat /\ content' = content /\ new_entry' = new_entry /\ fd' = fd
    BY <1>2 DEF OnDirectory, OfNothing, disk
  <2> QED BY <1>1, <2>1, SameDisk
<1>3. CASE fd # <<>> /\ ~fd[1].dir /\ buffer # <<>>
  <2>1. PICK h \in FileRec : fd = <<h>> /\ (Held(content, L, C, h) \/ Adrift(fat, L, C, h))
    BY <1>1, <1>3 DEF Handled
  <2>2. fd[1] = h
    BY <2>1
  <2> DEFINE s == h.chain  end == h.pos + Len(buffer)  need == ClustersNeeded(s, end)
             grown == Grown(s, need, word)  t == grown.chain  g == grown.fat
             d == Written(t, h.pos, buffer)
             size == Max({end, h.size})
             o == [h EXCEPT !.chain = t, !.pos = end, !.size = size]
             e == WithSize(d, h.loc, size)
  <2>3. /\ HasRoom(need)
        /\ fat' = g
        /\ content' = e
        /\ fd' = <<o>>
        /\ new_entry' = new_entry
    BY <1>3, <2>2 DEF fs_write, OnDirectory
  <2>4. IsChain(fat, s[1], s)
    <3>1. CASE Held(content, L, C, h)
      <4>1. s = C[h.loc] /\ h.loc \in L
        BY <3>1 DEF Held
      <4>2. IsChain(fat, Clus(content, h.loc), s)
        BY <1>1, <4>1 DEF Layout, Chained
      <4> QED BY <4>2 DEF IsChain
    <3>2. CASE Adrift(fat, L, C, h)
      BY <3>2 DEF Adrift
    <3> QED BY <2>1, <3>1, <3>2
  <2>5. buffer \in Seq(Data) \ {<<>>} /\ fat \in Tables /\ content \in Disks
    BY <1>1, <1>3 DEF Layout, Typed
  <2>6. WritesTo(h, buffer, s, t, g, d)
    BY <2>3, <2>4, <2>5, WriteTables
  <2>7. o \in FileRec => o.loc = h.loc
    BY DEF FileRec
  <2> HIDE DEF t, g, d, o, size
  <2>8. size = Max({h.pos + Len(buffer), h.size})
        /\ o = [h EXCEPT !.chain = t, !.pos = h.pos + Len(buffer), !.size = size]
    BY DEF size, o
  <2>9. CASE Held(content, L, C, h)
    <3>1. PICK D : Grew(L, C, D, g, e, h.loc, t, o)
      BY <1>1, <1>3, <2>1, <2>2, <2>5, <2>6, <2>8, <2>9, WritesHeld, Zenon
    <3> HIDE DEF e
    <3>2. /\ Layout(g, e, L, D)
          /\ o \in FileRec /\ Held(e, L, D, o)
          /\ h.loc \in L \ {NoLoc} /\ D[h.loc] = t
          /\ Deed(content, L, C, g, e, L, D, h.loc)
      BY <3>1 DEF Grew
    <3>3. Shown(e, L, D)
      BY <1>1, <3>2, StillShown
    <3>4. Claims(fat, g, e, L, D, {})
      <4> SUFFICES ASSUME NEW x \in Clusters, fat[x] = 0, g[x] # 0
                   PROVE  \E l \in Visible(e, L, D) : \E i \in 1 .. Len(D[l]) : D[l][i] = x
        BY DEF Claims
      <4>1. \E i \in 1 .. Len(t) : t[i] = x
        BY <2>6 DEF WritesTo, Longer
      <4>2. h.loc \in Visible(e, L, D)
        BY <3>2, <3>3 DEF Shown
      <4> QED BY <3>2, <4>1, <4>2
    <3>5. OpenLoc(fd') = h.loc /\ fd'[1].loc = h.loc /\ fd' # <<>>
      BY <2>3, <2>7, <3>2 DEF OpenLoc
    <3>6. Handled(fat', content', L, D, fd') /\ Shown(content', L, D)
      BY <2>3, <3>2, <3>3 DEF Handled
    <3> QED BY <2>3, <3>2, <3>4, <3>5, <3>6 DEF Goes, Takes
  <2>10. CASE Adrift(fat, L, C, h)
    <3>1. /\ Layout(g, e, L, C)
          /\ o \in FileRec /\ Adrift(g, L, C, o)
          /\ \A q : Deed(content, L, C, g, e, L, C, q)
      BY <1>1, <2>5, <2>6, <2>8, <2>10, WritesAdrift, Zenon
    <3>2. Takes(L, C)
      <4>1. EntryIsNowhere
        BY <1>3, <2>2, <2>10 DEF EntryIsNowhere, Adrift
      <4>2. fat' = fat => Claims(fat, fat', content', L, C, {})
        BY DEF Claims
      <4> QED BY <4>1, <4>2 DEF Takes
    <3> HIDE DEF e
    <3>3. Handled(fat', content', L, C, fd')
      BY <2>3, <3>1 DEF Handled
    <3>4. Shown(content', L, C)
      <4>1. Deed(content, L, C, g, e, L, C, NoLoc)
        BY <3>1
      <4>2. Shown(e, L, C)
        BY <1>1, <4>1, StillShown
      <4> QED BY <2>3, <4>2
    <3>5. Handled(fat', content', L, C, fd') /\ Shown(content', L, C)
      BY <3>3, <3>4
    <3> QED BY <2>3, <3>1, <3>2, <3>5 DEF Goes
  <2> QED BY <2>1, <2>9, <2>10
<1> QED BY <1>2, <1>3 DEF fs_write

LEMMA RootIsOpened ==
  ASSUME NEW L, NEW C, Layout(fat, content, L, C)
  PROVE  Root \in FileRec /\ Held(content, L, C, Root) /\ Root.loc = NoLoc
<1> DEFINE chain == resolve_chain(fat, RootClus)  e == [dir |-> TRUE, size |-> 0]
<1>1. NoLoc \in L
  BY DEF Layout, Typed
<1>2. chain = C[NoLoc] /\ chain \in Seq(Clusters)
  <2>1. fat \in Tables /\ IsChain(fat, RootClus, C[NoLoc])
    BY <1>1 DEF Layout, Typed, Chained, Clus
  <2>2. chain = C[NoLoc]
    BY <2>1, ChainIsResolved
  <2> QED BY <2>1, <2>2 DEF IsChain
<1>3. NoLoc \in Locs
  BY DEF NoLoc, Locs, EOC
<1>4. e.dir = TRUE /\ e.size = 0
  OBVIOUS
<1>5. Root = File(chain, e, NoLoc, {})
  BY DEF Root
<1> HIDE DEF e, chain
<1>6. e.dir \in BOOLEAN /\ e.size \in Nat
  <2>1. e.dir \in BOOLEAN
    BY <1>4
  <2>2. e.size \in Nat
    BY <1>4
  <2> QED BY <2>1, <2>2
<1>7. Root \in FileRec /\ Root.chain = chain /\ Root.dir = e.dir /\ Root.loc = NoLoc
  BY <1>2, <1>3, <1>5, <1>6, FileType
<1> QED BY <1>1, <1>2, <1>4, <1>7 DEF Held, IsDir

\* What is created is opened, at its start.
LEMMA OpensNew ==
  ASSUME NEW L, NEW C, Layout(fat, content, L, C), ~Fills,
         NEW path \in Paths, parse_path(path) # 0, Located(path) = NoLoc,
         create_entry(parse_path(path), Last(path), FALSE), NEW flags,
         fd' = <<File(resolve_chain(fat', Claimed), NewEntry(Last(path), FALSE, 0),
                      FreeSlot(parse_path(path)), flags)>>
  PROVE  LET loc == FreeSlot(parse_path(path))
             M == L \cup {loc}  D == With(L, C, loc, Claimed)
         IN  /\ loc # NoLoc /\ loc \in Visible(content', M, D)
             /\ \A h : Deed(content, L, C, fat', content', M, D, h)
             /\ Leads(content', M, D, path, Len(path), loc)
             /\ Claims(fat, fat', content', M, D, {})
             /\ Word(content', loc) = NewEntry(Last(path), FALSE, 0)
             /\ \E h \in FileRec : /\ fd' = <<h>> /\ Held(content', M, D, h)
                                  /\ h.loc = loc /\ ~h.dir /\ h.pos = 0
<1> DEFINE name == Last(path)
           loc == FreeSlot(parse_path(path))  e == NewEntry(name, FALSE, 0)
           h == File(resolve_chain(fat', Claimed), e, loc, flags)
           M == L \cup {loc}  D == With(L, C, loc, Claimed)
<1>1. /\ Layout(fat', content', M, D)
      /\ loc \in M \ {NoLoc} /\ D[loc] = <<Claimed>>
      /\ Word(content', loc) = e
      /\ resolve_chain(fat', Claimed) = <<Claimed>>
      /\ \A q : Deed(content, L, C, fat', content', M, D, q)
      /\ loc \in Visible(content', M, D)
      /\ Leads(content', M, D, path, Len(path), loc)
      /\ Claims(fat, fat', content', M, D, {})
  BY Makes
<1> HIDE DEF M, D
<1>2. /\ e.dir = FALSE /\ e.dir \in BOOLEAN
      /\ e.size = 0 /\ e.size \in Nat
  <2>1. e.dir = FALSE
    BY DEF NewEntry
  <2>2. e.size = 0
    BY DEF NewEntry
  <2> HIDE DEF e
  <2>3. e.dir \in BOOLEAN
    BY <2>1
  <2>4. e.size \in Nat
    BY <2>2
  <2> QED BY <2>1, <2>2, <2>3, <2>4
<1>3. D[loc] \in Seq(Clusters) /\ resolve_chain(fat', Claimed) = D[loc]
  BY <1>1 DEF Layout, Typed
<1>4. loc \in Clusters \X (1 .. Cells)
  BY <1>1, PlaceIsHeld
<1>5. loc \in Locs
  BY <1>4, Clusters1 DEF Locs, Clusters, EOC, RootClus
<1> HIDE DEF e, loc
<1>6. /\ h \in FileRec /\ h.chain = D[loc] /\ h.dir = FALSE /\ h.size = 0 /\ h.loc = loc
      /\ h.pos = IF "APPEND" \in flags /\ ~e.dir THEN e.size ELSE 0
  BY <1>2, <1>3, <1>5, FileType
<1>7. fd' = <<h>>
  BY DEF e, loc
<1> HIDE DEF h
<1>8. Held(content', M, D, h)
  BY <1>1, <1>2, <1>6 DEF Held, IsDir
<1> QED BY <1>1, <1>2, <1>6, <1>7, <1>8 DEF M, D, e, loc

\* fs_open.
LEMMA OpenGoes ==
  ASSUME NEW L, NEW C, Holds(L, C), new_entry \in BOOLEAN, ~Fills, ~TruncatesLong,
         NEW path \in Paths, NEW flags, fs_open(path, flags)
  PROVE  \E M, D : Goes(L, C, M, D)
<1>1. Layout(fat, content, L, C) /\ Handled(fat, content, L, C, fd) /\ Shown(content, L, C)
  BY DEF Holds
<1>2. fd = <<>>
  BY DEF fs_open
<1>3. CASE OpenRoot
  <2>1. fd' = <<Root>> /\ fat' = fat /\ content' = content /\ new_entry' = new_entry
    BY <1>3 DEF OpenRoot, disk
  <2>2. Root \in FileRec /\ Held(content, L, C, Root) /\ Root.loc = NoLoc
    BY <1>1, RootIsOpened
  <2>3. fd'[1] = Root
    BY <2>1
  <2>4. Handled(fat, content, L, C, fd')
    BY <2>1, <2>2 DEF Handled
  <2> QED BY <2>1, <2>4, SameDisk
<1>4. CASE OpenFails(path, flags)
  <2>1. fd' = fd /\ fat' = fat /\ content' = content /\ new_entry' = new_entry
    BY <1>4 DEF OpenFails, disk
  <2> QED BY <1>1, <2>1, SameDisk
<1>5. CASE OpenExisting(path, flags)
  <2>1. new_entry' = new_entry /\ Located(path) # NoLoc
    BY <1>5 DEF OpenExisting
  <2>2. /\ Handled(fat', content', L, C, fd')
        /\ fat' = fat /\ fd' # <<>> /\ fd'[1].loc = Located(path)
        /\ Located(path) \in L \ {NoLoc}
        /\ Deed(content, L, C, fat', content', L, C, Located(path))
    BY <1>1, <1>5, Opens
  <2>3. Shown(content', L, C)
    BY <1>1, <2>2, StillShown
  <2>4. Claims(fat, fat', content', L, C, {})
    BY <2>2 DEF Claims
  <2>5. OpenLoc(fd') = Located(path)
    BY <2>2 DEF OpenLoc
  <2> QED BY <2>1, <2>2, <2>3, <2>4, <2>5 DEF Goes, Takes
<1>6. CASE OpenCreates(path, flags)
  <2> DEFINE clus == parse_path(path)  name == Last(path)
  <2>1. clus # 0 /\ Located(path) = NoLoc
    BY <1>6 DEF OpenCreates
  <2>2. ASSUME create_entry(clus, name, FALSE),
               fd' = <<File(resolve_chain(fat', Claimed), NewEntry(name, FALSE, 0),
                            FreeSlot(clus), flags)>>
        PROVE  \E M, D : Goes(L, C, M, D)
    <3> DEFINE loc == FreeSlot(clus)  M == L \cup {loc}  D == With(L, C, loc, Claimed)
    <3>1. /\ loc # NoLoc /\ loc \in Visible(content', M, D)
          /\ \A q : Deed(content, L, C, fat', content', M, D, q)
          /\ Claims(fat, fat', content', M, D, {})
          /\ \E h \in FileRec : /\ fd' = <<h>> /\ Held(content', M, D, h)
                               /\ h.loc = loc /\ ~h.dir /\ h.pos = 0
      BY <1>1, <2>1, <2>2, OpensNew
    <3>2. new_entry' = TRUE
      BY <2>2 DEF create_entry
    <3> HIDE DEF loc, D
    <3>3. Shown(content', M, D)
      <4>1. M \ L \subseteq Visible(content', M, D)
        BY <3>1
      <4>2. Deed(content, L, C, fat', content', M, D, NoLoc)
        BY <3>1
      <4> HIDE DEF M
      <4> QED BY <1>1, <4>1, <4>2, StillShown
    <3>4. Handled(fat', content', M, D, fd')
      BY <3>1 DEF Handled
    <3> QED BY <3>1, <3>2, <3>3, <3>4 DEF Goes, Takes
  <2>3. ASSUME CreateRefused(clus, FALSE), fd' = fd
        PROVE  \E M, D : Goes(L, C, M, D)
    <3>1. \A q : Deed(content, L, C, fat', content', L, C, q)
      BY <1>1, <2>3, Refuses
    <3>2. new_entry' = new_entry /\ FreeSlot(clus) = NoLoc
      BY <2>3 DEF CreateRefused
    <3>3. Takes(L, C)
      BY <1>1, <2>1, <2>3, RefusedInVain
    <3>4. Shown(content', L, C)
      BY <1>1, <3>1, StillShown
    <3> QED BY <1>2, <2>3, <3>1, <3>2, <3>3, <3>4 DEF Goes, Handled
  <2>4. ASSUME CreateLost(clus, FALSE),
               fd' = <<File(<<Claimed>>, NewEntry(name, FALSE, 1), <<EOC, 1>>, flags)>>
        PROVE  \E M, D : Goes(L, C, M, D)
    <3> DEFINE e == NewEntry(name, FALSE, 1)  x == Claimed
               h == File(<<x>>, e, <<EOC, 1>>, flags)
    <3>1. PICK dir \in L : IsDir(content, dir) /\ clus = Clus(content, dir)
      BY <1>1, <2>1, PathLeads
    <3>lost. PICK D : Lost(L, C, dir, D)
      BY <1>1, <2>4, <3>1, Loses
    <3>2. /\ Layout(fat', content', L, D)
           /\ x \in Clusters /\ Loose(x, L, D) /\ fat'[x] = EOC
           /\ \A q : Deed(content, L, C, fat', content', L, D, q)
      BY <3>lost DEF Lost
    <3>3. /\ e.dir = FALSE /\ e.dir \in BOOLEAN
          /\ e.size = 1 /\ e.size \in Nat
      <4>1. e.dir = FALSE
        BY DEF NewEntry
      <4>2. e.size = 1
        BY DEF NewEntry
      <4> HIDE DEF e
      <4>3. e.dir \in BOOLEAN
        BY <4>1
      <4>4. e.size \in Nat
        BY <4>2
      <4> QED BY <4>1, <4>2, <4>3, <4>4
    <3>4. <<EOC, 1>> \in Locs
      BY Clusters1 DEF Locs, EOC
    <3>5. fd' = <<h>>
      BY <2>4
    <3> HIDE DEF e, x
    <3>6. <<x>> \in Seq(Clusters)
      BY <3>2
    <3>7. h \in FileRec /\ h.chain = <<x>> /\ h.dir = FALSE /\ h.loc = <<EOC, 1>>
      <4>1. h \in FileRec /\ h.chain = <<x>> /\ h.dir = e.dir /\ h.loc = <<EOC, 1>>
        <5> DEFINE chain == <<x>>  loc == <<EOC, 1>>
        <5>1. chain \in Seq(Clusters) /\ loc \in Locs
          BY <3>4, <3>6
        <5> HIDE DEF chain, loc
        <5>2. LET f == File(chain, e, loc, flags)
              IN  f \in FileRec /\ f.chain = chain /\ f.dir = e.dir /\ f.loc = loc
          BY <3>3, <5>1, FileType
        <5> QED BY <5>2 DEF chain, loc
      <4> HIDE DEF h
      <4> QED BY <3>3, <4>1
    <3> HIDE DEF h
    <3>8. IsChain(fat', x, <<x>>)
      BY <3>2 DEF IsChain, IsInjective
    <3>9. Adrift(fat', L, D, h)
      BY <3>2, <3>7, <3>8 DEF Adrift
    <3>10. Handled(fat', content', L, D, fd') /\ Shown(content', L, D)
      BY <1>1, <3>2, <3>5, <3>7, <3>9, StillShown DEF Handled
    <3>11. new_entry' = TRUE /\ FreeSlot(clus) = NoLoc
      BY <2>4 DEF CreateLost
    <3>12. Takes(L, D)
      BY <1>1, <2>1, <2>4, <3>1, <3>lost, <3>10, LostInVain
    <3> QED BY <3>2, <3>10, <3>11, <3>12 DEF Goes
  <2> QED BY <1>6, <2>2, <2>3, <2>4 DEF OpenCreates, Opened
<1> QED BY <1>3, <1>4, <1>5, <1>6 DEF fs_open

\* fs_mkdir.
LEMMA MakeGoes ==
  ASSUME NEW L, NEW C, Holds(L, C), new_entry \in BOOLEAN, ~Fills,
         NEW path \in Paths, fs_mkdir(path)
  PROVE  \E M, D : Goes(L, C, M, D)
<1>1. Layout(fat, content, L, C) /\ Handled(fat, content, L, C, fd) /\ Shown(content, L, C)
  BY DEF Holds
<1>2. fd = <<>>
  BY DEF fs_mkdir
<1> DEFINE clus == parse_path(path)  name == Last(path)
<1>3. CASE fat' = fat /\ content' = content /\ new_entry' = new_entry /\ fd' = fd
  BY <1>1, <1>3, SameDisk
<1>4. CASE /\ clus # 0 /\ Located(path) = NoLoc
           /\ fd' = fd /\ create_entry(clus, name, TRUE)
  <2> DEFINE loc == FreeSlot(clus)  M == L \cup {loc}  D == With(L, C, loc, Claimed)
  <2>1. /\ \A q : Deed(content, L, C, fat', content', M, D, q)
        /\ Claims(fat, fat', content', M, D, {})
        /\ loc \in Visible(content', M, D)
    BY <1>1, <1>4, Makes
  <2> HIDE DEF D, loc
  <2>2. new_entry' = TRUE
    BY <1>4 DEF create_entry
  <2>3. M \ L \subseteq Visible(content', M, D)
    BY <2>1
  <2>4. Shown(content', M, D)
    BY <1>1, <2>1, <2>3, StillShown
  <2> QED BY <1>2, <1>4, <2>1, <2>2, <2>4 DEF Goes, Takes, Handled
<1>5. CASE /\ clus # 0 /\ Located(path) = NoLoc
           /\ fd' = fd /\ CreateLost(clus, TRUE)
  <2>1. PICK dir \in L : IsDir(content, dir) /\ clus = Clus(content, dir)
    BY <1>1, <1>5, PathLeads
  <2>2. PICK D : Lost(L, C, dir, D)
    BY <1>1, <1>5, <2>1, Loses
  <2>3. new_entry' = TRUE /\ FreeSlot(clus) = NoLoc
    BY <1>5 DEF CreateLost
  <2>4. Shown(content', L, D)
    BY <1>1, <2>2, StillShown DEF Lost
  <2>5. Takes(L, D)
    BY <1>1, <1>5, <2>1, <2>2, <2>4, LostInVain
  <2> QED BY <1>2, <1>5, <2>2, <2>3, <2>4, <2>5 DEF Goes, Handled, Lost
<1>6. CASE /\ clus # 0 /\ Located(path) = NoLoc
           /\ fd' = fd /\ CreateRefused(clus, TRUE)
  <2>1. \A q : Deed(content, L, C, fat', content', L, C, q)
    BY <1>1, <1>6, Refuses
  <2>2. new_entry' = new_entry /\ FreeSlot(clus) = NoLoc
    BY <1>6 DEF CreateRefused
  <2>3. Takes(L, C)
    BY <1>1, <1>6, RefusedInVain
  <2>4. Shown(content', L, C)
    BY <1>1, <2>1, StillShown
  <2> QED BY <1>2, <1>6, <2>1, <2>2, <2>3, <2>4 DEF Goes, Handled
<1> QED BY <1>3, <1>4, <1>5, <1>6 DEF fs_mkdir, Fails, disk

\* fs_remove and fs_rmdir.
LEMMA RemoveGoes ==
  ASSUME NEW L, NEW C, Holds(L, C), new_entry \in BOOLEAN,
         NEW path \in Paths, fs_remove(path) \/ fs_rmdir(path)
  PROVE  \E M, D : Goes(L, C, M, D)
<1>1. Layout(fat, content, L, C) /\ Handled(fat, content, L, C, fd) /\ Shown(content, L, C)
  BY DEF Holds
<1>2. fd = <<>>
  BY DEF fs_remove, fs_rmdir
<1> DEFINE loc == Located(path)
<1>3. CASE fat' = fat /\ content' = content /\ new_entry' = new_entry /\ fd' = fd
  BY <1>1, <1>3, SameDisk
<1>4. CASE loc # NoLoc /\ (At(loc).dir => is_dir_empty(At(loc).clus)) /\ Erase(loc)
  <2>1. loc \in L \ {NoLoc}
    BY <1>1, <1>4, LocatedInLayout
  <2> HIDE DEF loc
  <2> DEFINE M == L \ {loc}  D == Without(L, C, loc)
  <2>2. /\ \A x \in Clusters : fat[x] = 0 => fat'[x] = 0
        /\ \A q : Deed(content, L, C, fat', content', M, D, q)
    BY <1>1, <1>4, <2>1, Erases
  <2> HIDE DEF D
  <2>3. fd' = fd /\ new_entry' = new_entry
    BY <1>4 DEF Erase
  <2>4. Claims(fat, fat', content', M, D, {})
    BY <2>2 DEF Claims
  <2>5. Shown(content', M, D)
    <3>1. Deed(content, L, C, fat', content', M, D, NoLoc)
      BY <2>2
    <3>2. M \ L \subseteq Visible(content', M, D)
      OBVIOUS
    <3> HIDE DEF M
    <3> QED BY <1>1, <3>1, <3>2, StillShown
  <2> QED BY <1>2, <2>2, <2>3, <2>4, <2>5 DEF Goes, Takes, Handled
<1>5. CASE fs_remove(path)
  BY <1>3, <1>4, <1>5 DEF fs_remove, Fails, disk
<1>6. CASE fs_rmdir(path)
  BY <1>3, <1>4, <1>6 DEF fs_rmdir, Fails, disk
<1> QED BY <1>5, <1>6

\* The other calls.
LEMMA OthersGo ==
  ASSUME NEW L, NEW C, Holds(L, C), new_entry \in BOOLEAN,
         \/ \E path \in Paths : fs_stat(path)
         \/ \E cnt \in Counts : fs_read(cnt)
         \/ fs_readdir \/ fs_close \/ fs_init \/ UNCHANGED vars
  PROVE  Goes(L, C, L, C)
<1>1. Layout(fat, content, L, C) /\ Handled(fat, content, L, C, fd) /\ Shown(content, L, C)
  BY DEF Holds
<1> DEFINE Rest == fat' = fat /\ content' = content
<1>2. ASSUME Rest, fd' = fd \/ fd' = <<>>, new_entry' \in BOOLEAN
      PROVE  Goes(L, C, L, C)
  <2>1. Handled(fat, content, L, C, fd')
    BY <1>1, <1>2 DEF Handled
  <2> QED BY <1>2, <2>1, SameDisk
<1>3. ASSUME Rest, Handled(fat, content, L, C, fd'), new_entry' = new_entry
      PROVE  Goes(L, C, L, C)
  BY <1>3, SameDisk
<1>4. ASSUME NEW path \in Paths, fs_stat(path)
      PROVE  Goes(L, C, L, C)
  <2>1. Rest /\ fd' = fd /\ new_entry' = new_entry
    BY <1>4 DEF fs_stat, disk
  <2> QED BY <1>2, <2>1
<1>5. ASSUME NEW cnt \in Counts, fs_read(cnt)
      PROVE  Goes(L, C, L, C)
  BY <1>1, <1>3, <1>5, Reads
<1>6. CASE fs_readdir
  BY <1>1, <1>3, <1>6, Lists
<1>7. CASE fs_close
  <2>1. Rest /\ fd' = <<>> /\ new_entry' = new_entry
    BY <1>7 DEF fs_close, disk
  <2> QED BY <1>2, <2>1
<1>8. CASE fs_init
  <2>1. Rest /\ fd' = <<>> /\ new_entry' = FALSE
    BY <1>8 DEF fs_init, disk
  <2> QED BY <1>2, <2>1
<1>9. CASE UNCHANGED vars
  <2>1. Rest /\ fd' = fd /\ new_entry' = new_entry
    BY <1>9 DEF vars
  <2> QED BY <1>2, <2>1
<1> QED BY <1>4, <1>5, <1>6, <1>7, <1>8, <1>9

LEMMA NextGoes ==
  ASSUME ~Fills, ~TruncatesLong, NEW L, NEW C, Holds(L, C), new_entry \in BOOLEAN, [Next]_vars
  PROVE  \E M, D : Goes(L, C, M, D)
<1>1. ASSUME NEW path \in Paths, NEW flags \in Flags, fs_open(path, flags)
      PROVE  \E M, D : Goes(L, C, M, D)
  BY <1>1, OpenGoes
<1>2. ASSUME NEW path \in Paths, fs_mkdir(path)
      PROVE  \E M, D : Goes(L, C, M, D)
  BY <1>2, MakeGoes
<1>3. ASSUME NEW path \in Paths, fs_remove(path) \/ fs_rmdir(path)
      PROVE  \E M, D : Goes(L, C, M, D)
  BY <1>3, RemoveGoes
<1>4. ASSUME NEW buffer \in Buffers, NEW word \in Beyond, fs_write(buffer, word)
      PROVE  \E M, D : Goes(L, C, M, D)
  BY <1>4, WriteGoes
<1>5. CASE \/ \E path \in Paths : fs_stat(path)
           \/ \E cnt \in Counts : fs_read(cnt)
           \/ fs_readdir \/ fs_close \/ fs_init \/ UNCHANGED vars
  BY <1>5, OthersGo
<1> QED BY <1>1, <1>2, <1>3, <1>4, <1>5 DEF Next

LEMMA NextKeeps ==
  ASSUME ~Fills, ~TruncatesLong, Inv, [Next]_vars
  PROVE  Inv'
<1>1. PICK L, C : Holds(L, C)
  BY DEF Inv, Kept
<1>2. PICK M, D : Goes(L, C, M, D)
  BY <1>1, NextGoes DEF Inv
<1> QED BY <1>2 DEF Goes, Deed, Inv, Kept, Holds

LEMMA Invariance ==
  ASSUME ~Fills, ~TruncatesLong
  PROVE  Spec => []Inv
<1>1. Init => Inv
  BY InitKeeps
<1>2. Inv /\ [Next]_vars => Inv'
  BY NextKeeps
<1> QED BY <1>1, <1>2, PTL DEF Spec

------------------------------------------------------------------------------
(* What the invariant says *)

\* What is reachable is in L.
LEMMA ReachableInLayout ==
  ASSUME NEW L, NEW C, Layout(fat, content, L, C), NEW loc \in Reachable
  PROVE  /\ loc \in L \ {NoLoc}
         /\ ChainOf(loc) = C[loc] /\ Owned(loc) = ToSet(C[loc])
         /\ At(loc) = Word(content, loc) /\ At(loc).size \in Nat
         /\ IsChain(fat, At(loc).clus, C[loc])
<1>1. loc \in L \ {NoLoc}
  BY LocatedInLayout DEF Reachable
<1>2. /\ At(loc) = Word(content, loc) /\ At(loc) \in Entries /\ At(loc).clus = Clus(content, loc)
      /\ resolve_chain(fat, At(loc).clus) = C[loc]
  BY <1>1, EntryHere
<1>3. IsChain(fat, At(loc).clus, C[loc])
  BY <1>1, <1>2 DEF Layout, Chained
<1> QED BY <1>1, <1>2, <1>3, EntryType DEF ChainOf, Owned

LEMMA InvType == Inv => TypeOK
<1> SUFFICES ASSUME Inv
             PROVE  TypeOK
  OBVIOUS
<1>1. PICK L, C : Layout(fat, content, L, C) /\ Handled(fat, content, L, C, fd)
  BY DEF Inv, Kept, Holds
<1>2. fat \in Tables /\ new_entry \in BOOLEAN
  BY <1>1 DEF Inv, Layout, Typed
<1>3. ASSUME NEW c \in Clusters, NEW i \in 1 .. Cells, IsEntry(content[c][i])
      PROVE  content[c][i] \in Entries
  <2>1. content[c][i] \in Cell
    BY <1>1 DEF Layout, Typed, Disks
  <2> QED BY <1>3, <2>1, CellIsEntry
<1>4. ASSUME fd # <<>>
      PROVE  /\ fd[1].chain \in Seq(Clusters)
             /\ fd[1].size \in Nat /\ fd[1].pos \in Nat
             /\ fd[1].loc[1] \in Clusters \cup {0, EOC}
  <2>1. PICK h \in FileRec : fd = <<h>> /\ (Held(content, L, C, h) \/ Adrift(fat, L, C, h))
    BY <1>1, <1>4 DEF Handled
  <2>2. fd[1] = h
    BY <2>1
  <2>3. h.loc[1] \in Clusters \cup {0, EOC}
    <3>1. CASE h.loc \in L \ {NoLoc}
      <4>1. h.loc \in Clusters \X (1 .. Cells)
        BY <1>1, <3>1, PlaceIsHeld
      <4> QED BY <4>1
    <3>2. CASE h.loc = NoLoc
      BY <3>2 DEF NoLoc
    <3>3. CASE h.loc = <<EOC, 1>>
      BY <3>3
    <3> QED BY <2>1, <3>1, <3>2, <3>3 DEF Held, Adrift
  <2> QED BY <2>2, <2>3 DEF FileRec
<1> QED BY <1>2, <1>3, <1>4 DEF TypeOK

LEMMA InvOneOwner == Inv => OneOwner
<1> SUFFICES ASSUME Inv
             PROVE  OneOwner
  OBVIOUS
<1>1. PICK L, C : Layout(fat, content, L, C)
  BY DEF Inv, Kept, Holds
<1> DEFINE root == resolve_chain(fat, RootClus)
<1>2. NoLoc \in L /\ root = C[NoLoc]
  <2>1. NoLoc \in L /\ fat \in Tables
    BY <1>1 DEF Layout, Typed
  <2>2. IsChain(fat, RootClus, C[NoLoc])
    BY <1>1, <2>1 DEF Layout, Chained, Clus
  <2> QED BY <2>1, <2>2, ChainIsResolved
<1> HIDE DEF root
\* Two chains of L have no cluster in common.
<1>3. ASSUME NEW l \in L, NEW m \in L, l # m
      PROVE  ToSet(C[l]) \cap ToSet(C[m]) = {}
  <2>1. DOMAIN C[l] = 1 .. Len(C[l]) /\ DOMAIN C[m] = 1 .. Len(C[m])
    BY <1>1, ChainFacts
  <2> QED BY <1>1, <1>3, <2>1 DEF Layout, Apart, ToSet
<1>4. ASSUME NEW loc \in Reachable
      PROVE  /\ IsInjective(ChainOf(loc))
             /\ ChainOf(loc) # <<>> /\ fat[Last(ChainOf(loc))] = EOC
             /\ Owned(loc) \cap ToSet(root) = {}
             /\ At(loc).size <= Cells * Len(ChainOf(loc))
  <2>1. /\ loc \in L \ {NoLoc}
        /\ ChainOf(loc) = C[loc] /\ Owned(loc) = ToSet(C[loc])
        /\ At(loc) = Word(content, loc) /\ At(loc).size \in Nat
        /\ IsChain(fat, At(loc).clus, C[loc])
    BY <1>1, ReachableInLayout
  <2>2. IsInjective(C[loc]) /\ C[loc] # <<>> /\ fat[Last(C[loc])] = EOC
    BY <2>1 DEF IsChain, Last
  <2>3. Owned(loc) \cap ToSet(root) = {}
    BY <1>2, <1>3, <2>1
  <2>4. At(loc).size <= Cells * Len(C[loc])
    <3>1. At(loc).size <= Len(C[loc]) * Cells
      BY <1>1, <2>1 DEF Layout, Sized
    <3>2. Len(C[loc]) \in Nat
      BY <1>1, <2>1, ChainFacts
    <3> QED BY <3>1, <3>2
  <2> QED BY <2>1, <2>2, <2>3, <2>4
<1>5. ASSUME NEW loc \in Reachable, NEW other \in Reachable, loc # other
      PROVE  Owned(loc) \cap Owned(other) = {}
  <2>1. /\ loc \in L /\ Owned(loc) = ToSet(C[loc])
        /\ other \in L /\ Owned(other) = ToSet(C[other])
    BY <1>1, ReachableInLayout
  <2> QED BY <1>3, <1>5, <2>1
<1> QED BY <1>4, <1>5 DEF OneOwner, root

LEMMA InvHandle == Inv => HandleMatchesDisk
<1> SUFFICES ASSUME Inv, fd # <<>>, fd[1].loc[1] \in Clusters
             PROVE  /\ IsEntry(At(fd[1].loc))
                    /\ fd[1].chain = ChainOf(fd[1].loc)
                    /\ fd[1].size = At(fd[1].loc).size
  BY DEF HandleMatchesDisk
<1>1. PICK L, C : Layout(fat, content, L, C) /\ Handled(fat, content, L, C, fd)
  BY DEF Inv, Kept, Holds
<1>2. PICK h \in FileRec : fd = <<h>> /\ (Held(content, L, C, h) \/ Adrift(fat, L, C, h))
  BY <1>1 DEF Handled
<1>3. fd[1] = h /\ h.loc[1] \in Clusters
  BY <1>2
<1>4. ~Adrift(fat, L, C, h) /\ h.loc # NoLoc
  BY <1>3, Clusters1 DEF Adrift, NoLoc
<1>5. h.loc \in L \ {NoLoc} /\ h.chain = C[h.loc] /\ h.size = Word(content, h.loc).size
  BY <1>2, <1>4 DEF Held
<1>6. /\ At(h.loc) = Word(content, h.loc) /\ At(h.loc) \in Entries
      /\ resolve_chain(fat, At(h.loc).clus) = C[h.loc]
  BY <1>1, <1>5, EntryHere
<1> QED BY <1>3, <1>5, <1>6, EntryType DEF ChainOf

------------------------------------------------------------------------------
(* What a step does to what the paths lead to *)

\* What the paths lead to, in terms of any layout of the disk.  As a statement
\* about one state it holds after a step too.
NodeOf(c, C, loc) ==
  LET e == Word(c, loc)
  IN  [dir |-> e.dir,
       data |-> IF e.dir THEN <<>>
                ELSE [k \in 1 .. Min({e.size, Len(C[loc]) * Cells}) |-> Word(c, Slot(C[loc], k))]]
TreeToldBy(L, C) ==
  /\ \A p \in DOMAIN Tree :
       /\ p \in Paths \ {<<>>} /\ Located(p) \in L \ {NoLoc}
       /\ Leads(content, L, C, p, Len(p), Located(p))
       /\ Tree[p] = NodeOf(content, C, Located(p))
  /\ \A p \in Paths \ {<<>>}, loc \in L :
       Leads(content, L, C, p, Len(p), loc) => loc # NoLoc /\ Located(p) = loc
LeaksToldBy(L, C) ==
  \A x : x \in Leaked <=>
    x \in Clusters /\ fat[x] # 0 /\ Loose(x, Visible(content, L, C) \cup {NoLoc}, C)
Told ==
  \A L, C : Layout(fat, content, L, C) => TreeToldBy(L, C) /\ LeaksToldBy(L, C)

LEMMA NodeIs ==
  ASSUME NEW L, NEW C, Layout(fat, content, L, C), NEW loc \in L \ {NoLoc}
  PROVE  Node[loc] = NodeOf(content, C, loc)
<1> DEFINE e == At(loc)  s == C[loc]  n == Len(s) * Cells
           slots == IF e.dir THEN <<>> ELSE Slots(fat, e.clus)
<1>1. /\ e = Word(content, loc) /\ e \in Entries
      /\ resolve_chain(fat, e.clus) = s /\ loc \in Locs
  BY EntryHere
<1>2. s \in Seq(Clusters) /\ n \in Nat
  BY ChainFacts
<1>3. Node[loc] = [dir |-> e.dir,
                   data |-> [k \in 1 .. Min({e.size, Len(slots)}) |-> At(slots[k])]]
  BY <1>1 DEF Node
<1>4. e.size \in Nat /\ e.dir \in BOOLEAN
  BY <1>1, EntryType
<1>5. CASE e.dir
  <2>1. Len(slots) = 0
    BY <1>5
  <2>2. Min({e.size, 0}) = 0
    <3>1. {e.size, 0} \subseteq Nat
      BY <1>4
    <3>2. Min({e.size, 0}) \in {e.size, 0} /\ Min({e.size, 0}) <= 0
      BY <3>1, LeastIs
    <3> QED BY <1>4, <3>2
  <2> HIDE DEF e, slots
  <2>3. [k \in 1 .. Min({e.size, Len(slots)}) |-> At(slots[k])] = <<>>
    <3> DEFINE S == 1 .. Min({e.size, Len(slots)})  g == [k \in S |-> At(slots[k])]
    <3>1. S = {}
      BY <2>1, <2>2
    <3> HIDE DEF S
    <3>2. DOMAIN g = {}
      BY <3>1
    <3>3. g = [k \in {} |-> At(slots[k])]
      BY <3>1
    <3>4. g = <<>>
      BY <3>3
    <3> QED BY <3>4 DEF S
  <2> QED BY <1>1, <1>3, <1>5, <2>3 DEF NodeOf
<1>6. CASE ~e.dir
  <2>1. slots = SlotsOf[s]
    BY <1>1, <1>6 DEF Slots
  <2>2. /\ slots \in Seq(Locs) /\ DOMAIN slots = 1 .. n
        /\ \A k \in 1 .. n : slots[k] = Slot(s, k)
    BY <1>2, <2>1, SlotsOfChain DEF Places
  <2> HIDE DEF slots
  <2>3. Len(slots) = n
    <3> HIDE DEF n
    <3> QED BY <1>2, <2>2
  <2> DEFINE m == Min({e.size, n})
  <2>4. 1 .. m \subseteq 1 .. n
    <3>1. {e.size, n} \subseteq Nat
      BY <1>2, <1>4
    <3>2. m \in {e.size, n} /\ m <= n
      BY <3>1, LeastIs
    <3> HIDE DEF m, n, e
    <3> QED BY <1>2, <1>4, <3>2
  <2>5. \A k \in 1 .. m : At(slots[k]) = Word(content, Slot(s, k))
    BY <2>2, <2>4 DEF At, Word
  <2> HIDE DEF m
  <2>6. [k \in 1 .. m |-> At(slots[k])] = [k \in 1 .. m |-> Word(content, Slot(s, k))]
    BY <2>5
  <2> QED BY <1>1, <1>3, <1>6, <2>3, <2>6 DEF NodeOf, m
<1> QED BY <1>5, <1>6

LEMMA ToldNow == Told
<1> SUFFICES ASSUME NEW L, NEW C, Layout(fat, content, L, C)
             PROVE  TreeToldBy(L, C) /\ LeaksToldBy(L, C)
  BY DEF Told
<1>1. ASSUME NEW p \in DOMAIN Tree
      PROVE  /\ p \in Paths \ {<<>>} /\ Located(p) \in L \ {NoLoc}
             /\ Leads(content, L, C, p, Len(p), Located(p))
             /\ Tree[p] = NodeOf(content, C, Located(p))
  <2>1. p \in Paths \ {<<>>} /\ Located(p) # NoLoc /\ Tree[p] = Node[Located(p)]
    BY DEF Tree
  <2>2. Located(p) \in L \ {NoLoc} /\ Leads(content, L, C, p, Len(p), Located(p))
    BY <2>1, LocatedInLayout
  <2> QED BY <2>1, <2>2, NodeIs
<1>2. ASSUME NEW p \in Paths \ {<<>>}, NEW loc \in L, Leads(content, L, C, p, Len(p), loc)
      PROVE  loc # NoLoc /\ Located(p) = loc
  BY <1>2, LocatedInLayout
<1>3. Reachable = Visible(content, L, C)
  <2>1. ASSUME NEW loc \in Reachable
        PROVE  loc \in Visible(content, L, C)
    <3>1. PICK p \in Paths \ {<<>>} : loc = Located(p) /\ loc # NoLoc
      BY DEF Reachable
    <3> QED BY <3>1, LocatedInLayout DEF Visible
  <2>2. ASSUME NEW loc \in Visible(content, L, C)
        PROVE  loc \in Reachable
    <3>1. PICK p \in Paths \ {<<>>} : Leads(content, L, C, p, Len(p), loc)
      BY DEF Visible
    <3>2. loc # NoLoc /\ Located(p) = loc
      BY <1>2, <3>1 DEF Visible
    <3> QED BY <3>2 DEF Reachable
  <2> QED BY <2>1, <2>2
<1>4. resolve_chain(fat, RootClus) = C[NoLoc] /\ NoLoc \in L
  <2>1. NoLoc \in L /\ fat \in Tables
    BY DEF Layout, Typed
  <2>2. IsChain(fat, RootClus, C[NoLoc])
    BY <2>1 DEF Layout, Chained, Clus
  <2> QED BY <2>1, <2>2, ChainIsResolved
<1>5. \A loc \in Visible(content, L, C) : Owned(loc) = ToSet(C[loc])
  BY <1>3, ReachableInLayout
<1>6. ASSUME NEW loc \in L, NEW x
      PROVE  x \in ToSet(C[loc]) <=> \E i \in 1 .. Len(C[loc]) : C[loc][i] = x
  <2>1. DOMAIN C[loc] = 1 .. Len(C[loc])
    BY ChainFacts
  <2> QED BY <2>1 DEF ToSet
<1>7. Visible(content, L, C) \subseteq L
  BY DEF Visible
<1>8. ASSUME NEW x
      PROVE  x \in Leaked <=> /\ x \in Clusters /\ fat[x] # 0
                              /\ Loose(x, Visible(content, L, C) \cup {NoLoc}, C)
  <2>1. x \in Leaked <=> /\ x \in Clusters /\ fat[x] # 0
                         /\ x \notin ToSet(C[NoLoc])
                         /\ \A loc \in Visible(content, L, C) : x \notin ToSet(C[loc])
    BY <1>3, <1>4, <1>5 DEF Leaked
  <2>2. ASSUME NEW loc \in L
        PROVE  x \notin ToSet(C[loc]) <=> \A i \in 1 .. Len(C[loc]) : C[loc][i] # x
    BY <1>6
  <2>3. Loose(x, Visible(content, L, C) \cup {NoLoc}, C) <=>
          /\ x \notin ToSet(C[NoLoc])
          /\ \A loc \in Visible(content, L, C) : x \notin ToSet(C[loc])
    BY <1>4, <1>7, <2>2 DEF Loose
  <2> QED BY <2>1, <2>3
<1> QED BY <1>1, <1>2, <1>8 DEF TreeToldBy, LeaksToldBy

LEMMA ToldNext == Told'
BY ToldNow, PTL

LEMMA OnlyTheseLeak ==
  ASSUME NEW L, NEW C, Holds(L, C), NEW M, NEW D, Goes(L, C, M, D),
         NEW lost, Claims(fat, fat', content', M, D, lost)
  PROVE  Leaked' \subseteq Leaked \cup lost
<1>1. /\ Layout(fat, content, L, C) /\ Layout(fat', content', M, D)
      /\ Deed(content, L, C, fat', content', M, D, OpenLoc(fd'))
  BY DEF Holds, Goes, Deed
<1> DEFINE V == Visible(content, L, C)  W == Visible(content', M, D)
<1>2. \A x : x \in Leaked <=> x \in Clusters /\ fat[x] # 0 /\ Loose(x, V \cup {NoLoc}, C)
  BY <1>1, ToldNow DEF Told, LeaksToldBy
<1>3. \A x : x \in Leaked' <=> x \in Clusters /\ fat'[x] # 0 /\ Loose(x, W \cup {NoLoc}, D)
  BY <1>1, ToldNext DEF Told, LeaksToldBy
<1>4. V \subseteq L /\ W \subseteq M /\ NoLoc \in L /\ NoLoc \in M
  BY <1>1 DEF Visible, Layout, Typed
<1>5. \A loc \in V : loc \in M => loc \in W
  BY <1>1, StaysVisible
<1> SUFFICES ASSUME NEW x \in Leaked', x \notin lost
             PROVE  x \in Leaked
  OBVIOUS
<1>6. x \in Clusters /\ fat'[x] # 0 /\ Loose(x, W \cup {NoLoc}, D)
  BY <1>3
<1>7. fat[x] # 0
  BY <1>1, <1>6 DEF Claims, Loose
<1> HIDE DEF V, W
<1>8. ASSUME NEW loc \in V \cup {NoLoc}, NEW i \in 1 .. Len(C[loc])
      PROVE  C[loc][i] # x
  <2>1. CASE loc \in M
    <3>1. loc \in W \cup {NoLoc}
      BY <1>5, <2>1
    <3>2. Extends(C[loc], D[loc])
      BY <1>1, <1>4, <2>1 DEF Deed
    <3>3. i \in 1 .. Len(D[loc]) /\ D[loc][i] = C[loc][i]
      BY <3>2 DEF Extends
    <3> QED BY <1>6, <3>1, <3>3 DEF Loose
  <2>2. CASE loc \notin M
    <3>1. fat'[C[loc][i]] = 0
      BY <1>1, <1>4, <2>2 DEF Deed
    <3> QED BY <1>6, <3>1
  <2> QED BY <2>1, <2>2
<1> QED BY <1>2, <1>6, <1>7, <1>8 DEF Loose

LEMMA SameNode ==
  ASSUME NEW c, NEW C, NEW d, NEW D, NEW loc, loc # NoLoc,
         Spares(c, C, d, D, loc), Len(C[loc]) \in Nat, Word(c, loc) \in Entries
  PROVE  NodeOf(d, D, loc) = NodeOf(c, C, loc)
<1> DEFINE e == Word(c, loc)  s == C[loc]  n == Len(s) * Cells  m == Min({e.size, n})
<1>1. Word(d, loc) = e
  BY DEF Spares
<1>2. CASE e.dir
  BY <1>1, <1>2 DEF NodeOf
<1>3. CASE ~e.dir
  <2>1. ~IsDir(c, loc)
    BY <1>3 DEF IsDir
  <2>2. D[loc] = s /\ \A k \in Places(s) : Word(d, Slot(s, k)) = Word(c, Slot(s, k))
    BY <2>1 DEF Spares
  <2>3. 1 .. m \subseteq Places(s)
    <3>1. e.size \in Nat /\ n \in Nat
      BY EntryType
    <3>2. {e.size, n} \subseteq Nat
      BY <3>1
    <3>3. m \in {e.size, n} /\ m <= n
      BY <3>2, LeastIs
    <3> HIDE DEF m, e
    <3>4. 1 .. m \subseteq 1 .. n
      <4> HIDE DEF n
      <4> QED BY <3>1, <3>3
    <3> QED BY <3>4 DEF Places
  <2>4. [k \in 1 .. m |-> Word(d, Slot(s, k))] = [k \in 1 .. m |-> Word(c, Slot(s, k))]
    <3> HIDE DEF m
    <3> QED BY <2>2, <2>3
  <2> QED BY <1>1, <1>3, <2>2, <2>4 DEF NodeOf
<1> QED BY <1>2, <1>3

LEMMA OnlyTheOpenFile ==
  ASSUME NEW L, NEW C, Holds(L, C), NEW M, NEW D, Goes(L, C, M, D),
         NEW p \in DOMAIN Tree \cap DOMAIN Tree'
  PROVE  /\ Located(p)' = Located(p)
         /\ Tree'[p] # Tree[p] => fd' # <<>> /\ fd'[1].loc = Located(p)
<1> DEFINE loc == Located(p)  next == Located(p)'
<1>1. /\ Layout(fat, content, L, C) /\ Layout(fat', content', M, D)
      /\ Deed(content, L, C, fat', content', M, D, OpenLoc(fd'))
  BY DEF Holds, Goes, Deed
<1>2. /\ p \in Paths \ {<<>>} /\ loc \in L \ {NoLoc}
      /\ Leads(content, L, C, p, Len(p), loc)
      /\ Tree[p] = NodeOf(content, C, loc)
  BY <1>1, ToldNow DEF Told, TreeToldBy
<1>3. /\ next \in M \ {NoLoc}
      /\ Leads(content', M, D, p, Len(p), next)
      /\ Tree'[p] = NodeOf(content', D, next)
  BY <1>1, ToldNext DEF Told, TreeToldBy
<1>4. \A l \in L : Leads(content, L, C, p, Len(p), l) => loc = l
  BY <1>1, <1>2, ToldNow DEF Told, TreeToldBy
<1>5. \A l \in M : Leads(content', M, D, p, Len(p), l) => next = l
  BY <1>1, <1>2, ToldNext DEF Told, TreeToldBy
<1>6. Len(p) \in Nat
  BY <1>2
<1> HIDE DEF loc, next
<1>7. loc \in M
  <2> SUFFICES ASSUME loc \notin M
               PROVE  FALSE
    OBVIOUS
  <2>1. ~(L \subseteq M)
    BY <1>2
  <2>2. next \in L /\ Leads(content, L, C, p, Len(p), next)
    BY <1>1, <1>3, <1>6, <2>1, LedBefore
  <2> QED BY <1>3, <1>4, <2>2
<1>8. next = loc
  <2>1. Leads(content', M, D, p, Len(p), loc)
    BY <1>1, <1>2, <1>6, <1>7, LeadsStill
  <2> QED BY <1>5, <1>7, <2>1
<1>9. ASSUME loc # OpenLoc(fd')
      PROVE  Tree'[p] = Tree[p]
  <2>1. Spares(content, C, content', D, loc)
    BY <1>1, <1>2, <1>7, <1>9 DEF Deed
  <2>2. Len(C[loc]) \in Nat /\ Word(content, loc) \in Entries
    BY <1>1, <1>2, ChainFacts, PlaceIsHeld
  <2>3. NodeOf(content', D, loc) = NodeOf(content, C, loc)
    BY <1>2, <2>1, <2>2, SameNode
  <2> QED BY <1>2, <1>3, <1>8, <2>3
<1>10. loc = OpenLoc(fd') => fd' # <<>> /\ fd'[1].loc = loc
  BY <1>2 DEF OpenLoc
<1> QED BY <1>8, <1>9, <1>10 DEF loc, next

------------------------------------------------------------------------------
(* One path to each *)

\* What is in a directory is in L, and it is not the root directory.
LEMMA ChildIsEntry ==
  ASSUME NEW f, NEW c, NEW L, NEW C, Layout(f, c, L, C),
         NEW dir \in L, NEW name, NEW l, Child(c, C, dir, name, l)
  PROVE  l \in L \ {NoLoc} /\ Word(c, l) \in Entries
<1>1. PICK k \in Places(C[dir]) : l = Slot(C[dir], k)
  BY DEF Child
<1>2. l \in L
  BY <1>1 DEF Child, Layout, Closed
<1>3. l[1] \in Clusters
  BY <1>1, SlotIsHeld
<1>4. l # NoLoc
  BY <1>3, Clusters1 DEF NoLoc
<1> QED BY <1>2, <1>4, PlaceIsHeld

LEMMA ChildIsHeld ==
  ASSUME NEW f, NEW c, NEW L, NEW C, Layout(f, c, L, C),
         NEW dir \in L, NEW name, NEW l, Child(c, C, dir, name, l)
  PROVE  \E i \in 1 .. Len(C[dir]) : l[1] = C[dir][i]
<1>1. PICK k \in Places(C[dir]) : l = Slot(C[dir], k)
  BY DEF Child
<1> QED BY <1>1, SlotIsHeld

\* An entry is in one directory.
LEMMA OneParent ==
  ASSUME NEW f, NEW c, NEW L, NEW C, Layout(f, c, L, C), NEW l,
         NEW dir \in L, NEW name, Child(c, C, dir, name, l),
         NEW other \in L, NEW called, Child(c, C, other, called, l)
  PROVE  dir = other /\ name = called
<1>1. PICK i \in 1 .. Len(C[dir]) : l[1] = C[dir][i]
  BY ChildIsHeld
<1>2. PICK j \in 1 .. Len(C[other]) : l[1] = C[other][j]
  BY ChildIsHeld
<1>3. dir = other
  BY <1>1, <1>2 DEF Layout, Apart
<1> QED BY <1>3 DEF Child

\* No name leads to the root directory only.
LEMMA LedByNone ==
  ASSUME NEW f, NEW c, NEW L, NEW C, Layout(f, c, L, C), NEW path, NEW l, NEW n \in Nat,
         Leads(c, L, C, path, n, l)
  PROVE  l = NoLoc <=> n = 0
<1>1. CASE n = 0
  BY <1>1 DEF Leads
<1>2. CASE n # 0
  <2>1. n - 1 \in Nat /\ (n - 1) + 1 = n
    BY <1>2
  <2>2. PICK dir \in L : Child(c, C, dir, path[n], l)
    <3>1. Leads(c, L, C, path, (n - 1) + 1, l)
      BY <2>1
    <3>2. \E dir \in L : Child(c, C, dir, path[(n - 1) + 1], l)
      BY <2>1, <3>1, LeadsBack
    <3> QED BY <2>1, <3>2
  <2>3. l # NoLoc
    BY <2>2, ChildIsEntry
  <2> QED BY <1>2, <2>3
<1> QED BY <1>1, <1>2

\* Two ways to an entry have the same names.
Alike(p, n, q, m) == n = m /\ \A i \in 1 .. n : p[i] = q[i]
LEMMA OneWay ==
  ASSUME NEW f, NEW c, NEW L, NEW C, Layout(f, c, L, C)
  PROVE  \A n \in Nat, m \in Nat : \A p, q, l :
           Leads(c, L, C, p, n, l) /\ Leads(c, L, C, q, m, l) => Alike(p, n, q, m)
<1> DEFINE Same(n) == \A m \in Nat : \A p, q, l :
             Leads(c, L, C, p, n, l) /\ Leads(c, L, C, q, m, l) => Alike(p, n, q, m)
           T == {n \in Nat : Same(n)}
<1>1. 0 \in T
  <2> SUFFICES ASSUME NEW m \in Nat, NEW p, NEW q, NEW l,
                      Leads(c, L, C, p, 0, l), Leads(c, L, C, q, m, l)
               PROVE  Alike(p, 0, q, m)
    OBVIOUS
  <2>1. m = 0
    BY LedByNone
  <2> QED BY <2>1 DEF Alike
<1>2. ASSUME NEW n \in Nat, n \in T
      PROVE  n + 1 \in T
  <2> SUFFICES ASSUME NEW m \in Nat, NEW p, NEW q, NEW l,
                      Leads(c, L, C, p, n + 1, l), Leads(c, L, C, q, m, l)
               PROVE  Alike(p, n + 1, q, m)
    OBVIOUS
  <2>1. m # 0
    BY LedByNone
  <2>2. m - 1 \in Nat /\ (m - 1) + 1 = m
    BY <2>1
  <2>3. PICK dir \in L : Leads(c, L, C, p, n, dir) /\ Child(c, C, dir, p[n + 1], l)
    BY LeadsBack
  <2>4. PICK other \in L : Leads(c, L, C, q, m - 1, other) /\ Child(c, C, other, q[m], l)
    <3>1. Leads(c, L, C, q, (m - 1) + 1, l)
      BY <2>2
    <3>2. \E o \in L : Leads(c, L, C, q, m - 1, o) /\ Child(c, C, o, q[(m - 1) + 1], l)
      BY <2>2, <3>1, LeadsBack
    <3> QED BY <2>2, <3>2
  <2>5. dir = other /\ p[n + 1] = q[m]
    BY <2>3, <2>4, OneParent
  <2>6. Alike(p, n, q, m - 1)
    <3>1. Same(n)
      BY <1>2
    <3> QED BY <2>2, <2>3, <2>4, <2>5, <3>1
  <2> QED BY <2>2, <2>5, <2>6 DEF Alike
<1>3. Nat \subseteq T
  <2> HIDE DEF T
  <2> QED BY <1>1, <1>2, Induction
<1> QED BY <1>3

\* No two paths lead to the same.
LEMMA OnePath ==
  ASSUME NEW f, NEW c, NEW L, NEW C, Layout(f, c, L, C), NEW l,
         NEW p \in Paths, Leads(c, L, C, p, Len(p), l),
         NEW q \in Paths, Leads(c, L, C, q, Len(q), l)
  PROVE  p = q
<1>1. p \in Seq(Names) /\ q \in Seq(Names)
  OBVIOUS
<1>2. Alike(p, Len(p), q, Len(q))
  BY <1>1, OneWay
<1> QED BY <1>1, <1>2 DEF Alike

LEMMA LeadsAlike ==
  ASSUME NEW c, NEW L, NEW C, NEW n \in Nat, NEW p, NEW q, \A i \in 1 .. n : p[i] = q[i],
         NEW l, Leads(c, L, C, p, n, l)
  PROVE  Leads(c, L, C, q, n, l)
<1>1. PICK w \in [0 .. n -> L] :
        /\ w[0] = NoLoc /\ w[n] = l
        /\ \A i \in 1 .. n : Child(c, C, w[i - 1], p[i], w[i])
  BY DEF Leads
<1>2. \A i \in 1 .. n : Child(c, C, w[i - 1], q[i], w[i])
  BY <1>1
<1> QED BY <1>1, <1>2 DEF Leads

\* The way to a path's last name is that of the path without it.
LEMMA FrontFacts ==
  ASSUME NEW p \in Paths \ {<<>>}
  PROVE  /\ Front(p) \in Paths /\ Len(p) \in Nat \ {0} /\ Len(Front(p)) = Len(p) - 1
         /\ \A i \in 1 .. Len(p) - 1 : Front(p)[i] = p[i]
         /\ Last(p) = p[Len(p)] /\ Last(p) \in Names
         /\ Append(Front(p), Last(p)) = p
<1>1. p \in Seq(Names) /\ Len(p) \in Nat \ {0}
  OBVIOUS
<1>2. Front(p) = SubSeq(p, 1, Len(p) - 1) /\ Last(p) = p[Len(p)]
  BY <1>1 DEF Front, Last
<1> DEFINE n == Len(p) - 1
<1>3. n \in Nat /\ n < Len(p)
  BY <1>1
<1>4. /\ SubSeq(p, 1, n) \in Seq(Names) /\ Len(SubSeq(p, 1, n)) = n
      /\ \A i \in 1 .. n : SubSeq(p, 1, n)[i] = p[i]
  <2> HIDE DEF n
  <2> QED BY <1>1, <1>3
<1>5. Append(Front(p), Last(p)) = p
  <2> DEFINE s == Front(p)  t == Append(s, p[n + 1])
  <2>1. s \in Seq(Names) /\ Len(s) = n /\ \A i \in 1 .. n : s[i] = p[i]
    BY <1>2, <1>4
  <2> HIDE DEF s
  <2>2. p[n + 1] \in Names /\ Len(p) = n + 1
    BY <1>1
  <2> HIDE DEF n
  <2>3. t \in Seq(Names) /\ Len(t) = n + 1 /\ t[n + 1] = p[n + 1] /\ \A i \in 1 .. n : t[i] = p[i]
    BY <1>3, <2>1, <2>2
  <2> HIDE DEF t
  <2>4. t = p
    <3>1. \A i \in 1 .. n + 1 : i \in 1 .. n \/ i = n + 1
      BY <1>3
    <3>2. \A i \in 1 .. n + 1 : t[i] = p[i]
      BY <2>3, <3>1
    <3> QED BY <1>1, <2>2, <2>3, <3>2
  <2> QED BY <1>2, <2>4 DEF t, s, n
<1>6. /\ Len(Front(p)) = Len(p) - 1
      /\ \A i \in 1 .. Len(p) - 1 : Front(p)[i] = p[i]
  BY <1>2, <1>4
<1>7. Last(p) \in Names
  BY <1>1, <1>2
<1>8. Front(p) \in Paths
  OBVIOUS
<1> QED BY <1>1, <1>2, <1>5, <1>6, <1>7, <1>8

LEMMA LeadsFront ==
  ASSUME NEW c, NEW L, NEW C, NEW p \in Paths \ {<<>>}, NEW l
  PROVE  Leads(c, L, C, Front(p), Len(Front(p)), l) <=> Leads(c, L, C, p, Len(p) - 1, l)
<1> DEFINE n == Len(p) - 1  s == Front(p)
<1>1. n \in Nat /\ Len(s) = n /\ \A i \in 1 .. n : s[i] = p[i]
  BY FrontFacts
<1> HIDE DEF n, s
<1>2. Leads(c, L, C, s, n, l) => Leads(c, L, C, p, n, l)
  BY <1>1, LeadsAlike
<1>3. Leads(c, L, C, p, n, l) => Leads(c, L, C, s, n, l)
  BY <1>1, LeadsAlike
<1> QED BY <1>1, <1>2, <1>3 DEF n, s

\* The same path leads before and after a call to what was there and stays.
LEMMA LedAlike ==
  ASSUME NEW f, NEW c, NEW L, NEW C, Layout(f, c, L, C), Shown(c, L, C),
         NEW g, NEW d, NEW M, NEW D, NEW h, Deed(c, L, C, g, d, M, D, h),
         NEW path \in Paths, NEW l \in L \cap M
  PROVE  Leads(d, M, D, path, Len(path), l) <=> Leads(c, L, C, path, Len(path), l)
<1>1. Layout(g, d, M, D) /\ Len(path) \in Nat
  BY DEF Deed
<1>2. Leads(c, L, C, path, Len(path), l) => Leads(d, M, D, path, Len(path), l)
  BY <1>1, LeadsStill
<1>3. ASSUME Leads(d, M, D, path, Len(path), l)
      PROVE  Leads(c, L, C, path, Len(path), l)
  <2>1. PICK q \in Paths : Leads(c, L, C, q, Len(q), l)
    <3>1. CASE l = NoLoc
      <4>1. <<>> \in Paths /\ Len(<<>>) = 0
        OBVIOUS
      <4>2. NoLoc \in L
        BY DEF Layout, Typed
      <4>3. Leads(c, L, C, <<>>, 0, l)
        BY <3>1, <4>2, LeadsNowhere
      <4> QED BY <4>1, <4>3
    <3>2. CASE l # NoLoc
      BY <3>2 DEF Shown, Visible
    <3> QED BY <3>1, <3>2
  <2>2. Len(q) \in Nat
    OBVIOUS
  <2>3. Leads(d, M, D, q, Len(q), l)
    BY <2>1, <2>2, LeadsStill
  <2>4. path = q
    BY <1>1, <1>3, <2>3, OnePath
  <2> QED BY <2>1, <2>4
<1> QED BY <1>2, <1>3

------------------------------------------------------------------------------
(* The tree and the handle *)

\* What Tree is, in terms of any layout of the disk.
TreeIs(L, C) ==
  /\ Tree = [p \in DOMAIN Tree |-> Tree[p]]
  /\ \A p \in DOMAIN Tree :
       /\ p \in Paths \ {<<>>} /\ Located(p) \in L \ {NoLoc}
       /\ Leads(content, L, C, p, Len(p), Located(p))
       /\ Tree[p] = NodeOf(content, C, Located(p))
  /\ \A p \in Paths \ {<<>>}, loc \in L :
       Leads(content, L, C, p, Len(p), loc) =>
         loc # NoLoc /\ Located(p) = loc /\ p \in DOMAIN Tree
TreeFacts == \A L, C : Layout(fat, content, L, C) => TreeIs(L, C)

LEMMA TreeNow == TreeFacts
<1> SUFFICES ASSUME NEW L, NEW C, Layout(fat, content, L, C)
             PROVE  TreeIs(L, C)
  BY DEF TreeFacts
<1>1. TreeToldBy(L, C)
  BY ToldNow DEF Told
<1>2. Tree = [p \in DOMAIN Tree |-> Tree[p]]
  BY DEF Tree
<1>3. \A p \in Paths \ {<<>>} : Located(p) # NoLoc => p \in DOMAIN Tree
  BY DEF Tree
<1> QED BY <1>1, <1>2, <1>3 DEF TreeToldBy, TreeIs

LEMMA TreeNext == TreeFacts'
BY TreeNow, PTL

LEMMA TreeGoes ==
  ASSUME NEW L, NEW C, Layout(fat, content, L, C), Shown(content, L, C),
         NEW M, NEW D, NEW h, Deed(content, L, C, fat', content', M, D, h)
  PROVE  /\ Tree = [p \in DOMAIN Tree |-> Tree[p]]
         /\ Tree' = [p \in DOMAIN Tree' |-> Tree'[p]]
         /\ \A p \in DOMAIN Tree : Located(p) \in M =>
              p \in DOMAIN Tree' /\ Located(p)' = Located(p)
         /\ \A p \in DOMAIN Tree' : Located(p)' \in L =>
              /\ p \in DOMAIN Tree /\ Located(p) = Located(p)'
              /\ Located(p) # h => Tree'[p] = Tree[p]
<1>1. Layout(fat', content', M, D)
  BY DEF Deed
<1>2. TreeIs(L, C)
  BY TreeNow DEF TreeFacts
<1>3. /\ Tree' = [p \in DOMAIN Tree' |-> Tree'[p]]
      /\ \A p \in DOMAIN Tree' :
           /\ p \in Paths \ {<<>>} /\ Located(p)' \in M \ {NoLoc}
           /\ Leads(content', M, D, p, Len(p), Located(p)')
           /\ Tree'[p] = NodeOf(content', D, Located(p)')
      /\ \A p \in Paths \ {<<>>}, loc \in M :
           Leads(content', M, D, p, Len(p), loc) =>
             loc # NoLoc /\ Located(p)' = loc /\ p \in DOMAIN Tree'
  BY <1>1, TreeNext DEF TreeFacts, TreeIs
<1>4. ASSUME NEW p \in DOMAIN Tree, Located(p) \in M
      PROVE  p \in DOMAIN Tree' /\ Located(p)' = Located(p)
  <2> DEFINE loc == Located(p)
  <2>1. p \in Paths \ {<<>>} /\ loc \in L \cap M /\ Leads(content, L, C, p, Len(p), loc)
    BY <1>2, <1>4 DEF TreeIs
  <2> HIDE DEF loc
  <2>2. Leads(content', M, D, p, Len(p), loc)
    BY <2>1, LedAlike
  <2> QED BY <1>3, <2>1, <2>2 DEF loc
<1>5. ASSUME NEW p \in DOMAIN Tree', Located(p)' \in L
      PROVE  /\ p \in DOMAIN Tree /\ Located(p) = Located(p)'
             /\ Located(p) # h => Tree'[p] = Tree[p]
  <2> DEFINE loc == Located(p)'
  <2>1. /\ p \in Paths \ {<<>>} /\ loc \in L \cap M /\ loc # NoLoc
        /\ Leads(content', M, D, p, Len(p), loc) /\ Tree'[p] = NodeOf(content', D, loc)
    BY <1>3, <1>5
  <2> HIDE DEF loc
  <2>2. Leads(content, L, C, p, Len(p), loc)
    BY <2>1, LedAlike
  <2>3. p \in DOMAIN Tree /\ Located(p) = loc /\ Tree[p] = NodeOf(content, C, loc)
    BY <1>2, <2>1, <2>2 DEF TreeIs
  <2>4. ASSUME loc # h
        PROVE  Tree'[p] = Tree[p]
    <3>1. Spares(content, C, content', D, loc)
      BY <2>1, <2>4 DEF Deed
    <3>2. Len(C[loc]) \in Nat /\ Word(content, loc) \in Entries
      BY <2>1, ChainFacts, PlaceIsHeld
    <3>3. NodeOf(content', D, loc) = NodeOf(content, C, loc)
      BY <2>1, <3>1, <3>2, SameNode
    <3> QED BY <2>1, <2>3, <3>3
  <2> QED BY <2>3, <2>4 DEF loc
<1> QED BY <1>2, <1>3, <1>4, <1>5 DEF TreeIs

\* Nothing is made, nothing removed, and no file's text changed.
LEMMA SameTree ==
  ASSUME NEW L, NEW C, Layout(fat, content, L, C), Shown(content, L, C),
         NEW D, NEW h, h \notin L \ {NoLoc}, Deed(content, L, C, fat', content', L, D, h)
  PROVE  Tree' = Tree
<1>1. Layout(fat', content', L, D)
  BY DEF Deed
<1>2. /\ \A p \in DOMAIN Tree : Located(p) \in L \ {NoLoc}
      /\ \A p \in DOMAIN Tree' : Located(p)' \in L \ {NoLoc}
  BY <1>1, TreeNow, TreeNext DEF TreeFacts, TreeIs
<1>3. /\ Tree = [p \in DOMAIN Tree |-> Tree[p]]
      /\ Tree' = [p \in DOMAIN Tree' |-> Tree'[p]]
      /\ \A p \in DOMAIN Tree : Located(p) \in L =>
           p \in DOMAIN Tree' /\ Located(p)' = Located(p)
      /\ \A p \in DOMAIN Tree' : Located(p)' \in L =>
           /\ p \in DOMAIN Tree /\ Located(p) = Located(p)'
           /\ Located(p) # h => Tree'[p] = Tree[p]
  BY TreeGoes
<1>4. DOMAIN Tree' = DOMAIN Tree
  BY <1>2, <1>3
<1>5. \A p \in DOMAIN Tree' : Tree'[p] = Tree[p]
  BY <1>2, <1>3
<1> QED BY <1>3, <1>4, <1>5

\* One thing is made, or changed, at loc.
LEMMA TreePut ==
  ASSUME NEW L, NEW C, Layout(fat, content, L, C), Shown(content, L, C),
         NEW M, NEW D, NEW loc, loc \in M, L \subseteq M, \A l \in M : l \in L \/ l = loc,
         Deed(content, L, C, fat', content', M, D, loc),
         NEW path \in Paths \ {<<>>}, Leads(content', M, D, path, Len(path), loc)
  PROVE  AsStore!Put(path, NodeOf(content', D, loc))
<1>1. Layout(fat', content', M, D) /\ loc \in M
  BY DEF Deed
<1>2. TreeIs(L, C)
  BY TreeNow DEF TreeFacts
<1>3. /\ \A p \in DOMAIN Tree' :
           /\ p \in Paths \ {<<>>} /\ Located(p)' \in M \ {NoLoc}
           /\ Leads(content', M, D, p, Len(p), Located(p)')
           /\ Tree'[p] = NodeOf(content', D, Located(p)')
      /\ \A p \in Paths \ {<<>>}, l \in M :
           Leads(content', M, D, p, Len(p), l) =>
             l # NoLoc /\ Located(p)' = l /\ p \in DOMAIN Tree'
  BY <1>1, TreeNext DEF TreeFacts, TreeIs
<1>4. /\ Tree' = [p \in DOMAIN Tree' |-> Tree'[p]]
      /\ \A p \in DOMAIN Tree : Located(p) \in M =>
           p \in DOMAIN Tree' /\ Located(p)' = Located(p)
      /\ \A p \in DOMAIN Tree' : Located(p)' \in L =>
           /\ p \in DOMAIN Tree /\ Located(p) = Located(p)'
           /\ Located(p) # loc => Tree'[p] = Tree[p]
  BY TreeGoes
<1>5. path \in DOMAIN Tree' /\ Located(path)' = loc /\ Tree'[path] = NodeOf(content', D, loc)
  BY <1>1, <1>3
<1>6. ASSUME NEW p \in DOMAIN Tree', p # path
      PROVE  p \in DOMAIN Tree /\ Tree'[p] = Tree[p]
  <2>1. Located(p)' # loc
    <3> SUFFICES ASSUME Located(p)' = loc
                 PROVE  p = path
      BY <1>6
    <3>1. Leads(content', M, D, p, Len(p), loc) /\ p \in Paths
      BY <1>3
    <3> QED BY <1>1, <3>1, OnePath
  <2>2. Located(p)' \in L
    BY <1>3, <2>1
  <2> QED BY <1>4, <2>1, <2>2
<1>7. ASSUME NEW p \in DOMAIN Tree
      PROVE  p \in DOMAIN Tree'
  BY <1>2, <1>4 DEF TreeIs
<1>8. DOMAIN Tree' = DOMAIN Tree \cup {path}
  BY <1>5, <1>6, <1>7
<1>9. \A p \in DOMAIN Tree \cup {path} :
        Tree'[p] = IF p = path THEN NodeOf(content', D, loc) ELSE Tree[p]
  BY <1>5, <1>6, <1>8
<1> QED BY <1>4, <1>8, <1>9 DEF AsStore!Put

\* One is removed.
LEMMA TreeDrop ==
  ASSUME NEW L, NEW C, Layout(fat, content, L, C), Shown(content, L, C),
         NEW D, NEW loc \in L, Deed(content, L, C, fat', content', L \ {loc}, D, loc),
         NEW path \in DOMAIN Tree, Located(path) = loc
  PROVE  Tree' = [p \in DOMAIN Tree \ {path} |-> Tree[p]]
<1> DEFINE M == L \ {loc}
<1>1. Layout(fat', content', M, D)
  BY DEF Deed
<1>2. TreeIs(L, C)
  BY TreeNow DEF TreeFacts
<1>3. \A p \in DOMAIN Tree' : Located(p)' \in M
  BY <1>1, TreeNext DEF TreeFacts, TreeIs
<1>4. /\ Tree' = [p \in DOMAIN Tree' |-> Tree'[p]]
      /\ \A p \in DOMAIN Tree : Located(p) \in M =>
           p \in DOMAIN Tree' /\ Located(p)' = Located(p)
      /\ \A p \in DOMAIN Tree' : Located(p)' \in L =>
           /\ p \in DOMAIN Tree /\ Located(p) = Located(p)'
           /\ Located(p) # loc => Tree'[p] = Tree[p]
  BY TreeGoes
<1>5. ASSUME NEW p \in DOMAIN Tree, p # path
      PROVE  Located(p) # loc
  <2> SUFFICES ASSUME Located(p) = loc
               PROVE  p = path
    BY <1>5
  <2>1. /\ Leads(content, L, C, p, Len(p), loc) /\ p \in Paths
        /\ Leads(content, L, C, path, Len(path), loc) /\ path \in Paths
    BY <1>2 DEF TreeIs
  <2> QED BY <2>1, OnePath
<1>6. ASSUME NEW p \in DOMAIN Tree'
      PROVE  p \in DOMAIN Tree \ {path} /\ Tree'[p] = Tree[p]
  <2>1. Located(p)' \in L /\ Located(p)' # loc
    BY <1>3
  <2> QED BY <1>4, <2>1
<1>7. ASSUME NEW p \in DOMAIN Tree \ {path}
      PROVE  p \in DOMAIN Tree'
  <2>1. Located(p) \in M
    BY <1>2, <1>5 DEF TreeIs
  <2> QED BY <1>4, <2>1
<1>8. DOMAIN Tree' = DOMAIN Tree \ {path}
  BY <1>6, <1>7
<1> QED BY <1>4, <1>6, <1>8

\* What the handle is, in the same terms.
Passed(c, s, pos) ==
  {k \in Places(s) : k <= pos /\ IsEntry(Word(c, Slot(s, k)))}
HandleOf(c, C, path, h) ==
  [path |-> path, pos |-> IF h.dir THEN 0 ELSE h.pos,
   listed |-> IF h.dir THEN {Append(path, Word(c, Slot(C[h.loc], k)).name) :
                             k \in Passed(c, C[h.loc], h.pos)} ELSE {}]
HandleIs(L, C) ==
  \A h \in FileRec, path \in Paths :
    /\ fd = <<h>> /\ Held(content, L, C, h)
    /\ Leads(content, L, C, path, Len(path), h.loc)
    => Handle = <<HandleOf(content, C, path, h)>>
HandleFacts == \A L, C : Layout(fat, content, L, C) => HandleIs(L, C)

\* The place of what has an entry is not that of the lost one.
LEMMA HeldSomewhere ==
  ASSUME NEW f, NEW c, NEW L, NEW C, Layout(f, c, L, C), NEW h, Held(c, L, C, h)
  PROVE  h.loc[1] # EOC
<1>1. CASE h.loc = NoLoc
  BY <1>1, Clusters1 DEF NoLoc
<1>2. CASE h.loc # NoLoc
  <2>1. h.loc \in L \ {NoLoc}
    BY <1>2 DEF Held
  <2>2. h.loc \in Clusters \X (1 .. Cells)
    BY <2>1, PlaceIsHeld
  <2>3. h.loc[1] \in Clusters
    BY <2>2
  <2> QED BY <2>3, Clusters1
<1> QED BY <1>1, <1>2

LEMMA HandleNow == HandleFacts
<1> SUFFICES ASSUME NEW L, NEW C, Layout(fat, content, L, C), NEW h \in FileRec, NEW path \in Paths,
                    fd = <<h>>, Held(content, L, C, h),
                    Leads(content, L, C, path, Len(path), h.loc)
             PROVE  Handle = <<HandleOf(content, C, path, h)>>
  BY DEF HandleFacts, HandleIs
<1> DEFINE s == C[h.loc]
           name == IF h.loc = NoLoc THEN <<>> ELSE CHOOSE p \in Paths : Located(p) = h.loc
           slots == Slots(fat, IF h.loc = NoLoc THEN RootClus ELSE At(h.loc).clus)
           passed == {slots[k] : k \in {i \in DOMAIN slots : i <= h.pos /\ IsEntry(At(slots[i]))}}
<1>1. fd # <<>> /\ fd[1] = h /\ ~EntryIsNowhere
  BY HeldSomewhere DEF EntryIsNowhere
<1>2. Handle = <<[path |-> name, pos |-> IF h.dir THEN 0 ELSE h.pos,
                  listed |-> IF h.dir THEN {Append(name, At(loc).name) : loc \in passed} ELSE {}]>>
  <2> DEFINE G(f) ==
        LET called == IF f.loc = NoLoc THEN <<>> ELSE CHOOSE p \in Paths : Located(p) = f.loc
            places == Slots(fat, IF f.loc = NoLoc THEN RootClus ELSE At(f.loc).clus)
            gone == {places[k] :
                       k \in {i \in DOMAIN places : i <= f.pos /\ IsEntry(At(places[i]))}}
        IN  <<[path |-> called, pos |-> IF f.dir THEN 0 ELSE f.pos,
               listed |-> IF f.dir THEN {Append(called, At(loc).name) : loc \in gone} ELSE {}]>>
  <2>1. Handle = G(fd[1])
    BY <1>1 DEF Handle
  <2>2. G(fd[1]) = G(h)
    <3> HIDE DEF G
    <3> QED BY <1>1
  <2> QED BY <2>1, <2>2
<1>3. h.loc \in L /\ NoLoc \in L /\ fat \in Tables
  BY DEF Held, Layout, Typed
<1>4. name = path
  <2>1. CASE h.loc = NoLoc
    <3>1. Len(path) = 0
      BY <2>1, LedByNone
    <3> QED BY <2>1, <3>1
  <2>2. CASE h.loc # NoLoc
    <3>1. path # <<>>
      BY <2>2, LedByNone
    <3>2. Located(path) = h.loc
      BY <1>3, <3>1, LocatedInLayout
    <3>3. ASSUME NEW p \in Paths, Located(p) = h.loc
          PROVE  p = path
      <4>1. Leads(content, L, C, p, Len(p), h.loc)
        BY <2>2, <3>3, LocatedInLayout
      <4> QED BY <4>1, OnePath
    <3> QED BY <2>2, <3>2, <3>3
  <2> QED BY <2>1, <2>2
<1>5. resolve_chain(fat, IF h.loc = NoLoc THEN RootClus ELSE At(h.loc).clus) = s
  <2>1. CASE h.loc = NoLoc
    <3>1. IsChain(fat, RootClus, C[NoLoc])
      BY <1>3 DEF Layout, Chained, Clus
    <3> QED BY <1>3, <2>1, <3>1, ChainIsResolved
  <2>2. CASE h.loc # NoLoc
    BY <1>3, <2>2, EntryHere
  <2> QED BY <2>1, <2>2
<1>6. /\ DOMAIN slots = Places(s) /\ \A k \in Places(s) : slots[k] = Slot(s, k)
      /\ \A k \in Places(s) : At(Slot(s, k)) = Word(content, Slot(s, k))
  <2>1. s \in Seq(Clusters) /\ slots = SlotsOf[s]
    BY <1>3, <1>5, ChainFacts DEF Slots
  <2> QED BY <2>1, SlotsOfChain DEF At, Word
<1> HIDE DEF slots, s, name
<1>7. {Append(name, At(loc).name) : loc \in passed} =
        {Append(path, Word(content, Slot(s, k)).name) : k \in Passed(content, s, h.pos)}
  <2>1. {i \in DOMAIN slots : i <= h.pos /\ IsEntry(At(slots[i]))} = Passed(content, s, h.pos)
    BY <1>6 DEF Passed
  <2>2. passed = {Slot(s, k) : k \in Passed(content, s, h.pos)}
    <3>1. \A k \in Passed(content, s, h.pos) : slots[k] = Slot(s, k)
      BY <1>6 DEF Passed
    <3> QED BY <2>1, <3>1
  <2>3. \A k \in Passed(content, s, h.pos) : At(Slot(s, k)).name = Word(content, Slot(s, k)).name
    BY <1>6 DEF Passed
  <2> HIDE DEF passed
  <2> QED BY <1>4, <2>2, <2>3
<1> QED BY <1>2, <1>4, <1>7 DEF HandleOf, s

LEMMA HandleNext == HandleFacts'
BY HandleNow, PTL

------------------------------------------------------------------------------
(* What FileStore asks of its tree *)

\* The instance has its own copies of the operators on sequences.
LEMMA SameEnds ==
  ASSUME NEW s
  PROVE  AsStore!Front(s) = Front(s) /\ AsStore!Last(s) = Last(s)
BY DEF AsStore!Front, AsStore!Last, Front, Last

\* A path leads to one thing.
LEMMA OneEnd ==
  ASSUME NEW L, NEW C, Layout(fat, content, L, C), NEW path \in Paths,
         NEW l \in L, Leads(content, L, C, path, Len(path), l),
         NEW m \in L, Leads(content, L, C, path, Len(path), m)
  PROVE  l = m
<1>1. CASE path = <<>>
  <2>1. Len(path) = 0
    BY <1>1
  <2> QED BY <2>1, LedByNone
<1>2. CASE path # <<>>
  BY <1>2, LocatedInLayout
<1> QED BY <1>1, <1>2

\* A file has as much data as its entry says.
LEMMA NodeData ==
  ASSUME NEW f, NEW c, NEW L, NEW C, Layout(f, c, L, C), NEW loc \in L \ {NoLoc}
  PROVE  LET e == Word(c, loc)
         IN  /\ e \in Entries /\ e.size \in Nat /\ 1 .. e.size \subseteq Places(C[loc])
             /\ e.size <= Len(C[loc]) * Cells
             /\ NodeOf(c, C, loc) =
                  [dir |-> e.dir,
                   data |-> IF e.dir THEN <<>>
                            ELSE [k \in 1 .. e.size |-> Word(c, Slot(C[loc], k))]]
<1> DEFINE e == Word(c, loc)  n == Len(C[loc]) * Cells
<1>1. e \in Entries /\ e.size \in Nat
  BY PlaceIsHeld, EntryType
<1>2. n \in Nat /\ e.size <= n
  <2>1. Len(C[loc]) \in Nat /\ Cells \in Nat
    BY ChainFacts
  <2>2. e.size <= n
    BY DEF Layout, Sized
  <2> QED BY <2>1, <2>2
<1> HIDE DEF n, e
<1>3. 1 .. e.size \subseteq 1 .. n
  BY <1>1, <1>2
<1>4. Min({e.size, n}) = e.size
  <2>1. {e.size, n} \subseteq Nat
    BY <1>1, <1>2
  <2>2. Min({e.size, n}) \in {e.size, n} /\ Min({e.size, n}) <= e.size
    BY <2>1, LeastIs
  <2> QED BY <1>1, <1>2, <2>2
<1>5. NodeOf(c, C, loc) =
        [dir |-> e.dir,
         data |-> IF e.dir THEN <<>>
                  ELSE [k \in 1 .. Min({e.size, n}) |-> Word(c, Slot(C[loc], k))]]
  BY DEF NodeOf, e, n
<1> QED BY <1>1, <1>2, <1>3, <1>4, <1>5 DEF e, n, Places

\* Paths that name something.
LEMMA ExistsIs ==
  ASSUME NEW L, NEW C, Layout(fat, content, L, C), NEW path \in Paths, Located(path) # NoLoc
  PROVE  /\ path # <<>> /\ path \in DOMAIN Tree /\ AsStore!Exists(path)
         /\ Located(path) \in L \ {NoLoc}
         /\ Leads(content, L, C, path, Len(path), Located(path))
         /\ Tree[path] = NodeOf(content, C, Located(path))
         /\ At(Located(path)) = Word(content, Located(path))
         /\ At(Located(path)) \in Entries
         /\ (AsStore!IsDir(path) <=> At(Located(path)).dir)
<1>1. TreeIs(L, C)
  BY TreeNow DEF TreeFacts
<1> DEFINE loc == Located(path)
<1>2. path # <<>> /\ loc \in L \ {NoLoc} /\ Leads(content, L, C, path, Len(path), loc)
  BY LocatedInLayout
<1>3. path \in DOMAIN Tree /\ Tree[path] = NodeOf(content, C, loc)
  BY <1>1, <1>2 DEF TreeIs
<1> HIDE DEF loc
<1>4. At(loc) = Word(content, loc) /\ At(loc) \in Entries
  BY <1>2, EntryHere
<1>5. Tree[path].dir = At(loc).dir
  BY <1>3, <1>4 DEF NodeOf
<1>6. AsStore!Exists(path)
  BY <1>3 DEF AsStore!Exists
<1>7. AsStore!IsDir(path) <=> At(loc).dir
  <2>1. At(loc).dir \in BOOLEAN
    BY <1>4, EntryType
  <2> QED BY <1>2, <1>3, <1>5, <2>1 DEF AsStore!IsDir
<1> QED BY <1>2, <1>3, <1>4, <1>6, <1>7 DEF loc

LEMMA MissingIs ==
  ASSUME NEW L, NEW C, Layout(fat, content, L, C), NEW path \in Paths \ {<<>>},
         Located(path) = NoLoc
  PROVE  path \notin DOMAIN Tree /\ ~AsStore!Exists(path) /\ ~AsStore!IsDir(path)
<1>1. TreeIs(L, C)
  BY TreeNow DEF TreeFacts
<1>2. path \notin DOMAIN Tree
  BY <1>1 DEF TreeIs
<1> QED BY <1>2 DEF AsStore!Exists, AsStore!IsDir

\* A directory of the layout is one of the tree.
LEMMA DirIs ==
  ASSUME NEW L, NEW C, Layout(fat, content, L, C), NEW path \in Paths,
         NEW l \in L, Leads(content, L, C, path, Len(path), l)
  PROVE  AsStore!IsDir(path) <=> IsDir(content, l)
<1>1. CASE path = <<>>
  <2>1. Len(path) = 0
    BY <1>1
  <2>2. l = NoLoc
    BY <2>1, LedByNone
  <2> QED BY <1>1, <2>2 DEF AsStore!IsDir, IsDir
<1>2. CASE path # <<>>
  <2>1. Located(path) = l /\ l # NoLoc
    BY <1>2, LocatedInLayout
  <2>2. IsDir(content, l) <=> At(l).dir
    BY <2>1, EntryHere
  <2> QED BY <2>1, <2>2, ExistsIs
<1> QED BY <1>1, <1>2

\* The search finds the directory of a path's last name if there is one.
LEMMA ReachedIs ==
  ASSUME NEW L, NEW C, Layout(fat, content, L, C), NEW path \in Paths
  PROVE  parse_path(path) # 0 <=> AsStore!Reached(path)
<1>1. CASE path = <<>>
  BY <1>1, ParsedPath DEF AsStore!Reached
<1>2. CASE path # <<>>
  <2>1. Front(path) \in Paths
    BY <1>2, FrontFacts
  <2>2. \A dir : Leads(content, L, C, Front(path), Len(Front(path)), dir)
                   <=> Leads(content, L, C, path, Len(path) - 1, dir)
    BY <1>2, LeadsFront
  <2>3. ASSUME parse_path(path) # 0
        PROVE  AsStore!IsDir(Front(path))
    <3>1. PICK dir \in L : IsDir(content, dir) /\ Leads(content, L, C, path, Len(path) - 1, dir)
      BY <2>3, ParsedPath
    <3> QED BY <2>1, <2>2, <3>1, DirIs
  <2>4. ASSUME AsStore!IsDir(Front(path))
        PROVE  parse_path(path) # 0
    <3>1. PICK dir \in L : /\ IsDir(content, dir)
                          /\ Leads(content, L, C, Front(path), Len(Front(path)), dir)
      <4>1. CASE Front(path) = <<>>
        <5>1. NoLoc \in L
          BY DEF Layout, Typed
        <5>2. Leads(content, L, C, Front(path), 0, NoLoc) /\ IsDir(content, NoLoc)
          BY <5>1, LeadsNowhere DEF IsDir
        <5>3. Len(Front(path)) = 0
          BY <4>1
        <5> QED BY <5>1, <5>2, <5>3
      <4>2. CASE Front(path) # <<>>
        <5>1. Front(path) \in DOMAIN Tree
          BY <2>4, <4>2 DEF AsStore!IsDir
        <5>2. Located(Front(path)) \in L \ {NoLoc}
          BY <5>1, TreeNow DEF TreeFacts, TreeIs
        <5>3. /\ Leads(content, L, C, Front(path), Len(Front(path)), Located(Front(path)))
              /\ At(Located(Front(path))).dir
          BY <2>1, <2>4, <5>2, ExistsIs
        <5>4. IsDir(content, Located(Front(path)))
          BY <5>2, <5>3, EntryHere
        <5> QED BY <5>2, <5>3, <5>4
      <4> QED BY <4>1, <4>2
    <3>2. parse_path(path) = Clus(content, dir)
      BY <1>2, <2>2, <3>1, ParsedPath
    <3>3. Clus(content, dir) \in Clusters
      BY <3>1, ChainFacts
    <3> QED BY <3>2, <3>3, Clusters1
  <2> QED BY <1>2, <2>3, <2>4, SameEnds DEF AsStore!Reached
<1> QED BY <1>1, <1>2

\* What the Stat says is what FileStore says.
LEMMA InfoIs ==
  ASSUME NEW L, NEW C, Layout(fat, content, L, C), NEW path \in Paths, Located(path) # NoLoc
  PROVE  AsStore!Info(path) = Info(At(Located(path)))
<1> DEFINE loc == Located(path)  e == Word(content, loc)
<1>1. /\ path # <<>> /\ loc \in L \ {NoLoc} /\ Leads(content, L, C, path, Len(path), loc)
      /\ Tree[path] = NodeOf(content, C, loc) /\ At(loc) = e
      /\ (AsStore!IsDir(path) <=> At(loc).dir)
  BY ExistsIs
<1> HIDE DEF loc
<1>2. e.name = Last(path)
  <2>1. Len(path) \in Nat \ {0} /\ Last(path) = path[Len(path)]
    BY <1>1, FrontFacts
  <2> DEFINE n == Len(path) - 1
  <2>2. n \in Nat /\ n + 1 = Len(path)
    BY <2>1
  <2> HIDE DEF n
  <2>3. \E dir \in L : Child(content, C, dir, path[n + 1], loc)
    BY <1>1, <2>2, LeadsBack
  <2> QED BY <2>1, <2>2, <2>3 DEF Child
<1>3. CASE e.dir
  <2>1. e.size = 0
    <3>1. IsDir(content, loc)
      BY <1>3 DEF IsDir
    <3> QED BY <1>1, <3>1 DEF Layout, Sized
  <2> QED BY <1>1, <1>2, <1>3, <2>1, SameEnds DEF AsStore!Info, Info, loc
<1>4. CASE ~e.dir
  <2>1. /\ e.size \in Nat
        /\ Tree[path] = [dir |-> e.dir, data |-> [k \in 1 .. e.size |-> Word(content, Slot(C[loc], k))]]
    BY <1>1, <1>4, NodeData
  <2>2. Len(Tree[path].data) = e.size
    BY <2>1
  <2> QED BY <1>1, <1>2, <1>4, <2>2, SameEnds DEF AsStore!Info, Info, loc
<1> QED BY <1>3, <1>4

\* The entries of a directory are the children of its path.
LEMMA EntryIsChild ==
  ASSUME NEW L, NEW C, Layout(fat, content, L, C), Shown(content, L, C),
         NEW path \in Paths, NEW dir \in L, IsDir(content, dir),
         Leads(content, L, C, path, Len(path), dir),
         NEW k \in Places(C[dir]), IsEntry(Word(content, Slot(C[dir], k)))
  PROVE  LET q == Append(path, Word(content, Slot(C[dir], k)).name)
         IN  /\ q \in Paths /\ Located(q) = Slot(C[dir], k) /\ Located(q) # NoLoc
             /\ q \in AsStore!Children(path)
<1> DEFINE l == Slot(C[dir], k)  name == Word(content, l).name
<1>1. Child(content, C, dir, name, l)
  BY DEF Child
<1> HIDE DEF l, name
<1>2. l \in L \ {NoLoc}
  BY <1>1, ChildIsEntry
<1>3. PICK q \in Paths \ {<<>>} : Leads(content, L, C, q, Len(q), l)
  BY <1>2 DEF Shown, Visible
<1>4. Len(q) \in Nat \ {0} /\ Append(Front(q), Last(q)) = q /\ Last(q) = q[Len(q)] /\ Front(q) \in Paths
  BY <1>3, FrontFacts
<1> DEFINE n == Len(q) - 1
<1>5. n \in Nat /\ n + 1 = Len(q)
  BY <1>4
<1> HIDE DEF n
<1>6. PICK other \in L : Leads(content, L, C, q, n, other) /\ Child(content, C, other, q[n + 1], l)
  BY <1>3, <1>5, LeadsBack
<1>7. other = dir /\ q[n + 1] = name
  BY <1>1, <1>6, OneParent
<1>8. Front(q) = path
  <2>1. Leads(content, L, C, Front(q), Len(Front(q)), dir)
    BY <1>3, <1>6, <1>7, LeadsFront DEF n
  <2> QED BY <1>4, <2>1, OnePath
<1>9. q = Append(path, name)
  BY <1>4, <1>5, <1>7, <1>8
<1>10. q \in DOMAIN Tree /\ Located(q) = l
  BY <1>2, <1>3, TreeNow DEF TreeFacts, TreeIs
<1>11. q \in AsStore!Children(path)
  BY <1>8, <1>10, SameEnds DEF AsStore!Children
<1> QED BY <1>2, <1>9, <1>10, <1>11 DEF l, name

LEMMA ChildIsInDirectory ==
  ASSUME NEW L, NEW C, Layout(fat, content, L, C),
         NEW path \in Paths, NEW dir \in L,
         Leads(content, L, C, path, Len(path), dir),
         NEW q \in AsStore!Children(path)
  PROVE  \E k \in Places(C[dir]) : /\ IsEntry(Word(content, Slot(C[dir], k)))
                                   /\ q = Append(path, Word(content, Slot(C[dir], k)).name)
<1>1. q \in DOMAIN Tree /\ Front(q) = path
  BY SameEnds DEF AsStore!Children
<1> DEFINE l == Located(q)
<1>2. q \in Paths \ {<<>>} /\ l \in L \ {NoLoc} /\ Leads(content, L, C, q, Len(q), l)
  BY <1>1, TreeNow DEF TreeFacts, TreeIs
<1> HIDE DEF l
<1>3. Len(q) \in Nat \ {0} /\ Append(Front(q), Last(q)) = q /\ Last(q) = q[Len(q)]
  BY <1>2, FrontFacts
<1> DEFINE n == Len(q) - 1
<1>4. n \in Nat /\ n + 1 = Len(q)
  BY <1>3
<1> HIDE DEF n
<1>5. PICK other \in L : Leads(content, L, C, q, n, other) /\ Child(content, C, other, q[n + 1], l)
  BY <1>2, <1>4, LeadsBack
<1>6. other = dir
  <2>1. Leads(content, L, C, path, Len(path), other)
    BY <1>1, <1>2, <1>5, LeadsFront DEF n
  <2> QED BY <1>5, <2>1, OneEnd
<1>7. Child(content, C, dir, Last(q), l)
  BY <1>3, <1>4, <1>5, <1>6
<1> QED BY <1>1, <1>3, <1>7 DEF Child

------------------------------------------------------------------------------
(* The calls that need no data: each is a step of FileStore *)

LEMMA NoHandle == fd = <<>> \/ EntryIsNowhere => Handle = <<>>
BY DEF Handle

LEMMA NoHandleNext == fd' = <<>> \/ EntryIsNowhere' => Handle' = <<>>
BY DEF Handle, EntryIsNowhere

\* A handle just opened has nothing listed.
LEMMA OpenedAs ==
  ASSUME NEW M, NEW D, Layout(fat', content', M, D),
         NEW h \in FileRec, fd' = <<h>>, Held(content', M, D, h), h.dir => h.pos = 0,
         NEW path \in Paths, Leads(content', M, D, path, Len(path), h.loc)
  PROVE  Handle' = <<[path |-> path, pos |-> h.pos, listed |-> {}]>>
<1>1. Handle' = <<HandleOf(content', D, path, h)>>
  BY HandleNext DEF HandleFacts, HandleIs
<1>2. HandleOf(content', D, path, h) = [path |-> path, pos |-> h.pos, listed |-> {}]
  <2>1. CASE h.dir
    <3>1. Passed(content', D[h.loc], h.pos) = {}
      <4>1. h.pos = 0
        BY <2>1
      <4>2. \A k \in Places(D[h.loc]) : ~(k <= 0)
        <5> HIDE DEF Places
        <5> SUFFICES ASSUME NEW k \in Places(D[h.loc]) PROVE ~(k <= 0)
          OBVIOUS
        <5>1. k \in 1 .. Len(D[h.loc]) * Cells
          BY DEF Places
        <5> DEFINE n == Len(D[h.loc]) * Cells
        <5>2. n \in Int
          <6>1. D[h.loc] \in Seq(Clusters)
            BY DEF Held, Layout, Typed
          <6> QED BY <6>1
        <5> HIDE DEF n
        <5>3. k \in 1 .. n
          BY <5>1 DEF n
        <5> QED BY <5>2, <5>3
      <4> QED BY <4>1, <4>2 DEF Passed
    <3> QED BY <2>1, <3>1 DEF HandleOf
  <2>2. CASE ~h.dir
    BY <2>2 DEF HandleOf
  <2> QED BY <2>1, <2>2
<1> QED BY <1>1, <1>2

\* What leaves the disk alone leaves the tree alone.
LEMMA DiskKept ==
  ASSUME NEW L, NEW C, Layout(fat, content, L, C), Shown(content, L, C),
         fat' = fat, content' = content
  PROVE  Tree' = Tree /\ Layout(fat', content', L, C)
<1>1. \A l \in L : Extends(C[l], C[l])
  BY ChainFacts DEF Extends
<1>2. Deed(content, L, C, fat', content', L, C, NoLoc)
  BY <1>1, DeedOfLoose
<1> QED BY <1>2, SameTree

\* The directory of a creation that fails is there, or the path is "/".
LEMMA LostIsNothing ==
  ASSUME NEW L, NEW C, Layout(fat, content, L, C), Shown(content, L, C), ~Fills,
         NEW path \in Paths, parse_path(path) # 0, NEW is_dir \in BOOLEAN,
         \/ CreateLost(parse_path(path), is_dir)
         \/ CreateRefused(parse_path(path), is_dir)
  PROVE  Tree' = Tree
<1>1. CASE CreateLost(parse_path(path), is_dir)
  <2>1. PICK dir \in L : IsDir(content, dir) /\ parse_path(path) = Clus(content, dir)
    BY PathLeads
  <2>2. PICK D : Lost(L, C, dir, D)
    BY <1>1, <2>1, Loses
  <2>3. Deed(content, L, C, fat', content', L, D, NoLoc)
    BY <2>2 DEF Lost
  <2> QED BY <2>3, SameTree
<1>2. CASE CreateRefused(parse_path(path), is_dir)
  <2>1. \A q : Deed(content, L, C, fat', content', L, C, q)
    BY <1>2, Refuses
  <2>2. Deed(content, L, C, fat', content', L, C, NoLoc)
    BY <2>1
  <2> QED BY <2>2, SameTree
<1> QED BY <1>1, <1>2

\* An entry that create_entry makes is a node with nothing in it.
LEMMA NewNode ==
  ASSUME NEW f, NEW c, NEW L, NEW C, Layout(f, c, L, C), NEW loc \in L \ {NoLoc},
         NEW name, NEW is_dir \in BOOLEAN, Word(c, loc) = NewEntry(name, is_dir, 0)
  PROVE  NodeOf(c, C, loc) = [dir |-> is_dir, data |-> <<>>]
<1>1. Word(c, loc).dir = is_dir /\ Word(c, loc).size = 0
  BY DEF NewEntry
<1>2. NodeOf(c, C, loc) =
        [dir |-> is_dir, data |-> IF is_dir THEN <<>>
                                  ELSE [k \in 1 .. 0 |-> Word(c, Slot(C[loc], k))]]
  BY <1>1, NodeData
<1>3. [k \in 1 .. 0 |-> Word(c, Slot(C[loc], k))] = <<>>
  OBVIOUS
<1> QED BY <1>2, <1>3

LEMMA OpenSteps ==
  ASSUME NEW L, NEW C, Holds(L, C), ~Fills, ~TruncatesLong,
         NEW path \in Paths, NEW flags, fs_open(path, flags)
  PROVE  AsStore!Open(path) \/ (FirstIntoFull /\ MakesNothing)
<1>1. Layout(fat, content, L, C) /\ Shown(content, L, C)
  BY DEF Holds
<1>2. fd = <<>> /\ Handle = <<>>
  BY NoHandle DEF fs_open
<1>3. CASE path = <<>> /\ OpenRoot
  <2>1. /\ fd' = <<Root>> /\ fat' = fat /\ content' = content
        /\ res' = 0 /\ out' = <<>>
    BY <1>3 DEF OpenRoot, disk, Returns
  <2>2. Tree' = Tree /\ Layout(fat', content', L, C)
    BY <1>1, <2>1, DiskKept
  <2>3. Root \in FileRec /\ Held(content, L, C, Root) /\ Root.loc = NoLoc
    BY <1>1, RootIsOpened
  <2>4. Root.pos = 0
    BY DEF Root, File
  <2>5. Leads(content, L, C, <<>>, 0, NoLoc)
    BY <1>1, LeadsNowhere DEF Layout, Typed
  <2>6. Handle' = <<[path |-> path, pos |-> 0, listed |-> {}]>>
    <3> DEFINE h == Root
    <3>1. /\ h \in FileRec /\ fd' = <<h>> /\ Held(content', L, C, h) /\ h.pos = 0
          /\ Leads(content', L, C, path, Len(path), h.loc)
      BY <1>3, <2>1, <2>3, <2>4, <2>5
    <3> HIDE DEF h
    <3> QED BY <2>2, <3>1, OpenedAs
  <2> QED BY <1>2, <1>3, <2>1, <2>2, <2>6
       DEF AsStore!Open, AsStore!Opened, AsStore!Returns, AsStore!Exists
<1>4. CASE OpenFails(path, flags)
  <2>1. fd' = <<>> /\ fat' = fat /\ content' = content /\ res' = -1 /\ out' = <<>>
    BY <1>2, <1>4 DEF OpenFails, disk, Returns
  <2>2. Tree' = Tree /\ Handle' = <<>>
    BY <1>1, <2>1, DiskKept, NoHandleNext
  <2> QED BY <1>2, <2>1, <2>2 DEF AsStore!Open, AsStore!Returns, AsStore!Keep
<1>5. CASE OpenExisting(path, flags)
  <2> DEFINE loc == Located(path)  e == At(loc)
  <2>1. /\ Layout(fat', content', L, C) /\ fat' = fat
        /\ loc \in L \ {NoLoc}
        /\ Deed(content, L, C, fat', content', L, C, loc)
        /\ \E h \in FileRec :
             /\ fd' = <<h>> /\ Held(content', L, C, h) /\ h.loc = loc
             /\ h.dir = e.dir
             /\ h.size = e.size \/ (h.size = 0 /\ ~h.dir)
             /\ h.pos = IF "APPEND" \in flags /\ ~h.dir THEN h.size ELSE 0
             /\ content' = Resized(content, loc, h.size)
    BY <1>1, <1>5, Opens
  <2>2. PICK h \in FileRec :
             /\ fd' = <<h>> /\ Held(content', L, C, h) /\ h.loc = loc
             /\ h.dir = e.dir
             /\ h.size = e.size \/ (h.size = 0 /\ ~h.dir)
             /\ h.pos = IF "APPEND" \in flags /\ ~h.dir THEN h.size ELSE 0
             /\ content' = Resized(content, loc, h.size)
    BY <2>1
  <2>3. res' = 0 /\ out' = <<>>
    BY <1>5 DEF OpenExisting, Opened, Returns
  <2>4. /\ path # <<>> /\ path \in DOMAIN Tree /\ AsStore!Exists(path)
        /\ Leads(content, L, C, path, Len(path), loc)
        /\ Tree[path] = NodeOf(content, C, loc)
        /\ e = Word(content, loc) /\ e \in Entries
        /\ (AsStore!IsDir(path) <=> e.dir)
    BY <1>1, <2>1, ExistsIs
  <2>5. AsStore!Reached(path)
    <3>1. parse_path(path) # 0
      BY <1>1, <2>1, LocatedInLayout
    <3> QED BY <1>1, <3>1, ReachedIs
  <2> HIDE DEF loc, e
  <2>6. Leads(content', L, C, path, Len(path), loc)
    BY <1>1, <2>1, <2>4, LedAlike
  <2>7. Handle' = <<[path |-> path, pos |-> h.pos, listed |-> {}]>>
    BY <2>1, <2>2, <2>6, OpenedAs
  <2>8. CASE h.size = e.size
    <3>1. content' = content
      <4>1. content \in Disks /\ loc \in Clusters \X (1 .. Cells)
        BY <1>1, <2>1, PlaceIsHeld DEF Layout, Typed
      <4>2. [Word(content, loc) EXCEPT !.size = h.size] = Word(content, loc)
        BY <2>4, <2>8 DEF Entries
      <4>3. content' = Store(content, loc, Word(content, loc))
        BY <2>2, <4>2 DEF Resized
      <4> QED BY <4>1, <4>3 DEF Store, Word, Disks
    <3>2. Tree' = Tree
      BY <1>1, <2>1, <3>1, DiskKept
    <3>3. CASE h.pos = 0
      BY <1>2, <2>3, <2>4, <2>7, <3>2, <3>3
         DEF AsStore!Open, AsStore!Opened, AsStore!Returns
    <3>4. CASE h.pos # 0
      <4>1. ~e.dir /\ h.pos = e.size
        BY <2>2, <2>8, <3>4
      <4>2. Len(Tree[path].data) = e.size
        <5>1. /\ e.size \in Nat
              /\ Tree[path] = [dir |-> e.dir,
                               data |-> [k \in 1 .. e.size |-> Word(content, Slot(C[loc], k))]]
          BY <1>1, <2>1, <2>4, <4>1, NodeData
        <5> QED BY <5>1
      <4> QED BY <1>2, <2>3, <2>4, <2>7, <3>2, <4>1, <4>2
           DEF AsStore!Open, AsStore!Opened, AsStore!Returns
    <3> QED BY <3>3, <3>4
  <2>9. CASE h.size = 0 /\ ~h.dir
    <3>1. AsStore!Put(path, NodeOf(content', C, loc))
      <4>1. path \in Paths \ {<<>>} /\ loc \in L
        BY <2>1, <2>4
      <4> QED BY <1>1, <2>1, <2>6, <4>1, TreePut
    <3>2. NodeOf(content', C, loc) = [dir |-> FALSE, data |-> <<>>]
      <4>1. /\ Word(content', loc) \in Entries
            /\ NodeOf(content', C, loc) =
                 [dir |-> Word(content', loc).dir,
                  data |-> IF Word(content', loc).dir THEN <<>>
                           ELSE [k \in 1 .. Word(content', loc).size |->
                                   Word(content', Slot(C[loc], k))]]
        <5>1. Layout(fat', content', L, C) /\ loc \in L \ {NoLoc}
          BY <2>1
        <5> QED BY <5>1, NodeData
      <4>2. Word(content', loc).size = 0 /\ ~Word(content', loc).dir
        BY <2>1, <2>2, <2>9 DEF Held, IsDir
      <4>3. Word(content', loc).dir = FALSE
        BY <4>1, <4>2, EntryType
      <4>4. [k \in 1 .. 0 |-> Word(content', Slot(C[loc], k))] = <<>>
        OBVIOUS
      <4> QED BY <4>1, <4>2, <4>3, <4>4
    <3>3. h.pos = 0 /\ ~AsStore!IsDir(path)
      BY <2>2, <2>4, <2>9
    <3>4. AsStore!Put(path, [dir |-> FALSE, data |-> <<>>])
      BY <3>1, <3>2
    <3> QED BY <1>2, <2>3, <2>5, <2>7, <3>3, <3>4
         DEF AsStore!Open, AsStore!Opened, AsStore!Returns
  <2> QED BY <2>2, <2>8, <2>9
<1>6. CASE path # <<>> /\ OpenCreates(path, flags)
  <2> DEFINE clus == parse_path(path)  name == Last(path)
  <2>1. clus # 0 /\ Located(path) = NoLoc
    BY <1>6 DEF OpenCreates
  <2>2. ASSUME create_entry(clus, name, FALSE), res' = 0, out' = <<>>,
               fd' = <<File(resolve_chain(fat', Claimed), NewEntry(name, FALSE, 0),
                            FreeSlot(clus), flags)>>
        PROVE  AsStore!Open(path)
    <3> DEFINE loc == FreeSlot(clus)  M == L \cup {loc}  D == With(L, C, loc, Claimed)
    <3>1. /\ loc # NoLoc
          /\ \A h : Deed(content, L, C, fat', content', M, D, h)
          /\ Leads(content', M, D, path, Len(path), loc)
          /\ Word(content', loc) = NewEntry(name, FALSE, 0)
          /\ \E h \in FileRec : /\ fd' = <<h>> /\ Held(content', M, D, h)
                               /\ h.loc = loc /\ ~h.dir /\ h.pos = 0
      BY <1>1, <2>1, <2>2, OpensNew
    <3> HIDE DEF loc, D, name
    <3>2. Deed(content, L, C, fat', content', M, D, loc)
      BY <3>1
    <3>3. AsStore!Put(path, NodeOf(content', D, loc))
      <4>1. /\ path \in Paths \ {<<>>}
            /\ loc \in M /\ L \subseteq M /\ \A l \in M : l \in L \/ l = loc
        BY <1>6
      <4> HIDE DEF M
      <4> QED BY <1>1, <3>1, <3>2, <4>1, TreePut
    <3>4. Layout(fat', content', M, D) /\ loc \in M \ {NoLoc}
      BY <3>1, <3>2 DEF Deed
    <3> HIDE DEF M
    <3>5. NodeOf(content', D, loc) = [dir |-> FALSE, data |-> <<>>]
      <4> DEFINE is_dir == FALSE
      <4>1. is_dir \in BOOLEAN /\ Word(content', loc) = NewEntry(name, is_dir, 0)
        BY <3>1
      <4> HIDE DEF is_dir
      <4>2. NodeOf(content', D, loc) = [dir |-> is_dir, data |-> <<>>]
        BY <3>4, <4>1, NewNode
      <4> QED BY <4>2 DEF is_dir
    <3>6. AsStore!Put(path, [dir |-> FALSE, data |-> <<>>])
      BY <3>3, <3>5
    <3>7. Handle' = <<[path |-> path, pos |-> 0, listed |-> {}]>>
      BY <3>1, <3>4, OpenedAs
    <3>8. AsStore!Reached(path) /\ ~AsStore!IsDir(path)
      BY <1>1, <1>6, <2>1, ReachedIs, MissingIs
    <3> QED BY <1>2, <2>2, <3>6, <3>7, <3>8
         DEF AsStore!Open, AsStore!Opened, AsStore!Returns
  <2>3. ASSUME CreateRefused(clus, FALSE), res' = -1, out' = <<>>, fd' = fd
        PROVE  AsStore!Open(path)
    <3>1. Tree' = Tree /\ Handle' = <<>>
      BY <1>1, <1>2, <2>1, <2>3, LostIsNothing, NoHandleNext
    <3> QED BY <1>2, <2>3, <3>1 DEF AsStore!Open, AsStore!Returns, AsStore!Keep
  <2>4. ASSUME CreateLost(clus, FALSE),
               fd' = <<File(<<Claimed>>, NewEntry(name, FALSE, 1), <<EOC, 1>>, flags)>>
        PROVE  FirstIntoFull /\ MakesNothing
    <3>1. Tree' = Tree
      BY <1>1, <2>1, <2>4, LostIsNothing
    <3>2. EntryIsNowhere'
      BY <2>4 DEF EntryIsNowhere, File
    <3> QED BY <2>4, <3>1, <3>2 DEF MakesNothing, CreateLost
  <2> QED BY <1>6, <2>2, <2>3, <2>4 DEF OpenCreates, Opened, Returns
<1> QED BY <1>3, <1>4, <1>5, <1>6 DEF fs_open
\* Every place of L has its path.
LEMMA PathTo ==
  ASSUME NEW c, NEW L, NEW C, NoLoc \in L, Shown(c, L, C), NEW l \in L
  PROVE  \E path \in Paths : Leads(c, L, C, path, Len(path), l)
<1>1. CASE l = NoLoc
  <2>1. <<>> \in Paths /\ Len(<<>>) = 0
    OBVIOUS
  <2>2. Leads(c, L, C, <<>>, 0, l)
    BY <1>1, LeadsNowhere
  <2> QED BY <2>1, <2>2
<1>2. CASE l # NoLoc
  BY <1>2 DEF Shown, Visible
<1> QED BY <1>1, <1>2

\* What is open, and has an entry or is "/", is open in FileStore under its path.
LEMMA OpenIs ==
  ASSUME NEW L, NEW C, Holds(L, C), NEW h \in FileRec, fd = <<h>>, Held(content, L, C, h)
  PROVE  \E path \in Paths : /\ Leads(content, L, C, path, Len(path), h.loc)
                            /\ Handle = <<HandleOf(content, C, path, h)>>
<1>1. Layout(fat, content, L, C) /\ Shown(content, L, C) /\ NoLoc \in L /\ h.loc \in L
  BY DEF Holds, Layout, Typed, Held
<1>2. PICK path \in Paths : Leads(content, L, C, path, Len(path), h.loc)
  BY <1>1, PathTo
<1>3. Handle = <<HandleOf(content, C, path, h)>>
  BY <1>1, <1>2, HandleNow DEF HandleFacts, HandleIs
<1> QED BY <1>2, <1>3

LEMMA HandleKept ==
  ASSUME NEW L, NEW C, Holds(L, C), fat' = fat, content' = content, fd' = fd
  PROVE  Handle' = Handle
<1>1. /\ Layout(fat, content, L, C) /\ Shown(content, L, C)
      /\ Handled(fat, content, L, C, fd) /\ Layout(fat', content', L, C)
  BY DEF Holds
<1>2. CASE fd = <<>>
  BY <1>2, NoHandle, NoHandleNext
<1>3. CASE fd # <<>>
  <2>1. PICK h \in FileRec : fd = <<h>> /\ (Held(content, L, C, h) \/ Adrift(fat, L, C, h))
    BY <1>1, <1>3 DEF Handled
  <2>2. CASE Held(content, L, C, h)
    <3>1. PICK path \in Paths : /\ Leads(content, L, C, path, Len(path), h.loc)
                               /\ Handle = <<HandleOf(content, C, path, h)>>
      BY <2>1, <2>2, OpenIs
    <3>2. /\ fd' = <<h>> /\ Held(content', L, C, h)
          /\ Leads(content', L, C, path, Len(path), h.loc)
      BY <2>1, <2>2, <3>1
    <3>3. Handle' = <<HandleOf(content', C, path, h)>>
      BY <1>1, <3>2, HandleNext DEF HandleFacts, HandleIs
    <3> QED BY <3>1, <3>3
  <2>3. CASE Adrift(fat, L, C, h)
    <3>1. fd[1].loc[1] = EOC
      BY <2>1, <2>3 DEF Adrift
    <3>2. EntryIsNowhere /\ EntryIsNowhere'
      BY <1>3, <3>1 DEF EntryIsNowhere
    <3> QED BY <3>2, NoHandle, NoHandleNext
  <2> QED BY <2>1, <2>2, <2>3
<1> QED BY <1>2, <1>3

LEMMA CloseSteps ==
  ASSUME NEW L, NEW C, Holds(L, C), fs_close, ~EntryIsNowhere
  PROVE  AsStore!Next
<1>1. /\ Layout(fat, content, L, C) /\ Shown(content, L, C)
      /\ Handled(fat, content, L, C, fd)
  BY DEF Holds
<1>2. /\ fd # <<>> /\ fd' = <<>> /\ fat' = fat /\ content' = content
      /\ res' = 0 /\ out' = <<>>
  BY DEF fs_close, disk, Returns
<1>3. Tree' = Tree /\ Handle' = <<>>
  BY <1>1, <1>2, DiskKept, NoHandleNext
<1>4. PICK h \in FileRec : fd = <<h>> /\ (Held(content, L, C, h) \/ Adrift(fat, L, C, h))
  BY <1>1, <1>2 DEF Handled
<1>5. Held(content, L, C, h)
  BY <1>2, <1>4 DEF Adrift, EntryIsNowhere
<1>6. Handle # <<>>
  BY <1>4, <1>5, OpenIs
<1>7. AsStore!Close
  BY <1>2, <1>3, <1>6 DEF AsStore!Close, AsStore!Returns
<1> QED BY <1>7 DEF AsStore!Next

LEMMA InitSteps ==
  ASSUME NEW L, NEW C, Holds(L, C), fs_init
  PROVE  AsStore!Next
<1>1. Layout(fat, content, L, C) /\ Shown(content, L, C)
  BY DEF Holds
<1>2. fd' = <<>> /\ fat' = fat /\ content' = content /\ res' = 0 /\ out' = <<>>
  BY DEF fs_init, disk, Returns
<1>3. Tree' = Tree /\ Handle' = <<>>
  BY <1>1, <1>2, DiskKept, NoHandleNext
<1> QED BY <1>2, <1>3 DEF AsStore!Next, AsStore!Reboot, AsStore!Returns

LEMMA StatSteps ==
  ASSUME NEW L, NEW C, Holds(L, C), NEW path \in Paths, fs_stat(path)
  PROVE  AsStore!Next
<1>1. Layout(fat, content, L, C) /\ Shown(content, L, C)
  BY DEF Holds
<1>2. fat' = fat /\ content' = content /\ fd' = fd
  BY DEF fs_stat, disk
<1>3. Tree' = Tree /\ Handle' = Handle
  BY <1>1, <1>2, DiskKept, HandleKept
<1>4. CASE path = <<>>
  <2>1. res' = 1 /\ out' = <<"directory", 0>>
    BY <1>4 DEF fs_stat, Returns
  <2> QED BY <1>3, <1>4, <2>1 DEF AsStore!Next, AsStore!Stat, AsStore!Returns, AsStore!Keep
<1>5. CASE path # <<>> /\ Located(path) # NoLoc
  <2>1. res' = 1 /\ out' = Info(At(Located(path)))
    BY <1>5 DEF fs_stat, Returns
  <2>2. AsStore!Exists(path) /\ AsStore!Info(path) = Info(At(Located(path)))
    BY <1>1, <1>5, ExistsIs, InfoIs
  <2>3. AsStore!Stat(path)
    BY <1>3, <1>5, <2>1, <2>2 DEF AsStore!Stat, AsStore!Returns, AsStore!Keep
  <2> QED BY <2>3 DEF AsStore!Next
<1>6. CASE path # <<>> /\ Located(path) = NoLoc
  <2>1. res' = 0 /\ out' = <<>>
    BY <1>6 DEF fs_stat, Returns
  <2>2. ~AsStore!Exists(path)
    BY <1>1, <1>6, MissingIs
  <2>3. AsStore!Stat(path)
    BY <1>3, <1>6, <2>1, <2>2 DEF AsStore!Stat, AsStore!Returns, AsStore!Keep
  <2> QED BY <2>3 DEF AsStore!Next
<1> QED BY <1>4, <1>5, <1>6
\* A call that fails leaves everything as it was.
LEMMA FailKeeps ==
  ASSUME NEW L, NEW C, Holds(L, C), fd = <<>>, NEW code, Fails(code)
  PROVE  AsStore!Fails(code)
<1>1. Layout(fat, content, L, C) /\ Shown(content, L, C)
  BY DEF Holds
<1>2. fat' = fat /\ content' = content /\ fd' = <<>> /\ res' = code /\ out' = <<>>
  BY DEF Fails, disk, Returns
<1>3. Tree' = Tree /\ Handle = <<>> /\ Handle' = <<>>
  BY <1>1, <1>2, DiskKept, NoHandle, NoHandleNext
<1> QED BY <1>2, <1>3 DEF AsStore!Fails, AsStore!Returns, AsStore!Keep

LEMMA MkdirSteps ==
  ASSUME NEW L, NEW C, Holds(L, C), ~Fills, NEW path \in Paths, fs_mkdir(path)
  PROVE  AsStore!Mkdir(path) \/ MakesNothing
<1>1. Layout(fat, content, L, C) /\ Shown(content, L, C)
  BY DEF Holds
<1>2. fd = <<>> /\ Handle = <<>>
  BY NoHandle DEF fs_mkdir
<1> DEFINE clus == parse_path(path)  name == Last(path)
<1>3. CASE clus = 0 /\ Fails(-1)
  <2>1. AsStore!Fails(-1)
    BY <1>2, <1>3, FailKeeps
  <2>2. ~AsStore!Reached(path)
    BY <1>1, <1>3, ReachedIs
  <2> QED BY <2>1, <2>2 DEF AsStore!Mkdir
<1>4. CASE Located(path) # NoLoc /\ Fails(-2)
  <2>1. AsStore!Fails(-2)
    BY <1>2, <1>4, FailKeeps
  <2>2. AsStore!Exists(path) /\ clus # 0
    BY <1>1, <1>4, ExistsIs, LocatedInLayout
  <2>3. AsStore!Reached(path)
    BY <1>1, <2>2, ReachedIs
  <2> QED BY <2>1, <2>2, <2>3 DEF AsStore!Mkdir
<1>5. CASE clus # 0 /\ Located(path) = NoLoc
  <2>1. path # <<>>
    BY <1>1, <1>5, ParsedPath
  <2>2. AsStore!Reached(path) /\ ~AsStore!Exists(path)
    BY <1>1, <1>5, <2>1, ReachedIs, MissingIs
  <2>3. ASSUME create_entry(clus, name, TRUE), res' = 0, out' = <<>>, fd' = fd
        PROVE  AsStore!Mkdir(path)
    <3> DEFINE loc == FreeSlot(clus)  M == L \cup {loc}  D == With(L, C, loc, Claimed)
               is_dir == TRUE
    <3>1. /\ loc # NoLoc
          /\ \A h : Deed(content, L, C, fat', content', M, D, h)
          /\ Leads(content', M, D, path, Len(path), loc)
          /\ Word(content', loc) = NewEntry(name, is_dir, 0)
      <4>1. is_dir \in BOOLEAN /\ create_entry(clus, name, is_dir)
        BY <2>3
      <4> HIDE DEF is_dir
      <4> QED BY <1>1, <1>5, <4>1, Makes
    <3> HIDE DEF loc, D, name
    <3>2. Deed(content, L, C, fat', content', M, D, loc)
      BY <3>1
    <3>3. AsStore!Put(path, NodeOf(content', D, loc))
      <4>1. /\ path \in Paths \ {<<>>}
            /\ loc \in M /\ L \subseteq M /\ \A l \in M : l \in L \/ l = loc
        BY <2>1
      <4> HIDE DEF M
      <4> QED BY <1>1, <3>1, <3>2, <4>1, TreePut
    <3>4. Layout(fat', content', M, D) /\ loc \in M \ {NoLoc}
      BY <3>1, <3>2 DEF Deed
    <3> HIDE DEF M
    <3>5. NodeOf(content', D, loc) = [dir |-> TRUE, data |-> <<>>]
      <4>1. is_dir \in BOOLEAN
        OBVIOUS
      <4> HIDE DEF is_dir
      <4>2. NodeOf(content', D, loc) = [dir |-> is_dir, data |-> <<>>]
        BY <3>1, <3>4, <4>1, NewNode
      <4> QED BY <4>2 DEF is_dir
    <3>6. AsStore!Put(path, [dir |-> TRUE, data |-> <<>>])
      BY <3>3, <3>5
    <3>7. Handle' = <<>>
      BY <1>2, <2>3, NoHandleNext
    <3> QED BY <1>2, <2>2, <2>3, <3>6, <3>7 DEF AsStore!Mkdir, AsStore!Returns
  <2>4. ASSUME CreateLost(clus, TRUE)
        PROVE  MakesNothing
    <3>1. Tree' = Tree
      <4> DEFINE is_dir == TRUE
      <4>1. is_dir \in BOOLEAN /\ CreateLost(clus, is_dir)
        BY <2>4
      <4> HIDE DEF is_dir
      <4> QED BY <1>1, <1>5, <4>1, LostIsNothing
    <3>2. ~new_entry /\ NoSlotFor(path)
      BY <1>5, <2>4 DEF CreateLost, NoSlotFor
    <3> QED BY <2>1, <3>1, <3>2 DEF MakesNothing
  <2>5. ASSUME CreateRefused(clus, TRUE), res' = -3, out' = <<>>, fd' = fd
        PROVE  AsStore!Mkdir(path)
    <3>1. Tree' = Tree
      <4> DEFINE is_dir == TRUE
      <4>1. is_dir \in BOOLEAN /\ CreateRefused(clus, is_dir)
        BY <2>5
      <4> HIDE DEF is_dir
      <4> QED BY <1>1, <1>5, <4>1, LostIsNothing
    <3>2. Handle' = <<>>
      BY <1>2, <2>5, NoHandleNext
    <3>3. AsStore!Fails(-3)
      BY <1>2, <2>5, <3>1, <3>2 DEF AsStore!Fails, AsStore!Returns, AsStore!Keep
    <3> QED BY <2>2, <3>3 DEF AsStore!Mkdir
  <2> QED BY <1>3, <1>4, <1>5, <2>3, <2>4, <2>5 DEF fs_mkdir, Returns, Fails
<1> QED BY <1>3, <1>4, <1>5 DEF fs_mkdir

\* Of one that is not, a slot is neither never used nor removed.
LEMMA NotEmptyFound ==
  ASSUME fat \in Tables, NEW clus \in 0 .. NoClus, ~is_dir_empty(clus)
  PROVE  LET s == resolve_chain(fat, clus)
         IN  \E k \in Places(s) : At(Slot(s, k)) \notin {Zero, Deleted}
<1>1. PICK s \in Seq(Clusters) :
        /\ s = resolve_chain(fat, clus)
        /\ Slots(fat, clus) \in Seq(Locs)
        /\ DOMAIN Slots(fat, clus) = Places(s)
        /\ Places(s) \subseteq Nat
        /\ \A k \in Places(s) : Slots(fat, clus)[k] = Slot(s, k)
  BY SlotsSeen
<1> DEFINE hits(t) == {k \in DOMAIN t : At(t[k]) # Deleted}
           t0 == Slots(fat, clus)
           loc == IF hits(t0) = {} THEN NoLoc ELSE t0[Min(hits(t0))]
<1>2. loc # NoLoc /\ At(loc) # Zero
  BY <1>1 DEF is_dir_empty, FirstSlot
<1>3. hits(t0) = {k \in Places(s) : At(Slot(s, k)) # Deleted}
  BY <1>1
<1> HIDE DEF hits, t0
<1>4. hits(t0) # {} /\ hits(t0) \subseteq Nat
  BY <1>1, <1>2, <1>3
<1> DEFINE m == Min(hits(t0))
<1>5. m \in hits(t0)
  BY <1>4, LeastIs
<1>6. loc = t0[m]
  BY <1>4
<1> HIDE DEF m
<1>7. m \in Places(s) /\ loc = Slot(s, m) /\ At(Slot(s, m)) # Deleted
  BY <1>1, <1>3, <1>5, <1>6 DEF t0
<1> QED BY <1>1, <1>2, <1>7

\* A directory is found empty when it has no entry.
LEMMA EmptyIs ==
  ASSUME NEW L, NEW C, Layout(fat, content, L, C), Shown(content, L, C),
         NEW path \in Paths, Located(path) # NoLoc, At(Located(path)).dir
  PROVE  is_dir_empty(At(Located(path)).clus) <=> AsStore!Children(path) = {}
<1> DEFINE loc == Located(path)  s == C[loc]  clus == At(loc).clus
<1>1. /\ loc \in L \ {NoLoc} /\ Leads(content, L, C, path, Len(path), loc)
  BY LocatedInLayout
<1> HIDE DEF loc
<1>2. /\ IsDir(content, loc) /\ clus \in 0 .. NoClus
      /\ resolve_chain(fat, clus) = s /\ fat \in Tables
  <2>1. fat \in Tables
    BY DEF Layout, Typed
  <2>2. /\ (IsDir(content, loc) <=> At(loc).dir) /\ clus \in Clusters
        /\ resolve_chain(fat, clus) = s
    BY <1>1, EntryHere
  <2> QED BY <2>1, <2>2, Clusters1 DEF loc
<1>3. \A k \in Places(s) : At(Slot(s, k)) = Word(content, Slot(s, k))
  BY DEF At, Word
<1>4. ASSUME is_dir_empty(clus), NEW k \in Places(s), IsEntry(Word(content, Slot(s, k)))
      PROVE  FALSE
  <2>1. Word(content, Slot(s, k)) \notin {Zero, Deleted}
    BY <1>4 DEF IsEntry
  <2>2. \E m \in Places(s) : m <= k /\ Word(content, Slot(s, m)) = Zero
    BY <1>2, <1>3, <1>4, <2>1, EmptyFound
  <2>3. PICK m \in Places(s) : m <= k /\ Word(content, Slot(s, m)) = Zero
    BY <2>2
  <2>4. m < k
    BY <2>1, <2>3 DEF Places
  <2> QED BY <1>1, <1>2, <2>1, <2>3, <2>4 DEF Layout, ZerosLast
<1>5. ASSUME ~is_dir_empty(clus)
      PROVE  \E k \in Places(s) : IsEntry(Word(content, Slot(s, k)))
  <2>1. PICK k \in Places(s) : At(Slot(s, k)) \notin {Zero, Deleted}
    BY <1>2, <1>5, NotEmptyFound
  <2>2. Word(content, Slot(s, k)) \in Entries
    BY <1>1, <1>2, <1>3, <2>1 DEF Layout, Clean
  <2> QED BY <2>2, EntryType
<1>6. ASSUME is_dir_empty(clus)
      PROVE  AsStore!Children(path) = {}
  BY <1>1, <1>4, <1>6, ChildIsInDirectory
<1>7. ASSUME ~is_dir_empty(clus)
      PROVE  AsStore!Children(path) # {}
  <2>1. PICK k \in Places(s) : IsEntry(Word(content, Slot(s, k)))
    BY <1>5, <1>7
  <2> QED BY <1>1, <1>2, <2>1, EntryIsChild
<1> QED BY <1>6, <1>7 DEF loc

LEMMA RemoveSteps ==
  ASSUME NEW L, NEW C, Holds(L, C), NEW path \in Paths, fs_remove(path) \/ fs_rmdir(path)
  PROVE  AsStore!RemoveFile(path) \/ AsStore!RemoveDir(path)
<1>1. Layout(fat, content, L, C) /\ Shown(content, L, C)
  BY DEF Holds
<1>2. fd = <<>> /\ Handle = <<>>
  BY NoHandle DEF fs_remove, fs_rmdir
<1>3. \A code : Fails(code) => AsStore!Fails(code)
  BY <1>2, FailKeeps
<1>4. ASSUME Located(path) # NoLoc, Erase(Located(path)),
             At(Located(path)).dir => is_dir_empty(At(Located(path)).clus)
      PROVE  AsStore!Removes(path)
  <2> DEFINE loc == Located(path)
  <2>1. loc \in L \ {NoLoc} /\ path \in DOMAIN Tree
    BY <1>1, <1>4, ExistsIs
  <2> HIDE DEF loc
  <2>2. \A q : Deed(content, L, C, fat', content', L \ {loc}, Without(L, C, loc), q)
    BY <1>1, <1>4, <2>1, Erases DEF loc
  <2>3. Deed(content, L, C, fat', content', L \ {loc}, Without(L, C, loc), loc)
    BY <2>2
  <2>4. AsStore!Drop(path)
    BY <1>1, <2>1, <2>3, TreeDrop DEF AsStore!Drop, loc
  <2>5. fd' = <<>> /\ res' = 0 /\ out' = <<>>
    BY <1>2, <1>4 DEF Erase, Returns
  <2>6. Handle' = <<>>
    BY <2>5, NoHandleNext
  <2> QED BY <1>2, <2>4, <2>5, <2>6 DEF AsStore!Removes, AsStore!Returns
<1>5. parse_path(path) # 0 <=> AsStore!Reached(path)
  BY <1>1, ReachedIs
<1>6. Located(path) # NoLoc =>
        /\ path # <<>> /\ AsStore!Exists(path) /\ AsStore!Reached(path)
        /\ (AsStore!IsDir(path) <=> At(Located(path)).dir)
        /\ At(Located(path)).dir =>
             (is_dir_empty(At(Located(path)).clus) <=> AsStore!Children(path) = {})
  BY <1>1, <1>5, ExistsIs, LocatedInLayout, EmptyIs
<1>7. path # <<>> /\ Located(path) = NoLoc => ~AsStore!Exists(path)
  BY <1>1, MissingIs
<1>8. CASE fs_remove(path)
  <2>1. CASE parse_path(path) = 0 /\ Fails(-3)
    BY <1>3, <1>5, <2>1 DEF AsStore!RemoveFile
  <2>2. CASE parse_path(path) # 0 /\ Located(path) = NoLoc /\ Fails(-2)
    <3>1. path # <<>>
      BY <1>1, <2>2, ParsedPath
    <3> QED BY <1>3, <1>5, <1>7, <2>2, <3>1 DEF AsStore!RemoveFile
  <2>3. CASE Located(path) # NoLoc /\ At(Located(path)).dir /\ Fails(-4)
    BY <1>3, <1>6, <2>3 DEF AsStore!RemoveFile
  <2>4. CASE Located(path) # NoLoc /\ ~At(Located(path)).dir /\ Erase(Located(path))
    BY <1>4, <1>6, <2>4 DEF AsStore!RemoveFile
  <2> QED BY <1>8, <2>1, <2>2, <2>3, <2>4 DEF fs_remove
<1>9. CASE fs_rmdir(path)
  <2>1. CASE path = <<>> /\ Fails(-5)
    BY <1>3, <2>1 DEF AsStore!RemoveDir
  <2>2. CASE path # <<>> /\ parse_path(path) = 0 /\ Fails(-3)
    BY <1>3, <1>5, <2>2 DEF AsStore!RemoveDir
  <2>3. CASE path # <<>> /\ parse_path(path) # 0 /\ Located(path) = NoLoc /\ Fails(-2)
    BY <1>3, <1>5, <1>7, <2>3 DEF AsStore!RemoveDir
  <2>4. CASE Located(path) # NoLoc /\ ~At(Located(path)).dir /\ Fails(-4)
    BY <1>3, <1>6, <2>4 DEF AsStore!RemoveDir
  <2>5. CASE /\ Located(path) # NoLoc /\ At(Located(path)).dir
             /\ is_dir_empty(At(Located(path)).clus) /\ Erase(Located(path))
    BY <1>4, <1>6, <2>5 DEF AsStore!RemoveDir
  <2>6. CASE /\ Located(path) # NoLoc /\ At(Located(path)).dir
             /\ ~is_dir_empty(At(Located(path)).clus) /\ Fails(-6)
    BY <1>3, <1>6, <2>6 DEF AsStore!RemoveDir
  <2> QED BY <1>9, <2>1, <2>2, <2>3, <2>4, <2>5, <2>6 DEF fs_rmdir
<1> QED BY <1>8, <1>9
\* What is done with a handle to a file that has no entry does nothing.
LEMMA WriteStays ==
  ASSUME NEW h \in FileRec, fd # <<>>, fd[1] = h, NEW buffer, NEW word, fs_write(buffer, word)
  PROVE  fd' # <<>> /\ fd'[1].loc = h.loc
<1>1. CASE fd' = fd
  BY <1>1
<1>2. ASSUME NEW chain, NEW pos, NEW size,
             fd' = <<[h EXCEPT !.chain = chain, !.pos = pos, !.size = size]>>
      PROVE  fd' # <<>> /\ fd'[1].loc = h.loc
  <2>1. [h EXCEPT !.chain = chain, !.pos = pos, !.size = size].loc = h.loc
    BY DEF FileRec
  <2> QED BY <1>2, <2>1
<1>3. fd' = fd \/ \E chain, pos, size :
                  fd' = <<[h EXCEPT !.chain = chain, !.pos = pos, !.size = size]>>
  BY Zenon DEF fs_write, OnDirectory, OfNothing
<1> QED BY <1>1, <1>2, <1>3, Zenon

\* A write to a file that has no entry changes nothing that a path leads to.
LEMMA NowhereWrites ==
  ASSUME NEW L, NEW C, Holds(L, C), new_entry \in BOOLEAN, ~Fills, EntryIsNowhere,
         NEW buffer \in Seq(Data), NEW word, fs_write(buffer, word)
  PROVE  MakesNothing
<1>1. /\ Layout(fat, content, L, C) /\ Shown(content, L, C)
      /\ Handled(fat, content, L, C, fd) /\ fd # <<>>
  BY DEF Holds, EntryIsNowhere
<1>2. PICK D : Goes(L, C, L, D)
  BY WriteGoes
<1>3. Deed(content, L, C, fat', content', L, D, OpenLoc(fd'))
  BY <1>2 DEF Goes
<1>4. PICK h \in FileRec : fd = <<h>>
  BY <1>1 DEF Handled
<1>5. fd # <<>> /\ fd[1] = h /\ h.loc[1] = EOC
  BY <1>1, <1>4 DEF EntryIsNowhere
<1>6. fd' # <<>> /\ fd'[1].loc = h.loc
  BY <1>5, WriteStays
<1>7. OpenLoc(fd')[1] = EOC
  BY <1>5, <1>6 DEF OpenLoc
<1>8. OpenLoc(fd') \notin L \ {NoLoc}
  <2> SUFFICES ASSUME OpenLoc(fd') \in L \ {NoLoc} PROVE FALSE
    OBVIOUS
  <2>1. OpenLoc(fd') \in Clusters \X (1 .. Cells)
    BY <1>1, PlaceIsHeld
  <2>2. OpenLoc(fd')[1] \in Clusters
    BY <2>1
  <2> QED BY <1>7, <2>2, Clusters1
<1>9. Tree' = Tree
  BY <1>1, <1>3, <1>8, SameTree
<1> QED BY <1>9 DEF MakesNothing

LEMMA NowhereSteps ==
  ASSUME NEW L, NEW C, Holds(L, C), new_entry \in BOOLEAN, ~Fills, Next, EntryIsNowhere
  PROVE  MakesNothing
<1>1. /\ Layout(fat, content, L, C) /\ Shown(content, L, C)
      /\ Handled(fat, content, L, C, fd) /\ fd # <<>>
  BY DEF Holds, EntryIsNowhere
<1>2. ASSUME fat' = fat, content' = content
      PROVE  MakesNothing
  BY <1>1, <1>2, DiskKept DEF MakesNothing
<1>3. ASSUME NEW path \in Paths, fs_stat(path)
      PROVE  MakesNothing
  BY <1>2, <1>3 DEF fs_stat, disk
<1>4. ASSUME NEW cnt \in Counts, fs_read(cnt)
      PROVE  MakesNothing
  BY <1>1, <1>2, <1>4, Reads
<1>5. CASE fs_readdir
  BY <1>1, <1>2, <1>5, Lists
<1>6. CASE fs_close \/ fs_init
  BY <1>2, <1>6 DEF fs_close, fs_init, disk
<1>7. ASSUME NEW buffer \in Buffers, NEW word \in Beyond, fs_write(buffer, word)
      PROVE  MakesNothing
  BY <1>7, NowhereWrites
<1>8. ~\E path \in Paths : \/ \E flags \in Flags : fs_open(path, flags)
                          \/ fs_mkdir(path) \/ fs_remove(path) \/ fs_rmdir(path)
  BY <1>1 DEF fs_open, fs_mkdir, fs_remove, fs_rmdir
<1> QED BY <1>3, <1>4, <1>5, <1>6, <1>7, <1>8 DEF Next

------------------------------------------------------------------------------
(* Reading and writing: cluster by cluster is cell by cell *)

\* Where the i-th cluster's part of the cells from + 1 .. end begins and ends.
Lower(from, i) == IF i = from \div Cells THEN from ELSE i * Cells
Upper(end, i) == IF i = (end - 1) \div Cells THEN end ELSE i * Cells + Cells

LEMMA PartBounds ==
  ASSUME NEW from \in Nat, NEW end \in Nat, from < end,
         NEW i \in Nat, from \div Cells <= i, i <= (end - 1) \div Cells
  PROVE  LET base == i * Cells  lower == Lower(from, i)  upper == Upper(end, i)
         IN  /\ base \in Nat /\ lower \in Nat /\ upper \in Nat
             /\ StartOffset(from, i) = lower - base /\ EndOffset(end, i) = upper - base
             /\ base <= lower /\ lower < upper /\ upper <= base + Cells
             /\ from <= lower /\ upper <= end
<1> DEFINE p == from \div Cells  r == from % Cells  q == (end - 1) \div Cells
           base == i * Cells  lower == Lower(from, i)  upper == Upper(end, i)
           lo == Cells * p  hi == q * Cells
<1>1. p \in Nat /\ r \in 0 .. Cells - 1 /\ from = lo + r
  BY Division
<1>2. /\ q \in Nat /\ hi < end /\ end <= hi + Cells
      /\ (IF end % Cells # 0 THEN end % Cells ELSE Cells) = end - hi
  <2>1. end \in Nat \ {0}
    OBVIOUS
  <2> QED BY <2>1, LastPart
<1>3. lower = IF i = p THEN from ELSE base
  BY DEF Lower
<1>4. upper = IF i = q THEN end ELSE base + Cells
  BY DEF Upper
<1>5. StartOffset(from, i) = IF i = p THEN r ELSE 0
  BY DEF StartOffset
<1>6. EndOffset(end, i) = IF i = q THEN end - hi ELSE Cells
  BY <1>2 DEF EndOffset
<1>7. p <= i /\ i <= q
  OBVIOUS
<1> HIDE DEF p, r, q, lower, upper
<1>8. /\ base \in Nat /\ lo \in Nat /\ hi \in Nat /\ (i + 1) * Cells = base + Cells
      /\ (i = p => base = lo) /\ (i = q => base = hi)
  BY <1>1, <1>2
<1>9. ASSUME i > p
       PROVE  base >= lo + Cells
  <2>1. (p + 1) * Cells <= i * Cells /\ (p + 1) * Cells = Cells * p + Cells
    BY <1>1, <1>9
  <2> QED BY <2>1
<1>10. ASSUME i < q
       PROVE  base + Cells <= hi
  <2>1. (i + 1) * Cells <= q * Cells /\ (i + 1) * Cells = i * Cells + Cells
    BY <1>2, <1>10
  <2> QED BY <2>1
<1> HIDE DEF lo, hi, base
<1>11. StartOffset(from, i) = lower - base /\ base <= lower /\ lower \in Nat /\ from <= lower
  <2>1. CASE i = p
    BY <1>1, <1>3, <1>5, <1>8, <2>1
  <2>2. CASE i # p
    <3>1. base >= lo + Cells
      BY <1>1, <1>7, <1>9, <2>2
    <3> QED BY <1>1, <1>3, <1>5, <1>8, <2>2, <3>1
  <2> QED BY <2>1, <2>2
<1>12. EndOffset(end, i) = upper - base /\ upper <= base + Cells /\ upper \in Nat /\ upper <= end
  <2>1. CASE i = q
    BY <1>2, <1>4, <1>6, <1>8, <2>1
  <2>2. CASE i # q
    <3>1. base + Cells <= hi
      BY <1>2, <1>7, <1>10, <2>2
    <3> QED BY <1>2, <1>4, <1>6, <1>8, <2>2, <3>1
  <2> QED BY <2>1, <2>2
<1>13. lower < upper
  <2>1. CASE i = p /\ i = q
    BY <1>3, <1>4, <2>1
  <2>2. CASE i = p /\ i # q
    BY <1>1, <1>3, <1>4, <1>8, <2>2
  <2>3. CASE i # p /\ i = q
    BY <1>2, <1>3, <1>4, <1>8, <2>3
  <2>4. CASE i # p /\ i # q
    BY <1>3, <1>4, <1>8, <2>4
  <2> QED BY <2>1, <2>2, <2>3, <2>4
<1> QED BY <1>8, <1>11, <1>12, <1>13 DEF base, lower, upper

\* The clusters that have a part, in their order: the parts meet.
Meet(n, ix, from, end) ==
  /\ n \in Nat \ {0} /\ ix \in [1 .. n -> Nat] /\ Len(ix) = n
  /\ Lower(from, ix[1]) = from /\ Upper(end, ix[n]) = end
  /\ \A k \in 1 .. n : from \div Cells <= ix[k] /\ ix[k] <= (end - 1) \div Cells
  /\ \A k \in 1 .. n - 1 : Upper(end, ix[k]) = Lower(from, ix[k + 1])

LEMMA PartsMeet ==
  ASSUME NEW from \in Nat, NEW end \in Nat, from < end
  PROVE  \E n : Meet(n, Indices(from, end), from, end)
<1> DEFINE p == from \div Cells  e == end - 1  q == e \div Cells  n == q - p + 1
           ix == Indices(from, end)
<1>1. e \in Nat /\ from <= e
  OBVIOUS
<1>2. p \in Nat /\ q \in Nat /\ p <= q
  <2> HIDE DEF e
  <2> QED BY <1>1, QuotientsInOrder
<1>3. ix = [k \in 1 .. n |-> p + k - 1]
  BY DEF Indices
<1>4. Lower(from, p) = from /\ Upper(end, q) = end
  BY DEF Lower, Upper
<1>5. \A i \in Nat : p <= i /\ i < q => Upper(end, i) = Lower(from, i + 1)
  <2> SUFFICES ASSUME NEW i \in Nat, p <= i, i < q
               PROVE  Upper(end, i) = Lower(from, i + 1)
    OBVIOUS
  <2>1. i # q /\ i + 1 # p
    BY <1>2
  <2>2. i * Cells + Cells = (i + 1) * Cells
    OBVIOUS
  <2>3. Upper(end, i) = i * Cells + Cells
    BY <2>1 DEF Upper
  <2>4. Lower(from, i + 1) = (i + 1) * Cells
    BY <2>1 DEF Lower
  <2> QED BY <2>2, <2>3, <2>4
<1> HIDE DEF p, q, ix
<1>6. n \in Nat \ {0} /\ ix \in [1 .. n -> Nat] /\ Len(ix) = n
  <2>1. n \in Nat \ {0}
    BY <1>2
  <2>2. \A k \in 1 .. n : p + k - 1 \in Nat
    BY <1>2
  <2> HIDE DEF n
  <2> QED BY <1>3, <2>1, <2>2
<1>7. /\ \A k \in 1 .. n : ix[k] = p + k - 1
      /\ ix[1] = p /\ ix[n] = q
  BY <1>2, <1>3
<1>8. \A k \in 1 .. n : p <= ix[k] /\ ix[k] <= q
  BY <1>2, <1>7
<1>9. ASSUME NEW k \in 1 .. n - 1
      PROVE  Upper(end, ix[k]) = Lower(from, ix[k + 1])
  <2>1. k \in 1 .. n /\ k + 1 \in 1 .. n
    BY <1>2
  <2>2. ix[k] = p + k - 1 /\ ix[k + 1] = ix[k] + 1 /\ ix[k] \in Nat /\ p <= ix[k] /\ ix[k] < q
    BY <1>2, <1>7, <2>1
  <2> QED BY <1>5, <2>2
<1> HIDE DEF n
<1> QED BY <1>4, <1>6, <1>7, <1>8, <1>9 DEF Meet, p, q, ix

\* Pieces that meet, one behind the other.
LEMMA PiecesFlattened ==
  ASSUME NEW S, NEW n \in Nat \ {0}, NEW seqs \in [1 .. n -> Seq(S)], NEW v,
         NEW lower, NEW upper,
         \A k \in 1 .. n : Piece(seqs[k], v, lower[k], upper[k]),
         \A k \in 1 .. n - 1 : upper[k] = lower[k + 1]
  PROVE  FlattenSeq(seqs) \in Seq(S) /\ Piece(FlattenSeq(seqs), v, lower[1], upper[n])
<1>1. PICK g : IsFlattening(g, n, S, seqs)
  BY Flattening
<1> DEFINE T == {i \in Nat : i + 1 <= n => Piece(g[i + 1], v, lower[1], upper[i + 1])}
<1>2. 0 \in T
  <2>1. 1 \in 1 .. n /\ g[1] = seqs[1]
    BY <1>1 DEF IsFlattening
  <2> QED BY <2>1
<1>3. ASSUME NEW i \in Nat, i \in T
      PROVE  i + 1 \in T
  <2> SUFFICES ASSUME (i + 1) + 1 <= n
               PROVE  Piece(g[(i + 1) + 1], v, lower[1], upper[(i + 1) + 1])
    OBVIOUS
  <2> DEFINE m == i + 1
  <2>1. m \in 1 .. n - 1 /\ m \in 1 .. n /\ m + 1 \in 1 .. n
    OBVIOUS
  <2>2. Piece(g[m], v, lower[1], upper[m])
    BY <1>3
  <2> HIDE DEF m
  <2>3. g[m + 1] = g[m] \o seqs[m + 1] /\ g[m] \in Seq(S) /\ seqs[m + 1] \in Seq(S)
    BY <1>1, <2>1 DEF IsFlattening
  <2>4. Piece(seqs[m + 1], v, upper[m], upper[m + 1])
    BY <2>1
  <2>5. Piece(g[m] \o seqs[m + 1], v, lower[1], upper[m + 1])
    BY <2>2, <2>3, <2>4, PiecesJoined
  <2> QED BY <2>3, <2>5 DEF m
<1>4. Nat \subseteq T
  <2> HIDE DEF T
  <2> QED BY <1>2, <1>3, Induction
<1>5. n - 1 \in T /\ (n - 1) + 1 = n
  <2> HIDE DEF T
  <2>1. n - 1 \in Nat
    OBVIOUS
  <2> QED BY <1>4, <2>1
<1>6. n \in 1 .. n /\ FlattenSeq(seqs) = g[n] /\ g[n] \in Seq(S)
  BY <1>1 DEF IsFlattening
<1>7. Piece(g[n], v, lower[1], upper[n])
  BY <1>5
<1> QED BY <1>6, <1>7

\* The m-th cell of the i-th cluster of a chain.
LEMMA SlotAt ==
  ASSUME NEW s \in Seq(Clusters), NEW i \in Nat, i < Len(s), NEW m \in 1 .. Cells
  PROVE  /\ i * Cells + m \in Places(s)
         /\ Slot(s, i * Cells + m) = <<s[i + 1], m>>
<1> DEFINE base == i * Cells  n == Len(s)
<1>1. base \in Nat /\ n \in Nat /\ n * Cells \in Nat
  OBVIOUS
<1>2. base + Cells <= n * Cells
  <2>1. i + 1 <= n
    OBVIOUS
  <2> HIDE DEF n
  <2>2. (i + 1) * Cells <= n * Cells /\ (i + 1) * Cells = base + Cells
    BY <1>1, <2>1
  <2> QED BY <2>2
<1>3. m - 1 \in Nat /\ m - 1 < Cells /\ (m - 1) + 1 = m
  OBVIOUS
<1> DEFINE r == m - 1
<1>4. (base + r) \div Cells = i /\ (base + r) % Cells = r
  <2> HIDE DEF r
  <2> QED BY <1>3, FromParts DEF r
<1>5. (base + m) - 1 = base + r
  BY <1>1
<1> HIDE DEF base, r
<1>6. Slot(s, base + m) = <<s[i + 1], r + 1>>
  BY <1>4, <1>5 DEF Slot
<1>7. base + m \in 1 .. n * Cells
  <2> HIDE DEF n
  <2> QED BY <1>1, <1>2
<1> QED BY <1>3, <1>6, <1>7 DEF base, r, n, Places

LEMMA ClusterIsSeq ==
  ASSUME NEW cells \in [1 .. Cells -> Cell]
  PROVE  cells \in Seq(Cell) /\ Len(cells) = Cells
<1>1. Cells \in Nat
  OBVIOUS
<1>2. cells \in Seq(Cell)
  BY <1>1
<1> QED BY <1>1, <1>2

\* The data of a file, and the part of it a cluster gives.
TextOf(c, s, size) == [k \in 1 .. size |-> Word(c, Slot(s, k))]

LEMMA PartRead ==
  ASSUME content \in Disks, NEW s \in Seq(Clusters), NEW size \in Nat, size <= Len(s) * Cells,
         NEW from \in Nat, NEW end \in Nat, from < end, end <= size,
         NEW i \in Nat, from \div Cells <= i, i <= (end - 1) \div Cells
  PROVE  LET part == SubSeq(CellsOf(s, i), StartOffset(from, i) + 1, EndOffset(end, i))
         IN  part \in Seq(Cell) /\ Piece(part, TextOf(content, s, size), Lower(from, i), Upper(end, i))
<1> DEFINE base == i * Cells  lower == Lower(from, i)  upper == Upper(end, i)
           start == StartOffset(from, i)  stop == EndOffset(end, i)
           cells == CellsOf(s, i)  part == SubSeq(cells, start + 1, stop)
<1>1. /\ base \in Nat /\ lower \in Nat /\ upper \in Nat
      /\ start = lower - base /\ stop = upper - base
      /\ base <= lower /\ lower < upper /\ upper <= base + Cells
      /\ from <= lower /\ upper <= end
  BY PartBounds
<1>2. i < Len(s)
  <2> DEFINE a == end - 1  n == Len(s)
  <2>1. a \in Nat /\ n \in Nat /\ a < n * Cells
    OBVIOUS
  <2>2. i <= a \div Cells
    OBVIOUS
  <2> HIDE DEF a, n
  <2>3. a \div Cells < n /\ a \div Cells \in Nat
    BY <2>1, QuotientBelow, Division
  <2>4. i < n
    BY <2>1, <2>2, <2>3
  <2> QED BY <2>4 DEF n
<1>3. s[i + 1] \in Clusters /\ cells = content[s[i + 1]] /\ cells \in [1 .. Cells -> Cell]
  <2>1. i + 1 \in 1 .. Len(s) /\ s[i + 1] \in Clusters
    BY <1>2
  <2>2. cells = content[s[i + 1]]
    BY <1>2, <2>1 DEF CellsOf
  <2> QED BY <2>1, <2>2 DEF Disks
<1> HIDE DEF base, lower, upper, start, stop, cells
<1>4. cells \in Seq(Cell) /\ Len(cells) = Cells
  BY <1>3, ClusterIsSeq
<1>5. start \in Nat /\ stop \in Nat /\ start <= stop /\ stop <= Cells
  BY <1>1
<1>6. part \in Seq(Cell) /\ Piece(part, cells, start, stop)
  BY <1>4, <1>5, PieceOf
<1> HIDE DEF part
<1>7. ASSUME NEW j \in 1 .. upper - lower
      PROVE  part[j] = TextOf(content, s, size)[lower + j]
  <2> DEFINE m == start + j
  <2>1. j \in 1 .. stop - start /\ m \in 1 .. Cells /\ lower + j = base + m
        /\ lower + j \in 1 .. size
    BY <1>1
  <2>2. part[j] = cells[m]
    BY <1>6, <2>1 DEF Piece
  <2> HIDE DEF m
  <2>3. Slot(s, base + m) = <<s[i + 1], m>>
    BY <1>2, <2>1, SlotAt DEF base
  <2>4. Word(content, Slot(s, base + m)) = cells[m]
    BY <1>3, <2>3 DEF Word
  <2> QED BY <2>1, <2>2, <2>4 DEF TextOf
<1>8. Len(part) = upper - lower /\ lower <= upper
  <2>1. Len(part) = stop - start
    BY <1>6, Zenon DEF Piece
  <2> QED BY <1>1, <2>1
<1>9. Piece(part, TextOf(content, s, size), lower, upper)
  BY <1>1, <1>7, <1>8 DEF Piece
<1> QED BY <1>6, <1>9 DEF part, cells, start, stop, lower, upper

\* What fs_read gives is what the file holds there.
LEMMA GotIs ==
  ASSUME NEW L, NEW C, Layout(fat, content, L, C),
         NEW h \in FileRec, Held(content, L, C, h), ~h.dir, h.pos <= h.size, NEW cnt \in Nat
  PROVE  LET data == TextOf(content, C[h.loc], h.size)
             last == IF h.pos + cnt < h.size THEN h.pos + cnt ELSE h.size
         IN  /\ Got(h, cnt) = SubSeq(data, h.pos + 1, last)
             /\ last \in Nat /\ h.pos <= last /\ last <= h.size /\ Len(data) = h.size
             /\ Len(Got(h, cnt)) = last - h.pos
<1> DEFINE s == C[h.loc]  pos == h.pos  size == h.size
           data == TextOf(content, s, size)
           last == IF pos + cnt < size THEN pos + cnt ELSE size
           end == Min({pos + cnt, size})
           ix == Indices(pos, end)
           part(i) == SubSeq(CellsOf(h.chain, i), StartOffset(pos, i) + 1, EndOffset(end, i))
           parts == [k \in DOMAIN ix |-> part(ix[k])]
<1>1. pos \in Nat /\ size \in Nat /\ pos <= size
  BY DEF FileRec
<1>2. /\ content \in Disks /\ s \in Seq(Clusters) /\ h.chain = s
      /\ h.loc \in L \ {NoLoc} /\ size = Word(content, h.loc).size
  BY ChainFacts DEF Held, Layout, Typed, IsDir
<1>3. size <= Len(s) * Cells
  BY <1>2, NodeData
<1>4. Got(h, cnt) = IF pos = size \/ cnt = 0 THEN <<>> ELSE FlattenSeq(parts)
  BY DEF Got
<1> HIDE DEF pos, size, s
<1>5. last \in Nat /\ pos <= last /\ last <= size
  BY <1>1
<1>6. end = last
  <2>1. pos + cnt \in Nat /\ {pos + cnt, size} \subseteq Nat /\ {pos + cnt, size} # {}
    BY <1>1
  <2>2. end \in {pos + cnt, size} /\ end <= pos + cnt /\ end <= size
    BY <2>1, LeastIs
  <2> HIDE DEF end
  <2> QED BY <1>1, <2>1, <2>2
<1> HIDE DEF end, last
<1>7. /\ data \in Seq(Cell) /\ Len(data) = size
      /\ \A k \in 1 .. size : data[k] = Word(content, Slot(s, k))
  <2>1. \A k \in 1 .. size : Word(content, Slot(s, k)) \in Cell
    <3> SUFFICES ASSUME NEW k \in 1 .. size
                 PROVE  Word(content, Slot(s, k)) \in Cell
      OBVIOUS
    <3>1. k \in Places(s)
      <4> DEFINE n == Len(s) * Cells
      <4>1. n \in Nat /\ size <= n
        <5>1. Len(s) \in Nat
          BY <1>2
        <5> QED BY <1>3, <5>1
      <4> HIDE DEF n
      <4>2. k \in 1 .. n
        BY <1>1, <4>1
      <4> QED BY <4>2 DEF Places, n
    <3> QED BY <1>2, <3>1, SlotIsHeld DEF s
  <2> QED BY <1>1, <2>1 DEF TextOf
<1> DEFINE got == SubSeq(data, pos + 1, last)
<1>8. got \in Seq(Cell) /\ Piece(got, data, pos, last)
  <2> HIDE DEF data
  <2> QED BY <1>1, <1>5, <1>7, PieceOf
<1>9. Len(got) = last - pos
  BY <1>8 DEF Piece
<1>10. Got(h, cnt) = got
  <2>1. CASE pos = size \/ cnt = 0
    <3>1. last = pos
      BY <1>1, <2>1 DEF last
    <3>2. got = <<>>
      <4> HIDE DEF got
      <4> QED BY <1>1, <1>8, <1>9, <3>1
    <3> QED BY <1>4, <2>1, <3>2
  <2>2. CASE ~(pos = size \/ cnt = 0)
    <3>1. pos < end /\ end \in Nat /\ end <= size
      BY <1>1, <1>5, <1>6, <2>2 DEF last
    <3>2. PICK n : Meet(n, ix, pos, end)
      BY <1>1, <3>1, PartsMeet
    <3> DEFINE lower == [k \in 1 .. n |-> Lower(pos, ix[k])]
               upper == [k \in 1 .. n |-> Upper(end, ix[k])]
    <3>3. ASSUME NEW k \in 1 .. n
          PROVE  /\ part(ix[k]) \in Seq(Cell)
                 /\ Piece(part(ix[k]), data, Lower(pos, ix[k]), Upper(end, ix[k]))
      <4>1. ix[k] \in Nat /\ pos \div Cells <= ix[k] /\ ix[k] <= (end - 1) \div Cells
        BY <3>2 DEF Meet
      <4> HIDE DEF ix
      <4> QED BY <1>1, <1>2, <1>3, <3>1, <4>1, PartRead
    <3> HIDE DEF part, data, ix
    <3>4. parts \in [1 .. n -> Seq(Cell)] /\ \A k \in 1 .. n : parts[k] = part(ix[k])
      <4>1. DOMAIN ix = 1 .. n
        BY <3>2 DEF Meet
      <4> QED BY <3>3, <4>1
    <3> HIDE DEF parts
    <3>5. \A k \in 1 .. n : Piece(parts[k], data, lower[k], upper[k])
      BY <3>3, <3>4
    <3>6. \A k \in 1 .. n - 1 : upper[k] = lower[k + 1]
      BY <3>2 DEF Meet
    <3>7. lower[1] = pos /\ upper[n] = end
      BY <3>2 DEF Meet
    <3> HIDE DEF lower, upper
    <3>8. FlattenSeq(parts) \in Seq(Cell) /\ Piece(FlattenSeq(parts), data, pos, end)
      <4>1. /\ FlattenSeq(parts) \in Seq(Cell)
            /\ Piece(FlattenSeq(parts), data, lower[1], upper[n])
        BY <3>2, <3>4, <3>5, <3>6, PiecesFlattened DEF Meet
      <4> QED BY <3>7, <4>1
    <3> HIDE DEF got
    <3>9. FlattenSeq(parts) = got
      BY <1>6, <1>8, <3>8, SamePiece
    <3> QED BY <1>4, <2>2, <3>9
  <2> QED BY <2>1, <2>2
<1> QED BY <1>5, <1>7, <1>9, <1>10 DEF data, last, s, pos, size

\* A file is not read or written behind its end.
Within == fd # <<>> /\ ~EntryIsNowhere /\ ~fd[1].dir => fd[1].pos <= fd[1].size

\* An open file, in FileStore's words.
LEMMA OpenFileIs ==
  ASSUME NEW L, NEW C, Holds(L, C), NEW h \in FileRec, fd = <<h>>, Held(content, L, C, h), ~h.dir
  PROVE  \E path \in Paths \ {<<>>} :
           /\ Leads(content, L, C, path, Len(path), h.loc)
           /\ path \in DOMAIN Tree /\ ~AsStore!IsDir(path)
           /\ Tree[path].data = TextOf(content, C[h.loc], h.size)
           /\ Handle = <<[path |-> path, pos |-> h.pos, listed |-> {}]>>
<1>1. Layout(fat, content, L, C) /\ h.loc \in L \ {NoLoc} /\ ~IsDir(content, h.loc)
  BY DEF Holds, Held, IsDir
<1>2. PICK path \in Paths : /\ Leads(content, L, C, path, Len(path), h.loc)
                           /\ Handle = <<HandleOf(content, C, path, h)>>
  BY OpenIs
<1>3. path # <<>>
  <2>1. Len(path) \in Nat /\ (path = <<>> => Len(path) = 0)
    OBVIOUS
  <2> QED BY <1>1, <1>2, <2>1, LedByNone
<1>4. Located(path) = h.loc /\ path \in DOMAIN Tree /\ Tree[path] = NodeOf(content, C, h.loc)
  BY <1>1, <1>2, <1>3, TreeNow DEF TreeFacts, TreeIs
<1>5. ~AsStore!IsDir(path)
  BY <1>1, <1>2, DirIs
<1>6. Tree[path].data = TextOf(content, C[h.loc], h.size)
  <2>1. h.size = Word(content, h.loc).size /\ ~Word(content, h.loc).dir
    BY <1>1 DEF Held, IsDir
  <2>2. NodeOf(content, C, h.loc) =
          [dir |-> Word(content, h.loc).dir,
           data |-> IF Word(content, h.loc).dir THEN <<>>
                    ELSE [k \in 1 .. Word(content, h.loc).size |->
                            Word(content, Slot(C[h.loc], k))]]
    BY <1>1, NodeData
  <2> QED BY <1>4, <2>1, <2>2 DEF TextOf
<1>7. HandleOf(content, C, path, h) = [path |-> path, pos |-> h.pos, listed |-> {}]
  BY DEF HandleOf
<1> QED BY <1>2, <1>3, <1>4, <1>5, <1>6, <1>7

\* The handle after reading, writing or listing, and where it is then.
LEMMA HandleMoves ==
  ASSUME NEW M, NEW D, Layout(fat', content', M, D),
         NEW o \in FileRec, fd' = <<o>>, Held(content', M, D, o),
         NEW path \in Paths, Leads(content', M, D, path, Len(path), o.loc)
  PROVE  Handle' = <<HandleOf(content', D, path, o)>>
BY HandleNext DEF HandleFacts, HandleIs

LEMMA FileHandleMoves ==
  ASSUME NEW M, NEW D, Layout(fat', content', M, D),
         NEW o \in FileRec, fd' = <<o>>, Held(content', M, D, o), ~o.dir,
         NEW path \in Paths, Leads(content', M, D, path, Len(path), o.loc)
  PROVE  Handle' = <<[path |-> path, pos |-> o.pos, listed |-> {}]>>
<1>1. HandleOf(content', D, path, o) = [path |-> path, pos |-> o.pos, listed |-> {}]
  BY DEF HandleOf
<1> QED BY <1>1, HandleMoves

\* What is asked of a directory that is for files fails.
LEMMA OnDirectorySteps ==
  ASSUME NEW L, NEW C, Holds(L, C), OnDirectory
  PROVE  /\ Tree' = Tree /\ Handle' = Handle /\ Handle # <<>> /\ AsStore!IsDir(Handle[1].path)
         /\ res' = -1 /\ out' = <<>> /\ fd' = fd
<1>1. /\ Layout(fat, content, L, C) /\ Shown(content, L, C)
      /\ Handled(fat, content, L, C, fd)
  BY DEF Holds
<1>2. /\ fd # <<>> /\ fd[1].dir /\ fd' = fd /\ fat' = fat /\ content' = content
      /\ res' = -1 /\ out' = <<>>
  BY DEF OnDirectory, disk, Returns
<1>3. PICK h \in FileRec : fd = <<h>> /\ (Held(content, L, C, h) \/ Adrift(fat, L, C, h))
  BY <1>1, <1>2 DEF Handled
<1>4. Held(content, L, C, h) /\ h.dir
  BY <1>2, <1>3 DEF Adrift
<1>5. PICK path \in Paths : /\ Leads(content, L, C, path, Len(path), h.loc)
                           /\ Handle = <<HandleOf(content, C, path, h)>>
  BY <1>3, <1>4, OpenIs
<1>6. h.loc \in L /\ IsDir(content, h.loc)
  BY <1>4 DEF Held
<1>7. AsStore!IsDir(path)
  BY <1>1, <1>5, <1>6, DirIs
<1>8. Handle # <<>> /\ Handle[1].path = path
  BY <1>5 DEF HandleOf
<1>9. Tree' = Tree /\ Handle' = Handle
  BY <1>1, <1>2, DiskKept, HandleKept
<1> QED BY <1>2, <1>7, <1>8, <1>9

\* A handle of the store.
HandleAt(path, pos, listed) == [path |-> path, pos |-> pos, listed |-> listed]
MovedTo(h, pos) == [h EXCEPT !.pos = pos]
ListedTo(h, listed) == [h EXCEPT !.listed = listed]

LEMMA MovedOn ==
  ASSUME NEW path, NEW pos, NEW listed, NEW next
  PROVE  /\ MovedTo(HandleAt(path, pos, listed), next) = HandleAt(path, next, listed)
         /\ ListedTo(HandleAt(path, pos, listed), next) = HandleAt(path, pos, next)
<1> DEFINE h == HandleAt(path, pos, listed)
<1>1. h \in [path : {path}, pos : {pos}, listed : {listed}]
  BY DEF HandleAt
<1> HIDE DEF h
<1>2. [h EXCEPT !.pos = next] \in [path : {path}, pos : {next}, listed : {listed}]
  BY <1>1
<1>3. [h EXCEPT !.listed = next] \in [path : {path}, pos : {pos}, listed : {next}]
  BY <1>1
<1>4. [h EXCEPT !.pos = next] = [path |-> path, pos |-> next, listed |-> listed]
  BY <1>2
<1>5. [h EXCEPT !.listed = next] = [path |-> path, pos |-> pos, listed |-> next]
  BY <1>3
<1> QED BY <1>4, <1>5 DEF h, MovedTo, ListedTo, HandleAt

LEMMA ReadSteps ==
  ASSUME NEW L, NEW C, Holds(L, C), ~EntryIsNowhere, Within, NEW cnt \in Counts, fs_read(cnt)
  PROVE  AsStore!Next /\ Within'
<1>1. /\ Layout(fat, content, L, C) /\ Shown(content, L, C)
      /\ Handled(fat, content, L, C, fd)
  BY DEF Holds
<1>2. CASE OnDirectory
  <2>1. /\ Tree' = Tree /\ Handle' = Handle /\ Handle # <<>> /\ AsStore!IsDir(Handle[1].path)
        /\ res' = -1 /\ out' = <<>> /\ fd' = fd
    BY <1>2, OnDirectorySteps
  <2>2. AsStore!Read(cnt)
    BY <2>1 DEF AsStore!Read, AsStore!Returns, AsStore!Keep
  <2>3. Within'
    BY <2>1 DEF Within, EntryIsNowhere
  <2> QED BY <2>2, <2>3 DEF AsStore!Next
<1>3. CASE fd # <<>> /\ ~fd[1].dir
  <2>1. PICK h \in FileRec : fd = <<h>> /\ (Held(content, L, C, h) \/ Adrift(fat, L, C, h))
    BY <1>1, <1>3 DEF Handled
  <2>2. fd[1] = h /\ ~h.dir /\ Held(content, L, C, h) /\ h.pos <= h.size
    <3>1. fd[1] = h /\ ~h.dir /\ h.pos <= h.size
      BY <1>3, <2>1 DEF Within
    <3>2. Held(content, L, C, h)
      BY <1>3, <2>1, <3>1 DEF Adrift, EntryIsNowhere
    <3> QED BY <3>1, <3>2
  <2> DEFINE got == Got(h, cnt)  n == h.pos + Len(got)  o == [h EXCEPT !.pos = n]
             data == TextOf(content, C[h.loc], h.size)
             last == IF h.pos + cnt < h.size THEN h.pos + cnt ELSE h.size
  <2>3. fat' = fat /\ content' = content /\ res' = Len(got) /\ out' = got /\ fd' = <<o>>
    BY <1>3, <2>2 DEF fs_read, OnDirectory, disk, Returns
  <2>4. cnt \in Nat /\ h.pos \in Nat /\ h.size \in Nat
    BY DEF FileRec
  <2>5. /\ got = SubSeq(data, h.pos + 1, last)
        /\ last \in Nat /\ h.pos <= last /\ last <= h.size /\ Len(data) = h.size
        /\ Len(got) = last - h.pos
    BY <1>1, <2>2, <2>4, GotIs, ZenonT(40)
  <2> HIDE DEF got, data
  <2>6. n \in Nat /\ n <= h.size
    <3> HIDE DEF last
    <3>1. h.pos + Len(got) = last
      BY <2>4, <2>5
    <3> QED BY <2>5, <3>1
  <2> HIDE DEF n
  <2>7. /\ o \in FileRec /\ o.chain = h.chain /\ o.dir = h.dir /\ o.size = h.size
        /\ o.loc = h.loc /\ o.pos = n
    BY <2>6 DEF FileRec
  <2> HIDE DEF o
  <2>8. Held(content, L, C, o)
    BY <2>2, <2>7 DEF Held
  <2>9. PICK path \in Paths \ {<<>>} :
           /\ Leads(content, L, C, path, Len(path), h.loc)
           /\ path \in DOMAIN Tree /\ ~AsStore!IsDir(path)
           /\ Tree[path].data = data
           /\ Handle = <<[path |-> path, pos |-> h.pos, listed |-> {}]>>
    BY <2>1, <2>2, OpenFileIs DEF data
  <2>10. Tree' = Tree /\ Handle' = <<[path |-> path, pos |-> n, listed |-> {}]>>
    <3>1. /\ Layout(fat', content', L, C) /\ Held(content', L, C, o)
          /\ Leads(content', L, C, path, Len(path), o.loc)
      BY <1>1, <2>3, <2>7, <2>8, <2>9
    <3> QED BY <1>1, <2>2, <2>3, <2>7, <2>9, <3>1, DiskKept, FileHandleMoves
  <2>11. AsStore!Read(cnt)
    <3>1. PICK hh : hh = [path |-> path, pos |-> h.pos, listed |-> {}]
      OBVIOUS
    <3>2. Handle # <<>> /\ Handle[1] = hh
      BY <2>9, <3>1
    <3>3. hh.path = path /\ hh.pos = h.pos /\ n = hh.pos + Len(got)
      BY <3>1 DEF n
    <3>4. [hh EXCEPT !.pos = n] = [path |-> path, pos |-> n, listed |-> {}]
      <4>1. hh = HandleAt(path, h.pos, {})
        BY <3>1 DEF HandleAt
      <4>2. MovedTo(hh, n) = HandleAt(path, n, {})
        BY <4>1, MovedOn
      <4> QED BY <4>2 DEF MovedTo, HandleAt
    <3>5. [hh EXCEPT !.pos = hh.pos + Len(got)] = [path |-> path, pos |-> n, listed |-> {}]
      BY <3>3, <3>4
    <3>6. last = IF hh.pos + cnt < Len(data) THEN hh.pos + cnt ELSE Len(data)
      BY <2>5, <3>3
    <3> HIDE DEF last
    <3> QED BY <2>3, <2>5, <2>9, <2>10, <3>2, <3>3, <3>5, <3>6
         DEF AsStore!Read, AsStore!Returns
  <2>12. Within'
    BY <2>3, <2>6, <2>7 DEF Within
  <2> QED BY <2>11, <2>12 DEF AsStore!Next
<1> QED BY <1>2, <1>3 DEF fs_read

\* What a cluster holds after its part of the buffer was written to it.
Mixed(old, buffer, start, stop, done) ==
  SubSeq(old, 1, start) \o SubSeq(buffer, done + 1, done + stop - start)
    \o SubSeq(old, stop + 1, Cells)
IsMixed(old, buffer, start, stop, done) ==
  \A m \in 1 .. Cells :
    Mixed(old, buffer, start, stop, done)[m]
      = IF start < m /\ m <= stop THEN buffer[done + m - start] ELSE old[m]

LEMMA ReplacedCell ==
  ASSUME NEW old \in [1 .. Cells -> Cell], NEW buffer \in Seq(Data),
         NEW start \in 0 .. Cells, NEW stop \in 0 .. Cells, start <= stop,
         NEW done \in Nat, done + stop - start <= Len(buffer)
  PROVE  IsMixed(old, buffer, start, stop, done)
<1> SUFFICES ASSUME NEW m \in 1 .. Cells
             PROVE  Mixed(old, buffer, start, stop, done)[m]
                      = IF start < m /\ m <= stop THEN buffer[done + m - start] ELSE old[m]
  BY DEF IsMixed
<1> DEFINE a == SubSeq(old, 1, start)  b == SubSeq(buffer, done + 1, done + stop - start)
           z == SubSeq(old, stop + 1, Cells)
<1>1. old \in Seq(Cell) /\ Len(old) = Cells
  OBVIOUS
<1>2. a \in Seq(Cell) /\ Len(a) = start /\ \A j \in 1 .. start : a[j] = old[j]
  BY <1>1
<1>3. z \in Seq(Cell) /\ Len(z) = Cells - stop /\ \A j \in 1 .. Cells - stop : z[j] = old[stop + j]
  <2>1. z \in Seq(Cell) /\ Piece(z, old, stop, Cells)
    BY <1>1, PieceOf
  <2> QED BY <2>1 DEF Piece
<1>4. b \in Seq(Data) /\ Len(b) = stop - start
      /\ \A j \in 1 .. stop - start : b[j] = buffer[done + j]
  <2> DEFINE last == done + stop - start
  <2>1. last \in Nat /\ done <= last /\ last <= Len(buffer) /\ last - done = stop - start
    OBVIOUS
  <2> HIDE DEF last
  <2>2. SubSeq(buffer, done + 1, last) \in Seq(Data)
        /\ Piece(SubSeq(buffer, done + 1, last), buffer, done, last)
    BY <2>1, PieceOf
  <2> QED BY <2>1, <2>2 DEF Piece, last
<1>5. Data \subseteq Cell
  BY DEF Cell
<1> HIDE DEF a, b, z
<1>6. b \in Seq(Cell)
  BY <1>4, <1>5
<1>7. a \o b \in Seq(Cell) /\ Len(a \o b) = stop
  <2>1. a \in Seq(Cell) /\ Len(a) = start /\ Len(b) = stop - start
    BY <1>2, <1>4
  <2>2. a \in Seq(Cell)
    BY <2>1
  <2>3. a \o b \in Seq(Cell) /\ Len(a \o b) = Len(a) + Len(b)
    BY <1>6, <2>2
  <2> QED BY <2>1, <2>3
<1> DEFINE mixed == Mixed(old, buffer, start, stop, done)
<1>8. mixed = a \o b \o z
  BY DEF Mixed, a, b, z
<1> HIDE DEF mixed
<1>9. CASE m <= start
  <2>1. (a \o b)[m] = a[m]
    BY <1>2, <1>6, <1>9
  <2>2. (a \o b \o z)[m] = (a \o b)[m]
    BY <1>3, <1>7, <1>9
  <2> QED BY <1>2, <1>9, <1>8, <2>1, <2>2 DEF mixed
<1>10. CASE start < m /\ m <= stop
  <2>1. (a \o b)[m] = b[m - start]
    BY <1>2, <1>4, <1>6, <1>10
  <2>2. (a \o b \o z)[m] = (a \o b)[m]
    BY <1>3, <1>7, <1>10
  <2>3. m - start \in 1 .. stop - start /\ done + (m - start) = done + m - start
    BY <1>10
  <2> QED BY <1>4, <1>10, <1>8, <2>1, <2>2, <2>3 DEF mixed
<1>11. CASE stop < m
  <2> DEFINE w == a \o b
  <2>1. w \in Seq(Cell) /\ Len(w) = stop
    BY <1>7
  <2> HIDE DEF w
  <2>2. m - stop \in 1 .. Cells - stop /\ stop + (m - stop) = m
    BY <1>11
  <2>3. (w \o z)[m] = z[m - stop]
    BY <1>3, <1>11, <2>1
  <2>4. (a \o b \o z)[m] = z[m - stop]
    BY <2>3 DEF w
  <2> QED BY <1>3, <1>11, <1>8, <2>4, <2>2 DEF mixed
<1> QED BY <1>9, <1>10, <1>11

LEMMA ClusterHolds ==
  ASSUME NEW t, NEW pos, NEW buffer, Fits(t, pos, buffer),
         NEW d \in Disks, NEW i, HasPart(pos, buffer, i), NEW m \in 1 .. Cells
  PROVE  LET k == i * Cells + m  end == pos + Len(buffer)
         IN  /\ i + 1 \in 1 .. Len(t) /\ t[i + 1] \in Clusters
             /\ WriteCluster(d, t, pos, buffer, i)[t[i + 1]][m]
                  = IF Lower(pos, i) < k /\ k <= Upper(end, i) THEN buffer[k - pos]
                    ELSE content[t[i + 1]][m]
             /\ \A x \in Clusters : x # t[i + 1] =>
                  WriteCluster(d, t, pos, buffer, i)[x] = d[x]
<1> DEFINE len == Len(buffer)  end == pos + len  base == i * Cells  k == base + m
           lower == Lower(pos, i)  upper == Upper(end, i)
           done == IF i = pos \div Cells THEN 0 ELSE i * Cells - pos
           start == StartOffset(pos, i)
           stop == EndOffset(end, i)
           old == CellsOf(t, i)
           cells == Mixed(old, buffer, start, stop, done)
           e == WriteCluster(d, t, pos, buffer, i)
<1>1. /\ len \in Nat \ {0} /\ pos \in Nat /\ i \in Nat /\ pos \div Cells <= i
      /\ i <= (pos + len - 1) \div Cells /\ t \in Seq(Clusters) /\ content \in Disks
      /\ end <= Len(t) * Cells /\ buffer \in Seq(Data)
  BY DEF Fits, HasPart
<1>2. /\ start \in 0 .. Cells /\ stop \in 0 .. Cells /\ start <= stop
      /\ done \in Nat /\ done + stop - start <= len
  <2> HIDE DEF len
  <2> QED BY <1>1, PartIsThere
<1>3. i < Len(t)
  <2> DEFINE a == end - 1  n == Len(t)
  <2>1. a \in Nat /\ n \in Nat /\ a < n * Cells
    BY <1>1
  <2>2. i <= a \div Cells
    BY <1>1
  <2> HIDE DEF a, n
  <2>3. a \div Cells < n /\ a \div Cells \in Nat
    BY <2>1, QuotientBelow, Division
  <2>4. i < n
    BY <1>1, <2>1, <2>2, <2>3
  <2> QED BY <2>4 DEF n
<1>4. i + 1 \in 1 .. Len(t) /\ t[i + 1] \in Clusters
  BY <1>1, <1>3
<1>5. old = content[t[i + 1]] /\ old \in [1 .. Cells -> Cell]
  BY <1>1, <1>3, <1>4 DEF CellsOf, Disks
<1>6. e = [d EXCEPT ![t[i + 1]] = cells]
  BY <1>4 DEF WriteCluster, write_clus, Mixed
<1>7. /\ base \in Nat /\ lower \in Nat /\ upper \in Nat
      /\ start = lower - base /\ stop = upper - base
      /\ base <= lower /\ lower < upper /\ upper <= base + Cells
      /\ pos <= lower /\ upper <= end
  <2>1. end \in Nat /\ pos < end /\ i <= (end - 1) \div Cells
    BY <1>1
  <2> HIDE DEF end
  <2> QED BY <1>1, <2>1, PartBounds
<1>8. done - start = base - pos
  <2>1. lower = IF i = pos \div Cells THEN pos ELSE base
    BY DEF Lower
  <2> HIDE DEF start, lower
  <2>2. CASE i = pos \div Cells
    BY <1>1, <1>7, <2>1, <2>2
  <2>3. CASE i # pos \div Cells
    BY <1>1, <1>7, <2>1, <2>3
  <2> QED BY <2>2, <2>3
<1> HIDE DEF lower, upper, base, done, start, stop, old, end, len
<1>9. cells[m] = IF start < m /\ m <= stop THEN buffer[done + m - start] ELSE old[m]
  <2>1. done + stop - start <= Len(buffer) /\ buffer \in Seq(Data)
    BY <1>1, <1>2 DEF len
  <2>2. IsMixed(old, buffer, start, stop, done)
    BY <1>2, <1>5, <2>1, ReplacedCell
  <2> QED BY <2>2 DEF IsMixed
<1> HIDE DEF cells, e
<1>10. e[t[i + 1]] = cells /\ \A x \in Clusters : x # t[i + 1] => e[x] = d[x]
  BY <1>4, <1>6 DEF Disks
<1>11. (start < m /\ m <= stop) <=> (lower < k /\ k <= upper)
  BY <1>7
<1>12. done + m - start = k - pos
  BY <1>1, <1>2, <1>7, <1>8
<1>13. e[t[i + 1]][m] = IF lower < k /\ k <= upper THEN buffer[k - pos] ELSE content[t[i + 1]][m]
  BY <1>5, <1>9, <1>10, <1>11, <1>12
<1> QED BY <1>4, <1>10, <1>13 DEF e, lower, upper, base, end, len

\* The cluster, and the cell of it, that a place of a chain is in.
IsIn(s, k, i, m) ==
  /\ i \in Nat /\ i < Len(s) /\ m \in 1 .. Cells
  /\ k = i * Cells + m /\ Slot(s, k) = <<s[i + 1], m>>

LEMMA PlaceIn ==
  ASSUME NEW s \in Seq(Clusters), NEW k \in Places(s)
  PROVE  \E i, m : IsIn(s, k, i, m)
<1> DEFINE a == k - 1  i == a \div Cells  r == a % Cells  m == r + 1
<1>1. a \in Nat /\ i + 1 \in 1 .. Len(s) /\ m \in 1 .. Cells
  BY SlotParts
<1>2. Slot(s, k) = <<s[i + 1], m>>
  BY DEF Slot
<1>3. k = a + 1 /\ k \in Nat
  BY <1>1 DEF Places
<1> HIDE DEF a
<1>4. i \in Nat /\ r \in 0 .. Cells - 1 /\ a = Cells * i + r
  BY <1>1, Division
<1> HIDE DEF i, r
<1>5. i < Len(s)
  BY <1>1, <1>4
<1>6. k = i * Cells + m
  <2>1. Cells * i = i * Cells /\ i * Cells \in Nat
    BY <1>4
  <2> QED BY <1>3, <1>4, <2>1
<1> HIDE DEF m
<1>7. IsIn(s, k, i, m)
  BY <1>1, <1>2, <1>4, <1>5, <1>6 DEF IsIn
<1> QED BY <1>7

\* The disk d has the buffer's part of the chain t up to the place to.
HasUpTo(d, t, pos, buffer, to) ==
  \A k \in Places(t) :
    Word(d, Slot(t, k)) =
      IF pos < k /\ k <= to THEN buffer[k - pos] ELSE Word(content, Slot(t, k))

LEMMA OnePartMore ==
  ASSUME NEW t, NEW pos, NEW buffer, Fits(t, pos, buffer), IsInjective(t),
         NEW d \in Disks, NEW i, HasPart(pos, buffer, i),
         HasUpTo(d, t, pos, buffer, Lower(pos, i))
  PROVE  HasUpTo(WriteCluster(d, t, pos, buffer, i), t, pos, buffer,
                 Upper(pos + Len(buffer), i))
<1> DEFINE end == pos + Len(buffer)  base == i * Cells
           lower == Lower(pos, i)  upper == Upper(end, i)
           e == WriteCluster(d, t, pos, buffer, i)
<1>1. t \in Seq(Clusters) /\ pos \in Nat /\ i \in Nat /\ end \in Nat
  BY DEF Fits, HasPart
<1>2. /\ base \in Nat /\ lower \in Nat /\ upper \in Nat
      /\ base <= lower /\ lower < upper /\ upper <= base + Cells /\ pos <= lower
      /\ (lower = pos \/ lower = base)
  <2>1. end \in Nat /\ pos < end /\ i <= (end - 1) \div Cells /\ pos \div Cells <= i
    BY DEF Fits, HasPart
  <2>2. lower = IF i = pos \div Cells THEN pos ELSE base
    BY DEF Lower
  <2> HIDE DEF end
  <2>3. /\ base \in Nat /\ lower \in Nat /\ upper \in Nat
        /\ base <= lower /\ lower < upper /\ upper <= base + Cells /\ pos <= lower
    BY <1>1, <2>1, PartBounds
  <2> QED BY <2>2, <2>3
<1>3. ASSUME NEW k \in Places(t)
      PROVE  Word(e, Slot(t, k)) =
               IF pos < k /\ k <= upper THEN buffer[k - pos] ELSE Word(content, Slot(t, k))
  <2>1. PICK c, m : IsIn(t, k, c, m)
    BY <1>1, PlaceIn
  <2>2. /\ c \in Nat /\ c < Len(t) /\ m \in 1 .. Cells
        /\ k = c * Cells + m /\ Slot(t, k) = <<t[c + 1], m>>
    BY <2>1 DEF IsIn
  <2>3. c + 1 \in 1 .. Len(t) /\ t[c + 1] \in Clusters
    BY <1>1, <2>2
  <2>4. Word(content, Slot(t, k)) = content[t[c + 1]][m] /\ Word(e, Slot(t, k)) = e[t[c + 1]][m]
        /\ Word(d, Slot(t, k)) = d[t[c + 1]][m]
    BY <2>2 DEF Word
  <2>5. /\ i + 1 \in 1 .. Len(t)
        /\ e[t[i + 1]][m]
             = IF lower < base + m /\ base + m <= upper THEN buffer[(base + m) - pos]
               ELSE content[t[i + 1]][m]
        /\ \A x \in Clusters : x # t[i + 1] => e[x] = d[x]
    BY <2>2, ClusterHolds
  <2> HIDE DEF lower, upper, e, end
  <2>6. CASE c = i
    <3>1. k = base + m /\ base < k
      BY <1>2, <2>2, <2>6
    <3> HIDE DEF base
    <3>2. (lower < k /\ k <= upper) <=> (pos < k /\ k <= upper)
      BY <1>1, <1>2, <2>2, <3>1
    <3>3. e[t[i + 1]][m] = IF lower < k /\ k <= upper THEN buffer[k - pos]
                           ELSE content[t[i + 1]][m]
      BY <2>5, <3>1
    <3> QED BY <2>4, <2>6, <3>2, <3>3
  <2>7. CASE c # i
    <3>1. t[c + 1] # t[i + 1]
      BY <1>1, <2>2, <2>3, <2>5, <2>7 DEF IsInjective
    <3>2. Word(e, Slot(t, k)) = Word(d, Slot(t, k))
      BY <2>3, <2>4, <2>5, <3>1
    <3>3. Word(d, Slot(t, k)) =
            IF pos < k /\ k <= lower THEN buffer[k - pos] ELSE Word(content, Slot(t, k))
      BY DEF HasUpTo, lower
    <3>4. k <= base \/ k > base + Cells
      <4>1. CASE c < i
        <5>1. (c + 1) * Cells <= i * Cells /\ (c + 1) * Cells = c * Cells + Cells
              /\ c * Cells \in Nat
          BY <1>1, <2>2, <4>1
        <5> QED BY <1>2, <2>2, <5>1
      <4>2. CASE c > i
        <5>1. (i + 1) * Cells <= c * Cells /\ (i + 1) * Cells = i * Cells + Cells
              /\ c * Cells \in Nat
          BY <1>1, <2>2, <4>2
        <5> QED BY <1>2, <2>2, <5>1
      <4> QED BY <1>1, <2>2, <2>7, <4>1, <4>2
    <3>5. k \in Nat
      BY DEF Places
    <3> HIDE DEF base
    <3>6. (pos < k /\ k <= lower) <=> (pos < k /\ k <= upper)
      BY <1>1, <1>2, <3>4, <3>5
    <3> QED BY <3>2, <3>3, <3>6
  <2> QED BY <2>6, <2>7
<1> HIDE DEF e, upper
<1>4. HasUpTo(e, t, pos, buffer, upper)
  BY <1>3 DEF HasUpTo
<1> QED BY <1>4 DEF e, upper, end

\* What the chain holds when all is written.
LEMMA AllParts ==
  ASSUME NEW t, NEW pos, NEW buffer, Fits(t, pos, buffer), IsInjective(t)
  PROVE  HasUpTo(Written(t, pos, buffer), t, pos, buffer, pos + Len(buffer))
<1> DEFINE end == pos + Len(buffer)  ix == Indices(pos, end)
<1>1. PICK put : IsWriting(put, t, pos, buffer)
  BY WrittenInSteps
<1>2. pos \in Nat /\ end \in Nat /\ pos < end
  BY DEF Fits
<1>3. PICK n : Meet(n, ix, pos, end)
  <2> HIDE DEF end
  <2> QED BY <1>2, PartsMeet
<1>4. /\ n \in Nat \ {0} /\ Len(ix) = n
      /\ Lower(pos, ix[1]) = pos /\ Upper(end, ix[n]) = end
      /\ \A k \in 1 .. n - 1 : Upper(end, ix[k]) = Lower(pos, ix[k + 1])
  BY <1>3 DEF Meet
<1>5. /\ put[0] = content /\ Written(t, pos, buffer) = put[n]
      /\ \A k \in 0 .. n : put[k] \in Disks
      /\ \A k \in 1 .. n : /\ HasPart(pos, buffer, ix[k])
                          /\ put[k] = WriteCluster(put[k - 1], t, pos, buffer, ix[k])
  BY <1>1, <1>4 DEF IsWriting
<1> HIDE DEF ix
<1>6. ASSUME NEW k \in 1 .. n, HasUpTo(put[k - 1], t, pos, buffer, Lower(pos, ix[k]))
      PROVE  HasUpTo(put[k], t, pos, buffer, Upper(end, ix[k]))
  <2>1. k - 1 \in 0 .. n
    BY <1>4
  <2>2. put[k - 1] \in Disks /\ HasPart(pos, buffer, ix[k])
        /\ put[k] = WriteCluster(put[k - 1], t, pos, buffer, ix[k])
    BY <1>5, <2>1
  <2> QED BY <1>6, <2>2, OnePartMore
<1> HIDE DEF end
<1> DEFINE T == {i \in Nat : i + 1 <= n =>
                   HasUpTo(put[i + 1], t, pos, buffer, Upper(end, ix[i + 1]))}
<1>7. 0 \in T
  <2>1. HasUpTo(content, t, pos, buffer, pos)
    <3>1. \A k \in Places(t) : ~(pos < k /\ k <= pos)
      BY <1>2 DEF Places
    <3> QED BY <3>1 DEF HasUpTo
  <2>2. 1 \in 1 .. n /\ 1 - 1 = 0
    BY <1>4
  <2>3. HasUpTo(put[1], t, pos, buffer, Upper(end, ix[1]))
    BY <1>4, <1>5, <1>6, <2>1, <2>2
  <2> QED BY <2>3
<1>8. ASSUME NEW i \in Nat, i \in T
      PROVE  i + 1 \in T
  <2> SUFFICES ASSUME (i + 1) + 1 <= n
               PROVE  HasUpTo(put[(i + 1) + 1], t, pos, buffer, Upper(end, ix[(i + 1) + 1]))
    OBVIOUS
  <2> DEFINE m == i + 1
  <2>1. m \in 1 .. n - 1 /\ m + 1 \in 1 .. n /\ (m + 1) - 1 = m
    BY <1>4
  <2>2. HasUpTo(put[m], t, pos, buffer, Upper(end, ix[m]))
    BY <1>4, <1>8
  <2> HIDE DEF m
  <2>3. Upper(end, ix[m]) = Lower(pos, ix[m + 1])
    BY <1>4, <2>1
  <2>4. HasUpTo(put[m + 1], t, pos, buffer, Upper(end, ix[m + 1]))
    BY <1>6, <2>1, <2>2, <2>3
  <2> QED BY <2>4 DEF m
<1>9. n - 1 \in T /\ (n - 1) + 1 = n
  <2> HIDE DEF T
  <2>1. Nat \subseteq T
    BY <1>7, <1>8, Induction
  <2> QED BY <1>4, <2>1
<1>10. HasUpTo(put[n], t, pos, buffer, Upper(end, ix[n]))
  BY <1>4, <1>9
<1> QED BY <1>4, <1>5, <1>10 DEF end

\* The size is written to one cell.
LEMMA SizeElsewhere ==
  ASSUME NEW d \in Disks, NEW loc, NEW size, NEW q \in Clusters \X (1 .. Cells), q # loc,
         loc \in Clusters \X (1 .. Cells)
  PROVE  Word(WithSize(d, loc, size), q) = Word(d, q)
<1> DEFINE w == [d[loc[1]][loc[2]] EXCEPT !.size = size]
<1>1. ASSUME NEW x
      PROVE  Word(Store(d, loc, x), q) = Word(d, q)
  BY DEF Disks, Store, Word
<1>2. WithSize(d, loc, size) = d \/ WithSize(d, loc, size) = Store(d, loc, w)
  BY DEF WithSize
<1> HIDE DEF w
<1> QED BY <1>1, <1>2

LEMMA TextType ==
  ASSUME NEW c, NEW s, NEW n \in Nat, \A k \in 1 .. n : Word(c, Slot(s, k)) \in Cell
  PROVE  TextOf(c, s, n) \in Seq(Cell) /\ Len(TextOf(c, s, n)) = n
BY DEF TextOf

\* What a file holds after a write.
Wrote(L, C, h, buffer, t, g, size, e, D, o) ==
  /\ WritesTo(h, buffer, h.chain, t, g, Written(t, h.pos, buffer))
  /\ size = IF h.pos + Len(buffer) > h.size THEN h.pos + Len(buffer) ELSE h.size
  /\ e = WithSize(Written(t, h.pos, buffer), h.loc, size)
  /\ Grew(L, C, D, g, e, h.loc, t, o)
  /\ o.loc = h.loc /\ ~o.dir

LEMMA TextAfter ==
  ASSUME NEW L, NEW C, Layout(fat, content, L, C),
         NEW h \in FileRec, Held(content, L, C, h), ~h.dir, h.pos <= h.size,
         NEW buffer \in Seq(Data) \ {<<>>},
         NEW t, NEW g, NEW size, NEW e, NEW D, NEW o, Wrote(L, C, h, buffer, t, g, size, e, D, o)
  PROVE  TextOf(e, t, size) = Splice(TextOf(content, C[h.loc], h.size), buffer, h.pos,
                                   h.pos + Len(buffer))
<1> DEFINE loc == h.loc  pos == h.pos  end == pos + Len(buffer)  s == C[loc]
           len == h.size  old == TextOf(content, s, len)  d == Written(t, pos, buffer)  w == TextOf(e, t, size)
<1>1. /\ Layout(g, e, L, D) /\ o \in FileRec /\ Held(e, L, D, o)
      /\ loc \in L \ {NoLoc} /\ D[loc] = t
  BY DEF Wrote, Grew
<1>2. /\ t \in Seq(Clusters) /\ IsInjective(t) /\ content \in Disks /\ d \in Disks /\ s \in Seq(Clusters)
      /\ Extends(s, t) /\ end <= Len(t) * Cells
  <2>1. t \in Seq(Clusters) /\ IsInjective(t) /\ s \in Seq(Clusters)
    BY <1>1, ChainFacts
  <2>2. h.chain = s
    BY DEF Held
  <2>3. content \in Disks /\ d \in Disks /\ Extends(s, t) /\ end <= Len(t) * Cells
    BY <2>2 DEF Wrote, WritesTo, Longer, Layout, Typed
  <2> QED BY <2>1, <2>3
<1>3. pos \in Nat /\ len \in Nat /\ pos <= len /\ end \in Nat /\ pos < end
  BY DEF FileRec
<1>4. size = IF end > len THEN end ELSE len
  BY DEF Wrote
<1>5. HasUpTo(d, t, pos, buffer, end)
  <2>1. Fits(t, pos, buffer)
    BY <1>2, <1>3 DEF Fits
  <2> QED BY <1>2, <2>1, AllParts
<1>6. loc \in Clusters \X (1 .. Cells) /\ len = Word(content, loc).size /\ ~Word(content, loc).dir
  BY <1>1, PlaceIsHeld DEF Held, IsDir
<1>7. \A k \in 1 .. len : k \in Places(s)
  <2>1. 1 .. Word(content, loc).size \subseteq Places(s)
    BY <1>1, NodeData
  <2> QED BY <1>6, <2>1
<1>8. \A k \in Places(t) : Word(e, Slot(t, k)) = Word(d, Slot(t, k))
  <2> SUFFICES ASSUME NEW k \in Places(t)
               PROVE  Word(e, Slot(t, k)) = Word(d, Slot(t, k))
    OBVIOUS
  <2> DEFINE q == Slot(t, k)
  <2>1. q \in Clusters \X (1 .. Cells) /\ \E i \in 1 .. Len(t) : q[1] = t[i]
    BY <1>2, SlotType
  <2>2. PICK dir \in L : IsDir(e, dir) /\ \E i \in 1 .. Len(D[dir]) : loc[1] = D[dir][i]
    BY <1>1, PlaceIsHeld
  <2>3. ~IsDir(e, loc)
    BY <1>1 DEF Held, Wrote
  <2>4. dir # loc
    BY <2>2, <2>3
  <2> HIDE DEF q, loc
  <2>5. q # loc
    BY <1>1, <2>1, <2>2, <2>4 DEF Layout, Apart
  <2>6. Word(e, q) = Word(d, q)
    BY <1>2, <1>6, <2>1, <2>5, SizeElsewhere DEF loc, Wrote
  <2> QED BY <2>6 DEF q
<1> HIDE DEF loc, s, d, pos, end, len
<1>9. /\ 1 .. size \subseteq Places(t) /\ size \in Nat
  <2> DEFINE n == Len(s) * Cells  m == Len(t) * Cells
  <2>1. n \in Nat /\ m \in Nat /\ n <= m
    BY <1>2, PlacesOfLonger
  <2>2. len <= n
    <3>1. len = 0 \/ len \in Places(s)
      BY <1>3, <1>7
    <3> QED BY <1>3, <2>1, <3>1 DEF Places
  <2> HIDE DEF n
  <2>3. end <= m
    BY <1>2
  <2> HIDE DEF m
  <2>4. size \in Nat /\ size <= m
    BY <1>3, <1>4, <2>1, <2>2, <2>3
  <2>5. 1 .. size \subseteq 1 .. m
    BY <2>1, <2>4
  <2> QED BY <2>4, <2>5 DEF Places, m
<1>10. ASSUME NEW k \in 1 .. size
       PROVE  w[k] = IF pos < k /\ k <= end THEN buffer[k - pos] ELSE old[k]
  <2>1. k \in Places(t) /\ w[k] = Word(d, Slot(t, k))
    BY <1>8, <1>9 DEF TextOf
  <2>2. Word(d, Slot(t, k)) =
          IF pos < k /\ k <= end THEN buffer[k - pos] ELSE Word(content, Slot(t, k))
    BY <1>5, <2>1 DEF HasUpTo
  <2>3. ASSUME ~(pos < k /\ k <= end)
        PROVE  Word(content, Slot(t, k)) = old[k]
    <3>1. k \in 1 .. len
      BY <1>3, <1>4, <1>9, <2>3
    <3>2. Slot(t, k) = Slot(s, k)
      BY <1>2, <1>7, <2>1, <3>1, SlotsOfLonger
    <3> QED BY <3>1, <3>2 DEF TextOf
  <2> QED BY <2>1, <2>2, <2>3
<1>11. old \in Seq(Cell) /\ Len(old) = len
  <2>1. \A k \in 1 .. len : Word(content, Slot(s, k)) \in Cell
    BY <1>1, <1>7, SlotIsHeld DEF s, loc
  <2> QED BY <1>3, <2>1, TextType
<1>12. w \in Seq(Cell) /\ Len(w) = size
  <2>1. \A k \in 1 .. size : Word(e, Slot(t, k)) \in Cell
    BY <1>1, <1>9, SlotIsHeld
  <2> QED BY <1>9, <2>1, TextType
<1> HIDE DEF old, w
<1>13. buffer \in Seq(Cell)
  <2>1. Data \subseteq Cell
    BY DEF Cell
  <2> QED BY <2>1
<1>14. w = Splice(old, buffer, pos, end)
  <2>1. HasAt(w, old, buffer, pos, end)
    <3>1. end = pos + Len(buffer)
      BY DEF end
    <3>2. pos <= Len(old) /\ Len(w) = (IF end > Len(old) THEN end ELSE Len(old))
      BY <1>3, <1>4, <1>11, <1>12
    <3>3. \A k \in 1 .. Len(w) : w[k] = IF pos < k /\ k <= end THEN buffer[k - pos] ELSE old[k]
      BY <1>10, <1>12
    <3> QED BY <3>1, <3>2, <3>3 DEF HasAt
  <2> QED BY <1>3, <1>11, <1>12, <1>13, <2>1, Spliced
<1> QED BY <1>14 DEF old, w, s, loc, pos, end, len

\* A write in the store's words.
Spells(L, C, D, h, o, buffer) ==
  /\ Deed(content, L, C, fat', content', L, D, h.loc)
  /\ Held(content', L, D, o) /\ fd' = <<o>>
  /\ o.loc = h.loc /\ o.pos = h.pos + Len(buffer) /\ o.pos <= o.size
  /\ TextOf(content', D[h.loc], o.size)
       = Splice(TextOf(content, C[h.loc], h.size), buffer, h.pos, o.pos)
  /\ res' = Len(buffer) /\ out' = <<>>

LEMMA WriteIsWrite ==
  ASSUME NEW L, NEW C, Holds(L, C), NEW h \in FileRec, fd = <<h>>,
         Held(content, L, C, h), ~h.dir, NEW D, NEW o \in FileRec, ~o.dir,
         NEW buffer \in Seq(Data), Spells(L, C, D, h, o, buffer)
  PROVE  AsStore!Write(buffer) /\ Within'
<1> DEFINE loc == h.loc  data == TextOf(content, C[loc], h.size)
           now == TextOf(content', D[loc], o.size)  node == [dir |-> FALSE, data |-> now]
           end == o.pos
<1>1. /\ Layout(fat, content, L, C) /\ Shown(content, L, C) /\ loc \in L
  BY DEF Holds, Held
<1>2. /\ Deed(content, L, C, fat', content', L, D, loc) /\ Layout(fat', content', L, D)
      /\ Held(content', L, D, o) /\ fd' = <<o>>
      /\ o.loc = loc /\ end = h.pos + Len(buffer) /\ end <= o.size
      /\ now = Splice(data, buffer, h.pos, end)
      /\ res' = Len(buffer) /\ out' = <<>>
  BY DEF Spells, Deed
<1>3. PICK path \in Paths \ {<<>>} :
         /\ Leads(content, L, C, path, Len(path), loc)
         /\ path \in DOMAIN Tree /\ ~AsStore!IsDir(path)
         /\ Tree[path].data = data
         /\ Handle = <<[path |-> path, pos |-> h.pos, listed |-> {}]>>
  BY OpenFileIs
<1>4. Leads(content', L, D, path, Len(path), loc)
  BY <1>1, <1>2, <1>3, LedAlike
<1>5. Handle' = <<[path |-> path, pos |-> end, listed |-> {}]>>
  BY <1>2, <1>3, <1>4, FileHandleMoves
<1>6. NodeOf(content', D, loc) = node
  <2> DEFINE e == Word(content', loc)
  <2>1. o.loc \in L /\ loc # NoLoc /\ ~e.dir /\ e.size = o.size
    BY <1>2 DEF Held, IsDir
  <2>2. NodeOf(content', D, loc) =
          [dir |-> e.dir,
           data |-> IF e.dir THEN <<>>
                    ELSE [k \in 1 .. e.size |-> Word(content', Slot(D[loc], k))]]
    <3>1. loc \in L \ {NoLoc} /\ Layout(fat', content', L, D)
      BY <1>1, <1>2, <2>1
    <3> HIDE DEF loc
    <3> QED BY <3>1, NodeData
  <2>3. e.dir = FALSE
    <3>1. e \in Entries
      BY <1>1, <1>2, <2>1, NodeData
    <3> HIDE DEF e
    <3> QED BY <2>1, <3>1, EntryType
  <2> QED BY <2>1, <2>2, <2>3 DEF TextOf
<1> HIDE DEF node, now
<1>7. AsStore!Put(path, node)
  <2>1. \A l \in L : l \in L \/ l = loc
    OBVIOUS
  <2> HIDE DEF loc
  <2>2. AsStore!Put(path, NodeOf(content', D, loc))
    BY <1>1, <1>2, <1>3, <1>4, <2>1, TreePut
  <2> QED BY <1>6, <2>2
<1>8. AsStore!Write(buffer)
  <2>1. PICK hh : hh = [path |-> path, pos |-> h.pos, listed |-> {}]
    OBVIOUS
  <2>2. Handle # <<>> /\ Handle[1] = hh
    BY <1>3, <2>1
  <2>3. hh.path = path /\ hh.pos = h.pos
    BY <2>1
  <2>4. [hh EXCEPT !.pos = end] = [path |-> path, pos |-> end, listed |-> {}]
    <3>1. hh = HandleAt(path, h.pos, {})
      BY <2>1 DEF HandleAt
    <3>2. MovedTo(hh, end) = HandleAt(path, end, {})
      BY <3>1, MovedOn
    <3> QED BY <3>2 DEF MovedTo, HandleAt
  <2>5. node = [dir |-> FALSE, data |->
                  SubSeq(data, 1, h.pos) \o buffer \o SubSeq(data, end + 1, Len(data))]
    BY <1>2 DEF node, Splice
  <2> HIDE DEF data, end
  <2>6. AsStore!Put(path, [dir |-> FALSE, data |->
                  SubSeq(data, 1, h.pos) \o buffer \o SubSeq(data, end + 1, Len(data))])
    BY <1>7, <2>5
  <2>7. Handle' = <<[hh EXCEPT !.pos = end]>>
    BY <1>5, <2>4
  <2>8. AsStore!Returns(Len(buffer), <<>>)
    BY <1>2 DEF AsStore!Returns
  <2> QED BY <1>2, <1>3, <2>2, <2>3, <2>6, <2>7, <2>8 DEF AsStore!Write
<1>9. Within'
  BY <1>2 DEF Within
<1> QED BY <1>8, <1>9

LEMMA WriteSteps ==
  ASSUME NEW L, NEW C, Holds(L, C), ~EntryIsNowhere, Within, ~Fills,
         NEW buffer \in Seq(Data), NEW word, fs_write(buffer, word)
  PROVE  AsStore!Write(buffer) /\ Within'
<1>1. /\ Layout(fat, content, L, C) /\ Shown(content, L, C)
      /\ Handled(fat, content, L, C, fd)
  BY DEF Holds
<1>2. CASE OnDirectory
  <2>1. /\ Tree' = Tree /\ Handle' = Handle /\ Handle # <<>> /\ AsStore!IsDir(Handle[1].path)
        /\ res' = -1 /\ out' = <<>> /\ fd' = fd
    BY <1>2, OnDirectorySteps
  <2>2. AsStore!Write(buffer)
    BY <2>1 DEF AsStore!Write, AsStore!Returns, AsStore!Keep
  <2>3. Within'
    BY <2>1 DEF Within, EntryIsNowhere
  <2> QED BY <2>2, <2>3
<1>3. CASE fd # <<>> /\ ~fd[1].dir
  <2>1. PICK h \in FileRec : fd = <<h>> /\ (Held(content, L, C, h) \/ Adrift(fat, L, C, h))
    BY <1>1, <1>3 DEF Handled
  <2>2. fd[1] = h /\ ~h.dir /\ Held(content, L, C, h) /\ h.pos <= h.size
    <3>1. fd[1] = h /\ ~h.dir /\ h.pos <= h.size
      BY <1>3, <2>1 DEF Within
    <3>2. Held(content, L, C, h)
      BY <1>3, <2>1, <3>1 DEF Adrift, EntryIsNowhere
    <3> QED BY <3>1, <3>2
  <2>3. h.pos \in Nat /\ h.size \in Nat /\ h.loc \in L \ {NoLoc}
    BY <2>2 DEF FileRec, Held, IsDir
  <2>4. CASE buffer = <<>> /\ OfNothing
    <3> DEFINE data == TextOf(content, C[h.loc], h.size)
    <3>1. fat' = fat /\ content' = content /\ fd' = <<h>> /\ res' = 0 /\ out' = <<>>
      BY <2>1, <2>4 DEF OfNothing, disk, Returns
    <3>2. Deed(content, L, C, fat', content', L, C, h.loc)
      <4>1. \A l \in L : Extends(C[l], C[l])
        BY <1>1, ChainFacts DEF Extends
      <4> QED BY <1>1, <3>1, <4>1, DeedOfLoose
    <3>3. data = Splice(data, buffer, h.pos, h.pos)
      <4>1. data \in Seq(Cell) /\ Len(data) = h.size
        <5>1. \A k \in 1 .. h.size : Word(content, Slot(C[h.loc], k)) \in Cell
          <6>1. h.size = Word(content, h.loc).size
            BY <2>2, <2>3 DEF Held
          <6>2. 1 .. h.size \subseteq Places(C[h.loc])
            BY <1>1, <2>3, <6>1, NodeData
          <6> QED BY <1>1, <2>3, <6>2, SlotIsHeld
        <5> QED BY <2>3, <5>1, TextType
      <4> HIDE DEF data
      <4>2. Len(buffer) = 0 /\ buffer \in Seq(Cell)
        BY <2>4
      <4>3. HasAt(data, data, buffer, h.pos, h.pos)
        BY <2>2, <2>3, <4>1, <4>2 DEF HasAt
      <4>4. h.pos \in Nat /\ data \in Seq(Cell) /\ buffer \in Seq(Cell)
        BY <2>3, <4>1, <4>2
      <4> QED BY <4>3, <4>4, Spliced
    <3>4. Len(buffer) = 0 /\ h.pos = h.pos + Len(buffer)
      BY <2>3, <2>4
    <3>5. Spells(L, C, C, h, h, buffer)
      BY <2>2, <3>1, <3>2, <3>3, <3>4 DEF Spells
    <3> QED BY <2>1, <2>2, <3>5, WriteIsWrite
  <2>5. CASE buffer # <<>> /\ ~OnDirectory
    <3> DEFINE s == h.chain  end == h.pos + Len(buffer)  need == ClustersNeeded(s, end)
               grown == Grown(s, need, word)  t == grown.chain  g == grown.fat
               d == Written(t, h.pos, buffer)
               size == Max({end, h.size})
               o == [h EXCEPT !.chain = t, !.pos = end, !.size = size]
               e == WithSize(d, h.loc, size)
    <3>1. /\ HasRoom(need) /\ fat' = g /\ content' = e /\ fd' = <<o>>
          /\ res' = Len(buffer) /\ out' = <<>>
      BY <2>2, <2>5 DEF fs_write, Returns
    <3>2. IsChain(fat, s[1], s)
      <4>1. s = C[h.loc]
        BY <2>2 DEF Held
      <4>2. IsChain(fat, Clus(content, h.loc), s)
        BY <1>1, <2>3, <4>1 DEF Layout, Chained
      <4> QED BY <4>2 DEF IsChain
    <3>3. buffer \in Seq(Data) \ {<<>>} /\ fat \in Tables /\ content \in Disks
      BY <1>1, <2>5 DEF Layout, Typed
    <3>4. WritesTo(h, buffer, s, t, g, d)
      BY <3>1, <3>2, <3>3, WriteTables
    <3>5. o \in FileRec => o.loc = h.loc /\ o.dir = h.dir /\ o.pos = end /\ o.size = size
      BY DEF FileRec
    <3>6. size >= end /\ size = IF end > h.size THEN end ELSE h.size
      <4>1. end \in Nat /\ h.size \in Nat
        BY <2>3, <3>3
      <4> HIDE DEF end
      <4> QED BY <4>1, MoreHeld
    <3> HIDE DEF t, g, o, size
    <3>7. size = Max({h.pos + Len(buffer), h.size})
          /\ o = [h EXCEPT !.chain = t, !.pos = h.pos + Len(buffer), !.size = size]
      BY DEF size, o
    <3>8. PICK D : Grew(L, C, D, g, e, h.loc, t, o)
      <4> HIDE DEF d
      <4> QED BY <1>1, <2>2, <3>3, <3>4, <3>7, WritesHeld, Zenon
    <3> HIDE DEF e
    <3>9. /\ Layout(g, e, L, D)
          /\ o \in FileRec /\ Held(e, L, D, o)
          /\ D[h.loc] = t
          /\ Deed(content, L, C, g, e, L, D, h.loc)
      BY <3>8 DEF Grew
    <3>10. o.loc = h.loc /\ ~o.dir /\ o.pos = end /\ o.size = size
      BY <2>2, <3>5, <3>9
    <3>11. TextOf(e, t, size) = Splice(TextOf(content, C[h.loc], h.size), buffer, h.pos, end)
      <4>1. e = WithSize(Written(t, h.pos, buffer), h.loc, size)
        BY DEF e
      <4>2. WritesTo(h, buffer, h.chain, t, g, Written(t, h.pos, buffer))
        BY <3>4
      <4>3. size = IF h.pos + Len(buffer) > h.size THEN h.pos + Len(buffer) ELSE h.size
        BY <3>6
      <4>4. o.loc = h.loc /\ ~o.dir
        BY <3>10
      <4>5. Wrote(L, C, h, buffer, t, g, size, e, D, o)
        BY <3>8, <4>1, <4>2, <4>3, <4>4 DEF Wrote
      <4> QED BY <1>1, <2>2, <3>3, <4>5, TextAfter
    <3>12. Spells(L, C, D, h, o, buffer)
      <4>1. o.pos <= o.size /\ o.pos = h.pos + Len(buffer)
        <5>1. end \in Nat /\ size \in Nat
          BY <2>3, <3>3, <3>9, <3>10 DEF FileRec
        <5> QED BY <3>6, <3>10, <5>1
      <4>2. TextOf(content', D[h.loc], o.size)
              = Splice(TextOf(content, C[h.loc], h.size), buffer, h.pos, o.pos)
        BY <3>1, <3>9, <3>10, <3>11
      <4> HIDE DEF end
      <4> QED BY <3>1, <3>9, <3>10, <4>1, <4>2 DEF Spells
    <3> HIDE DEF end
    <3> QED BY <2>1, <2>2, <3>9, <3>10, <3>12, WriteIsWrite
  <2>6. (buffer = <<>> /\ OfNothing) \/ (buffer # <<>> /\ ~OnDirectory)
    <3>1. ~OnDirectory
      BY <1>3 DEF OnDirectory
    <3>2. CASE buffer = <<>>
      BY <3>1, <3>2 DEF fs_write
    <3> QED BY <3>1, <3>2
  <2> QED BY <2>4, <2>5, <2>6
<1> QED BY <1>2, <1>3 DEF fs_write, OfNothing

------------------------------------------------------------------------------
(* Listing *)

LEMMA ListedIs ==
  ASSUME NEW s \in Seq(Clusters), NEW word, NEW j \in Nat, j + 1 \in Places(s)
  PROVE  Listed(s, word, j) = Word(content, Slot(s, j + 1))
<1> DEFINE i == j \div Cells  r == j % Cells
<1>1. (j + 1) - 1 = j
  OBVIOUS
<1>2. i + 1 \in 1 .. Len(s) /\ Slot(s, j + 1) = <<s[i + 1], r + 1>>
  BY <1>1, SlotParts DEF Slot
<1>3. i \in Nat
  BY Division
<1> HIDE DEF i, r
<1>4. i < Len(s) /\ s[i + 1] \in Clusters
  BY <1>2, <1>3
<1>5. Valid(s[i + 1])
  BY <1>4, Clusters1 DEF Valid
<1>6. Listed(s, word, j) = content[s[i + 1]][r + 1]
  BY <1>4, <1>5 DEF Listed, i, r
<1> QED BY <1>2, <1>6 DEF Word

\* Where the loop of fs_readdir stops.
Stops(h, word) ==
  {k \in h.pos .. Limit(h.chain) - 1 : Listed(h.chain, word, k) # Deleted}
Turn(h, word) == Min(Stops(h, word) \cup {Limit(h.chain)})

LEMMA TurnIs ==
  ASSUME NEW h \in FileRec, NEW word
  PROVE  LET k == Turn(h, word)  limit == Limit(h.chain)
         IN  /\ limit \in Nat /\ Len(h.chain) * Cells \in Nat /\ Len(h.chain) * Cells <= limit
             /\ k \in Nat /\ k <= limit
             /\ k # limit => h.pos <= k /\ Listed(h.chain, word, k) # Deleted
             /\ \A j \in Nat : h.pos <= j /\ j < k => Listed(h.chain, word, j) = Deleted
<1> DEFINE k == Turn(h, word)  limit == Limit(h.chain)  n == Len(h.chain)
<1>1. n \in Nat /\ h.pos \in Nat /\ Cells \in Nat
  BY DEF FileRec
<1>2. limit \in Nat /\ n * Cells \in Nat /\ n * Cells <= limit
  <2> HIDE DEF n
  <2>1. n * Cells \in Nat /\ (n + 1) * Cells = n * Cells + Cells
    BY <1>1
  <2> DEFINE m == n * Cells
  <2>2. limit = m + Cells
    BY <2>1 DEF Limit, n
  <2>3. m \in Nat
    BY <2>1
  <2> HIDE DEF m, limit
  <2>4. limit \in Nat /\ m <= limit
    BY <1>1, <2>2, <2>3
  <2> QED BY <2>3, <2>4 DEF m
<1> HIDE DEF n, limit
<1>3. Stops(h, word) = {j \in h.pos .. limit - 1 : Listed(h.chain, word, j) # Deleted}
  BY DEF Stops, limit
<1>4. /\ k \in Stops(h, word) \cup {limit}
      /\ \A j \in Stops(h, word) \cup {limit} : k <= j
  <2>1. Stops(h, word) \cup {limit} \subseteq Nat
    BY <1>1, <1>2, <1>3
  <2> QED BY <2>1, LeastIs DEF Turn, limit
<1> HIDE DEF k
<1>5. k \in Nat /\ k <= limit
  BY <1>1, <1>2, <1>3, <1>4
<1>6. ASSUME k # limit
      PROVE  h.pos <= k /\ Listed(h.chain, word, k) # Deleted
  BY <1>1, <1>2, <1>3, <1>4, <1>6
<1>7. ASSUME NEW j \in Nat, h.pos <= j, j < k
      PROVE  Listed(h.chain, word, j) = Deleted
  <2>1. j \in h.pos .. limit - 1
    BY <1>1, <1>2, <1>5, <1>7
  <2>2. j \notin Stops(h, word)
    BY <1>4, <1>5, <1>7
  <2> QED BY <1>3, <2>1, <2>2
<1> QED BY <1>2, <1>5, <1>6, <1>7 DEF k, limit, n

\* No entry is passed before the turn, and none comes after one that finds nothing.
LEMMA PassedOver ==
  ASSUME NEW L, NEW C, Layout(fat, content, L, C), NEW h \in FileRec,
         Held(content, L, C, h), h.dir, NEW word
  PROVE  LET s == h.chain  k == Turn(h, word)
         IN  /\ Passed(content, s, k) = Passed(content, s, h.pos)
             /\ k = Limit(s) \/ Listed(s, word, k) = Zero =>
                  \A i \in Places(s) : IsEntry(Word(content, Slot(s, i))) =>
                    i \in Passed(content, s, h.pos)
<1> DEFINE s == h.chain  k == Turn(h, word)  limit == Limit(s)  n == Len(s) * Cells
<1>1. /\ limit \in Nat /\ n \in Nat /\ n <= limit /\ k \in Nat /\ k <= limit
      /\ k # limit => h.pos <= k /\ Listed(s, word, k) # Deleted
      /\ \A j \in Nat : h.pos <= j /\ j < k => Listed(s, word, j) = Deleted
  BY TurnIs
<1>2. s \in Seq(Clusters) /\ Places(s) = 1 .. n /\ h.pos \in Nat
  BY DEF FileRec, Places
<1>3. h.loc \in L /\ IsDir(content, h.loc) /\ s = C[h.loc]
  BY DEF Held
<1> HIDE DEF k, limit, n, s
<1>4. ASSUME NEW i \in Places(s), IsEntry(Word(content, Slot(s, i)))
      PROVE  i <= k <=> i <= h.pos
  <2> DEFINE j == i - 1
  <2>1. i \in Nat /\ j \in Nat /\ j + 1 = i /\ i <= n
    BY <1>1, <1>2
  <2> HIDE DEF j
  <2>2. Listed(s, word, j) # Deleted
    <3>1. Listed(s, word, j) = Word(content, Slot(s, i))
      BY <1>2, <2>1, ListedIs
    <3> QED BY <1>4, <3>1 DEF IsEntry
  <2>3. ~(h.pos <= j /\ j < k)
    BY <1>1, <2>1, <2>2
  <2> QED BY <1>1, <1>2, <2>1, <2>3
<1>5. Passed(content, s, k) = Passed(content, s, h.pos)
  BY <1>4 DEF Passed
<1>6. ASSUME k = limit \/ Listed(s, word, k) = Zero,
             NEW i \in Places(s), IsEntry(Word(content, Slot(s, i)))
      PROVE  i \in Passed(content, s, h.pos)
  <2>1. i \in Nat /\ i <= n
    BY <1>1, <1>2
  <2>2. i <= k
    <3>1. CASE n <= k
      BY <1>1, <2>1, <3>1
    <3>2. CASE k < n
      <4>1. k + 1 \in Places(s)
        BY <1>1, <1>2, <3>2
      <4>2. Word(content, Slot(s, k + 1)) = Zero
        <5>1. Listed(s, word, k) = Zero
          BY <1>1, <1>6, <3>2
        <5> QED BY <1>1, <1>2, <4>1, <5>1, ListedIs
      <4>3. Word(content, Slot(s, i)) # Zero
        BY <1>6 DEF IsEntry
      <4>4. ~(k + 1 < i)
        <5>1. k + 1 < i => Word(content, Slot(s, i)) = Zero
          BY <1>3, <4>1, <4>2 DEF Layout, ZerosLast
        <5> QED BY <4>3, <5>1
      <4>5. i # k + 1
        BY <4>2, <4>3
      <4> QED BY <1>1, <2>1, <4>4, <4>5
    <3> QED BY <1>1, <3>1, <3>2
  <2>3. i \in Passed(content, s, k)
    BY <1>6, <2>2 DEF Passed
  <2> QED BY <1>5, <2>3
<1> QED BY <1>5, <1>6 DEF s, k, limit

\* The names a listing at pos has given.
GivenNames(path, s, pos) ==
  {Append(path, Word(content, Slot(s, k)).name) : k \in Passed(content, s, pos)}

\* A directory that is listed, in FileStore's words.
LEMMA OpenDirIs ==
  ASSUME NEW L, NEW C, Holds(L, C), NEW h \in FileRec, fd = <<h>>, Held(content, L, C, h), h.dir
  PROVE  \E path \in Paths :
           /\ Leads(content, L, C, path, Len(path), h.loc)
           /\ AsStore!IsDir(path)
           /\ Handle = <<HandleAt(path, 0, GivenNames(path, h.chain, h.pos))>>
<1>1. Layout(fat, content, L, C) /\ h.loc \in L /\ IsDir(content, h.loc) /\ h.chain = C[h.loc]
  BY DEF Holds, Held
<1>2. PICK path \in Paths : /\ Leads(content, L, C, path, Len(path), h.loc)
                           /\ Handle = <<HandleOf(content, C, path, h)>>
  BY OpenIs
<1>3. AsStore!IsDir(path)
  BY <1>1, <1>2, DirIs
<1>4. HandleOf(content, C, path, h) = HandleAt(path, 0, GivenNames(path, h.chain, h.pos))
  BY <1>1 DEF HandleOf, HandleAt, GivenNames
<1> QED BY <1>2, <1>3, <1>4

LEMMA DirMoves ==
  ASSUME NEW L, NEW C, Holds(L, C), NEW h \in FileRec, Held(content, L, C, h), h.dir,
         NEW p \in Nat, fat' = fat, content' = content, fd' = <<[h EXCEPT !.pos = p]>>,
         NEW path \in Paths, Leads(content, L, C, path, Len(path), h.loc)
  PROVE  /\ Handle' = <<HandleAt(path, 0, GivenNames(path, h.chain, p))>>
         /\ fd' # <<>> /\ fd'[1].dir /\ fd'[1].pos = p /\ fd'[1].chain = h.chain
<1> DEFINE o == [h EXCEPT !.pos = p]
<1>1. fd' = <<o>>
  OBVIOUS
<1>2. /\ o \in FileRec /\ o.chain = h.chain /\ o.dir = h.dir /\ o.size = h.size
      /\ o.loc = h.loc /\ o.pos = p
  BY DEF FileRec
<1> HIDE DEF o
<1>3. Held(content, L, C, o) /\ o.chain = C[o.loc]
  BY <1>2 DEF Held
<1>4. Layout(fat, content, L, C)
  BY DEF Holds
<1>5. /\ Layout(fat', content', L, C) /\ Held(content', L, C, o)
      /\ Leads(content', L, C, path, Len(path), o.loc)
  BY <1>2, <1>3, <1>4
<1>6. Handle' = <<HandleOf(content', C, path, o)>>
  BY <1>1, <1>2, <1>5, HandleMoves
<1>7. HandleOf(content', C, path, o) = HandleAt(path, 0, GivenNames(path, h.chain, p))
  BY <1>2, <1>3 DEF HandleOf, HandleAt, GivenNames
<1>8. fd' # <<>> /\ fd'[1] = o
  BY <1>1
<1> QED BY <1>2, <1>6, <1>7, <1>8

\* What is found in the chain is a child that was not listed before.
LEMMA FoundIsChild ==
  ASSUME NEW L, NEW C, Holds(L, C), NEW h \in FileRec, Held(content, L, C, h), h.dir,
         NEW path \in Paths, Leads(content, L, C, path, Len(path), h.loc),
         NEW word, Turn(h, word) # Limit(h.chain), Turn(h, word) + 1 \in Places(h.chain),
         Listed(h.chain, word, Turn(h, word)) # Zero
  PROVE  LET k == Turn(h, word)  cell == Listed(h.chain, word, k)
         IN  /\ IsEntry(cell)
             /\ \E q \in AsStore!Children(path) \ GivenNames(path, h.chain, h.pos) :
                  /\ AsStore!Info(q) = Info(cell)
                  /\ GivenNames(path, h.chain, k + 1) = GivenNames(path, h.chain, h.pos) \cup {q}
<1> DEFINE s == h.chain  k == Turn(h, word)  cell == Listed(s, word, k)  m == k + 1
           q == Append(path, cell.name)
<1>1. /\ Layout(fat, content, L, C) /\ Shown(content, L, C)
      /\ h.loc \in L /\ IsDir(content, h.loc) /\ s = C[h.loc] /\ s \in Seq(Clusters)
  BY DEF Holds, Held, FileRec
<1>2. k \in Nat /\ m \in Places(s) /\ h.pos <= k /\ cell # Deleted /\ cell # Zero
  BY TurnIs
<1>3. Passed(content, s, k) = Passed(content, s, h.pos)
  BY <1>1, PassedOver
<1> HIDE DEF k, s
<1>4. cell = Word(content, Slot(s, m))
  BY <1>1, <1>2, ListedIs
<1> HIDE DEF cell
<1>5. cell \in Entries /\ IsEntry(cell)
  BY <1>1, <1>2, <1>4, EntryType DEF Layout, Clean
<1>6. /\ q \in Paths /\ Located(q) = Slot(s, m) /\ Located(q) # NoLoc
      /\ q \in AsStore!Children(path)
  <2> HIDE DEF m
  <2>1. m \in Places(C[h.loc]) /\ IsEntry(Word(content, Slot(C[h.loc], m)))
    BY <1>1, <1>2, <1>4, <1>5
  <2> DEFINE r == Append(path, Word(content, Slot(C[h.loc], m)).name)
  <2>2. /\ r \in Paths /\ Located(r) = Slot(C[h.loc], m) /\ Located(r) # NoLoc
        /\ r \in AsStore!Children(path)
    BY <1>1, <2>1, EntryIsChild
  <2>3. r = q
    BY <1>1, <1>4
  <2> HIDE DEF r, q
  <2> QED BY <1>1, <2>2, <2>3
<1>7. AsStore!Info(q) = Info(cell)
  <2>1. At(Located(q)) = cell
    BY <1>4, <1>6 DEF At, Word
  <2> HIDE DEF q
  <2> QED BY <1>1, <1>6, <2>1, InfoIs
<1>8. \A i \in Places(s) : i \in Nat
  <2> DEFINE n == Len(s) * Cells
  <2>1. n \in Nat
    BY <1>1
  <2> HIDE DEF n
  <2>2. Places(s) = 1 .. n
    BY DEF Places, n
  <2> QED BY <2>1, <2>2
<1>9. Passed(content, s, m) = Passed(content, s, k) \cup {m}
  <2>1. \A i \in Nat : i <= m <=> i <= k \/ i = m
    BY <1>2
  <2> HIDE DEF m
  <2>2. m \in Places(s) /\ m <= m /\ IsEntry(Word(content, Slot(s, m)))
    BY <1>2, <1>4, <1>5, <1>8
  <2> QED BY <1>8, <2>1, <2>2 DEF Passed
<1>10. m \notin Passed(content, s, k)
  <2>1. ~(m <= k)
    BY <1>2
  <2> QED BY <2>1 DEF Passed
<1>11. q \notin GivenNames(path, s, h.pos)
  <2> SUFFICES ASSUME NEW i \in Passed(content, s, k), q = Append(path, Word(content, Slot(s, i)).name)
               PROVE  FALSE
    BY <1>3 DEF GivenNames
  <2>1. i \in Places(s) /\ IsEntry(Word(content, Slot(s, i))) /\ i # m
    BY <1>10 DEF Passed
  <2>2. Word(content, Slot(s, i)).name = Word(content, Slot(s, m)).name
    <3>1. path \in Seq(Names)
      OBVIOUS
    <3>2. Len(path) + 1 \in Nat /\ Append(path, cell.name)[Len(path) + 1] = cell.name
      BY <3>1
    <3>3. Append(path, Word(content, Slot(s, i)).name)[Len(path) + 1]
            = Word(content, Slot(s, i)).name
      BY <3>1
    <3>4. Append(path, cell.name) = Append(path, Word(content, Slot(s, i)).name)
      OBVIOUS
    <3> QED BY <1>4, <3>2, <3>3, <3>4
  <2> HIDE DEF m
  <2>3. IsEntry(Word(content, Slot(s, m)))
    BY <1>4, <1>5
  <2> QED BY <1>1, <1>2, <2>1, <2>2, <2>3 DEF Layout, Distinct
<1>12. GivenNames(path, s, m) = GivenNames(path, s, h.pos) \cup {q}
  <2>1. Passed(content, s, m) = Passed(content, s, h.pos) \cup {m}
    BY <1>3, <1>9
  <2> HIDE DEF m
  <2> QED BY <1>4, <2>1 DEF GivenNames
<1> HIDE DEF q
<1>13. q \in AsStore!Children(path) \ GivenNames(path, s, h.pos)
  BY <1>6, <1>11
<1> QED BY <1>5, <1>7, <1>12, <1>13 DEF k, s, cell, m

LEMMA AllGiven ==
  ASSUME NEW L, NEW C, Holds(L, C), NEW h \in FileRec, Held(content, L, C, h),
         NEW path \in Paths, Leads(content, L, C, path, Len(path), h.loc),
         \A i \in Places(h.chain) : IsEntry(Word(content, Slot(h.chain, i))) =>
           i \in Passed(content, h.chain, h.pos)
  PROVE  AsStore!Children(path) \subseteq GivenNames(path, h.chain, h.pos)
<1> SUFFICES ASSUME NEW q \in AsStore!Children(path)
             PROVE  q \in GivenNames(path, h.chain, h.pos)
  OBVIOUS
<1>1. Layout(fat, content, L, C) /\ h.loc \in L /\ h.chain = C[h.loc]
  BY DEF Holds, Held
<1>2. PICK k \in Places(h.chain) : /\ IsEntry(Word(content, Slot(h.chain, k)))
                                   /\ q = Append(path, Word(content, Slot(h.chain, k)).name)
  BY <1>1, ChildIsInDirectory
<1> QED BY <1>2 DEF GivenNames

\* What fs_readdir does on a directory, given the word behind its chain.
ListedAt(h, word) ==
  LET k == Turn(h, word)
      cell == IF k = Limit(h.chain) THEN Zero ELSE Listed(h.chain, word, k)
  IN  IF cell = Zero
        THEN res' = 0 /\ out' = <<>> /\ fd' = <<[h EXCEPT !.pos = k]>>
        ELSE /\ res' = 1 /\ out' = IF IsEntry(cell) THEN Info(cell) ELSE <<cell, "file", 0>>
             /\ fd' = <<[h EXCEPT !.pos = k + 1]>>

\* A listing gives the next child, finds that there is none, or goes on behind the
\* chain.
LEMMA ListSteps ==
  ASSUME NEW L, NEW C, Holds(L, C), NEW h \in FileRec, fd = <<h>>, Held(content, L, C, h),
         h.dir, NEW word, fat' = fat, content' = content, Tree' = Tree,
         ListedAt(h, word)
  PROVE  AsStore!ReadDir \/ ListsOn
<1> DEFINE s == h.chain  k == Turn(h, word)  limit == Limit(s)  n == Len(s) * Cells
           cell == IF k = limit THEN Zero ELSE Listed(s, word, k)
<1>1. /\ limit \in Nat /\ n \in Nat /\ n <= limit /\ k \in Nat /\ k <= limit
      /\ k # limit => h.pos <= k
  BY TurnIs
<1>2. Layout(fat, content, L, C) /\ h.loc \in L /\ IsDir(content, h.loc)
  BY DEF Holds, Held
<1>3. PICK path \in Paths :
        /\ Leads(content, L, C, path, Len(path), h.loc)
        /\ AsStore!IsDir(path)
        /\ Handle = <<HandleAt(path, 0, GivenNames(path, s, h.pos))>>
  BY OpenDirIs
<1> DEFINE given == GivenNames(path, s, h.pos)
<1>4. PICK hh : hh = HandleAt(path, 0, given)
  OBVIOUS
<1>5. Handle # <<>> /\ Handle = <<hh>> /\ Handle[1] = hh /\ hh.path = path /\ hh.listed = given
  BY <1>3, <1>4 DEF HandleAt
<1>6. Passed(content, s, k) = Passed(content, s, h.pos)
  BY <1>2, PassedOver
<1>7. GivenNames(path, s, k) = given
  BY <1>6 DEF GivenNames
<1>8. CASE cell = Zero
  <2>1. res' = 0 /\ out' = <<>> /\ fd' = <<[h EXCEPT !.pos = k]>>
    BY <1>8 DEF ListedAt
  <2>2. AsStore!Children(path) \subseteq given
    <3>1. k = limit \/ Listed(s, word, k) = Zero
      BY <1>8
    <3>2. \A i \in Places(s) : IsEntry(Word(content, Slot(s, i))) =>
            i \in Passed(content, s, h.pos)
      BY <1>2, <3>1, PassedOver
    <3> QED BY <1>3, <3>2, AllGiven
  <2>3. Handle' = <<HandleAt(path, 0, GivenNames(path, s, k))>>
    <3>1. PICK p : p = k
      OBVIOUS
    <3> HIDE DEF k, cell
    <3>2. p \in Nat /\ fd' = <<[h EXCEPT !.pos = p]>>
      BY <1>1, <2>1, <3>1
    <3>3. Handle' = <<HandleAt(path, 0, GivenNames(path, s, p))>>
      BY <1>3, <3>2, DirMoves
    <3> QED BY <3>1, <3>3
  <2>4. Handle' = Handle
    BY <1>3, <1>7, <2>3
  <2> HIDE DEF given
  <2> QED BY <1>5, <2>1, <2>2, <2>4 DEF AsStore!ReadDir, AsStore!Returns
<1>9. CASE cell # Zero
  <2>1. k # limit /\ cell = Listed(s, word, k) /\ k + 1 \in Nat
    BY <1>1, <1>9
  <2>2. /\ res' = 1 /\ out' = IF IsEntry(cell) THEN Info(cell) ELSE <<cell, "file", 0>>
        /\ fd' = <<[h EXCEPT !.pos = k + 1]>>
    BY <1>9 DEF ListedAt
  <2>3. /\ Handle' = <<HandleAt(path, 0, GivenNames(path, s, k + 1))>>
        /\ fd' # <<>> /\ fd'[1].dir /\ fd'[1].pos = k + 1 /\ fd'[1].chain = s
    <3> HIDE DEF k, cell
    <3> DEFINE p == k + 1
    <3>1. p \in Nat /\ fd' = <<[h EXCEPT !.pos = p]>>
      BY <2>1, <2>2
    <3> HIDE DEF p
    <3>2. /\ Handle' = <<HandleAt(path, 0, GivenNames(path, s, p))>>
          /\ fd' # <<>> /\ fd'[1].dir /\ fd'[1].pos = p /\ fd'[1].chain = s
      BY <1>3, <3>1, DirMoves
    <3> QED BY <3>2 DEF p
  <2>4. CASE k < n
    <3>1. k + 1 \in Places(s)
      <4> HIDE DEF k, n
      <4>1. k + 1 \in 1 .. n
        BY <1>1, <2>4
      <4> QED BY <4>1 DEF Places, n
    <3>2. /\ IsEntry(cell)
          /\ \E q \in AsStore!Children(path) \ given :
               /\ AsStore!Info(q) = Info(cell)
               /\ GivenNames(path, s, k + 1) = given \cup {q}
      BY <1>3, <1>9, <2>1, <3>1, FoundIsChild
    <3> HIDE DEF k, cell
    <3>3. PICK q \in AsStore!Children(path) \ given :
               /\ AsStore!Info(q) = Info(cell)
               /\ GivenNames(path, s, k + 1) = given \cup {q}
      BY <3>2
    <3> DEFINE more == given \cup {q}
    <3>4. [hh EXCEPT !.listed = more] = HandleAt(path, 0, more)
      <4>1. ListedTo(hh, more) = HandleAt(path, 0, more)
        BY <1>4, MovedOn
      <4> QED BY <4>1 DEF ListedTo
    <3>5. Handle' = <<[hh EXCEPT !.listed = hh.listed \cup {q}]>>
      BY <1>5, <2>3, <3>3, <3>4
    <3>6. res' = 1 /\ out' = AsStore!Info(q)
      BY <2>2, <3>2, <3>3
    <3> HIDE DEF given
    <3> QED BY <1>5, <3>3, <3>5, <3>6 DEF AsStore!ReadDir, AsStore!Returns
  <2>5. CASE ~(k < n)
    <3> HIDE DEF k, cell, n
    <3>1. \A i \in Places(s) : i <= k /\ i <= k + 1
      <4>1. Places(s) = 1 .. n
        BY DEF Places, n
      <4> QED BY <1>1, <2>5, <4>1
    <3>2. Passed(content, s, k + 1) = Passed(content, s, k)
      BY <3>1 DEF Passed
    <3>3. Handle' = Handle
      BY <1>3, <1>7, <2>3, <3>2 DEF GivenNames
    <3>4. fd'[1].pos > n
      BY <1>1, <2>3, <2>5
    <3> QED BY <2>3, <3>3, <3>4 DEF ListsOn, n
  <2> QED BY <2>4, <2>5
<1> HIDE DEF cell
<1> QED BY <1>8, <1>9

LEMMA ReadDirSteps ==
  ASSUME NEW L, NEW C, Holds(L, C), ~EntryIsNowhere, Within, fs_readdir
  PROVE  (AsStore!Next \/ ListsOn) /\ Within'
<1>1. /\ Layout(fat, content, L, C) /\ Shown(content, L, C)
      /\ Handled(fat, content, L, C, fd)
  BY DEF Holds
<1>2. fd # <<>> /\ fat' = fat /\ content' = content
  BY DEF fs_readdir, disk
<1>3. PICK h \in FileRec : fd = <<h>> /\ (Held(content, L, C, h) \/ Adrift(fat, L, C, h))
  BY <1>1, <1>2 DEF Handled
<1>4. fd[1] = h
  BY <1>3
<1>5. Held(content, L, C, h)
  BY <1>2, <1>3, <1>4 DEF Adrift, EntryIsNowhere
<1>6. Tree' = Tree
  BY <1>1, <1>2, DiskKept
<1>7. PICK word :
        LET limit == Limit(h.chain)
            stops == {k \in h.pos .. limit - 1 : Listed(h.chain, word, k) # Deleted}
            k == Min(stops \cup {limit})
            cell == IF k = limit THEN Zero ELSE Listed(h.chain, word, k)
        IN  IF ~h.dir \/ cell = Zero
              THEN /\ Returns(0, <<>>)
                   /\ fd' = IF h.dir THEN <<[h EXCEPT !.pos = k]>> ELSE fd
              ELSE /\ Returns(1, IF IsEntry(cell) THEN Info(cell) ELSE <<cell, "file", 0>>)
                   /\ fd' = <<[h EXCEPT !.pos = k + 1]>>
  BY <1>4, Zenon DEF fs_readdir
<1> DEFINE k == Turn(h, word)
           cell == IF k = Limit(h.chain) THEN Zero ELSE Listed(h.chain, word, k)
<1>8. IF ~h.dir \/ cell = Zero
        THEN /\ Returns(0, <<>>)
             /\ fd' = IF h.dir THEN <<[h EXCEPT !.pos = k]>> ELSE fd
        ELSE /\ Returns(1, IF IsEntry(cell) THEN Info(cell) ELSE <<cell, "file", 0>>)
             /\ fd' = <<[h EXCEPT !.pos = k + 1]>>
  BY <1>7 DEF Turn, Stops
<1> HIDE DEF k, cell
<1>9. CASE h.dir
  <2>1. IF cell = Zero
          THEN res' = 0 /\ out' = <<>> /\ fd' = <<[h EXCEPT !.pos = k]>>
          ELSE /\ res' = 1 /\ out' = IF IsEntry(cell) THEN Info(cell) ELSE <<cell, "file", 0>>
               /\ fd' = <<[h EXCEPT !.pos = k + 1]>>
    BY <1>8, <1>9 DEF Returns
  <2>2. AsStore!ReadDir \/ ListsOn
    <3>1. ListedAt(h, word)
      BY <2>1 DEF ListedAt, k, cell
    <3> QED BY <1>2, <1>3, <1>5, <1>6, <1>9, <3>1, ListSteps
  <2>3. ASSUME NEW p, fd' = <<[h EXCEPT !.pos = p]>>
        PROVE  Within'
    <3> DEFINE o == [h EXCEPT !.pos = p]
    <3>1. o.dir = h.dir
      BY DEF FileRec
    <3> HIDE DEF o
    <3>2. fd'[1] = o
      BY <2>3 DEF o
    <3> QED BY <1>9, <3>1, <3>2 DEF Within
  <2>4. Within'
    BY <2>1, <2>3
  <2> QED BY <2>2, <2>4 DEF AsStore!Next
<1>10. CASE ~h.dir
  <2>1. res' = 0 /\ out' = <<>> /\ fd' = fd
    BY <1>8, <1>10 DEF Returns
  <2>2. Handle' = Handle
    BY <1>2, <2>1, HandleKept
  <2>3. PICK path \in Paths \ {<<>>} :
           /\ ~AsStore!IsDir(path)
           /\ Handle = <<[path |-> path, pos |-> h.pos, listed |-> {}]>>
    BY <1>3, <1>5, <1>10, OpenFileIs
  <2>4. Handle # <<>> /\ ~AsStore!IsDir(Handle[1].path)
    BY <2>3
  <2>5. AsStore!ReadDir
    BY <1>6, <2>1, <2>2, <2>4 DEF AsStore!ReadDir, AsStore!Returns
  <2>6. Within'
    BY <2>1 DEF Within, EntryIsNowhere
  <2> QED BY <2>5, <2>6 DEF AsStore!Next
<1> QED BY <1>9, <1>10

------------------------------------------------------------------------------
(* Every call *)

\* A file with no entry stays open as one until it is closed.
LEMMA NowhereStays ==
  ASSUME NEW L, NEW C, Holds(L, C), Next, EntryIsNowhere
  PROVE  Within'
<1>1. /\ Layout(fat, content, L, C) /\ Handled(fat, content, L, C, fd)
      /\ fd # <<>> /\ fd[1].loc[1] = EOC
  BY DEF Holds, EntryIsNowhere
<1>2. PICK h \in FileRec : fd = <<h>>
  BY <1>1 DEF Handled
<1>3. ASSUME fd' # <<>>, fd'[1].loc = fd[1].loc
      PROVE  Within'
  BY <1>1, <1>3 DEF Within, EntryIsNowhere
<1>4. ASSUME NEW path \in Paths, fs_stat(path)
      PROVE  Within'
  BY <1>1, <1>3, <1>4 DEF fs_stat
<1>5. ASSUME NEW cnt \in Counts, fs_read(cnt)
      PROVE  Within'
  BY <1>1, <1>3, <1>5, Reads
<1>6. CASE fs_readdir
  BY <1>1, <1>3, <1>6, Lists
<1>7. CASE fs_close \/ fs_init
  <2>1. fd' = <<>>
    BY <1>7 DEF fs_close, fs_init
  <2> QED BY <2>1 DEF Within
<1>8. ASSUME NEW buffer \in Buffers, NEW word \in Beyond, fs_write(buffer, word)
      PROVE  Within'
  <2>1. fd[1] = h
    BY <1>2
  <2> QED BY <1>1, <1>3, <1>8, <2>1, WriteStays
<1>9. ~\E path \in Paths : \/ \E flags \in Flags : fs_open(path, flags)
                          \/ fs_mkdir(path) \/ fs_remove(path) \/ fs_rmdir(path)
  BY <1>1 DEF fs_open, fs_mkdir, fs_remove, fs_rmdir
<1> QED BY <1>4, <1>5, <1>6, <1>7, <1>8, <1>9 DEF Next

\* fs_open starts at the beginning of a file or at its end.
LEMMA OpensWithin ==
  ASSUME NEW M, NEW D, Handled(fat', content', M, D, fd'),
         NEW path, NEW flags, fs_open(path, flags)
  PROVE  Within'
<1>1. fd = <<>>
  BY DEF fs_open
<1>2. fd' = fd \/ \E chain, entry, loc, how : fd' = <<File(chain, entry, loc, how)>>
  BY Zenon DEF fs_open, OpenRoot, Root, OpenFails, OpenExisting, OpenCreates, Opened
<1>3. CASE fd' = fd
  BY <1>1, <1>3 DEF Within
<1>4. ASSUME NEW chain, NEW entry, NEW loc, NEW how, fd' = <<File(chain, entry, loc, how)>>
      PROVE  Within'
  <2>1. fd' # <<>>
    BY <1>4
  <2>2. PICK h \in FileRec : fd' = <<h>>
    BY <2>1 DEF Handled
  <2>3. fd'[1] = h /\ h = File(chain, entry, loc, how)
    BY <1>4, <2>2
  <2>4. h.size = entry.size /\ (h.pos = entry.size \/ h.pos = 0)
    BY <2>3 DEF File
  <2>5. h.size \in Nat
    BY DEF FileRec
  <2>6. h.pos <= h.size
    BY <2>4, <2>5
  <2> QED BY <2>3, <2>6 DEF Within
<1> QED BY <1>2, <1>3, <1>4

LEMMA InitMaps == Init => AsStore!Init /\ Within
<1> SUFFICES ASSUME Init PROVE AsStore!Init /\ Within
  OBVIOUS
<1>1. fd = <<>> /\ content = [c \in Clusters |-> Blank] /\ res = 0 /\ out = <<>>
  BY DEF Init
<1>2. PICK L, C : Layout(fat, content, L, C)
  BY InitKeeps DEF Inv, Kept, Holds
<1>3. \A p : p \notin DOMAIN Tree
  <2> SUFFICES ASSUME NEW p \in DOMAIN Tree PROVE FALSE
    OBVIOUS
  <2> DEFINE loc == Located(p)
  <2>1. loc \in L \ {NoLoc}
    BY <1>2, TreeNow DEF TreeFacts, TreeIs
  <2> HIDE DEF loc
  <2>2. loc \in Clusters \X (1 .. Cells) /\ Word(content, loc) \in Entries
    BY <1>2, <2>1, PlaceIsHeld
  <2>3. Word(content, loc) = Zero
    BY <1>1, <2>2 DEF Word, Blank
  <2> QED BY <2>2, <2>3, EntryType
<1>4. Tree = <<>>
  <2>1. Tree = [p \in DOMAIN Tree |-> Tree[p]]
    BY <1>2, TreeNow DEF TreeFacts, TreeIs
  <2>2. DOMAIN Tree = 1 .. 0
    <3>1. DOMAIN Tree = {}
      BY <1>3, Zenon
    <3>2. 1 .. 0 = {}
      OBVIOUS
    <3> QED BY <3>1, <3>2
  <2>3. [p \in 1 .. 0 |-> Tree[p]] = <<>>
    <3> DEFINE t == Tree
    <3> HIDE DEF t
    <3>1. [p \in 1 .. 0 |-> t[p]] = <<>>
      OBVIOUS
    <3> QED BY <3>1 DEF t
  <2> QED BY <2>1, <2>2, <2>3
<1>5. Handle = <<>> /\ Within
  BY <1>1, NoHandle DEF Within
<1> QED BY <1>1, <1>4, <1>5 DEF AsStore!Init

\* Every step of the driver is one that ImplementsFileStore names.
Mapped == [AsStore!Next \/ MakesNothing \/ ListsOn]_<<Tree, Handle, res, out>>

LEMMA StepMaps ==
  ASSUME ~Fills, ~TruncatesLong, Inv, Within, [Next]_vars
  PROVE  Mapped /\ Within'
<1>1. PICK L, C : Holds(L, C)
  BY DEF Inv, Kept
<1>2. Layout(fat, content, L, C) /\ Shown(content, L, C) /\ new_entry \in BOOLEAN
  BY <1>1 DEF Holds, Inv
<1>3. CASE UNCHANGED vars
  <2>1. fat' = fat /\ content' = content /\ fd' = fd /\ res' = res /\ out' = out
    BY <1>3 DEF vars
  <2>2. Tree' = Tree /\ Handle' = Handle
    BY <1>1, <1>2, <2>1, DiskKept, HandleKept
  <2>3. Within'
    BY <2>1 DEF Within, EntryIsNowhere
  <2> QED BY <2>1, <2>2, <2>3 DEF Mapped
<1>4. CASE Next /\ EntryIsNowhere
  <2>1. MakesNothing
    BY <1>1, <1>2, <1>4, NowhereSteps
  <2>2. Within'
    BY <1>1, <1>4, NowhereStays
  <2> QED BY <2>1, <2>2 DEF Mapped
<1>5. CASE Next /\ ~EntryIsNowhere
  <2>1. ASSUME NEW path \in Paths, NEW flags \in Flags, fs_open(path, flags)
        PROVE  Mapped /\ Within'
    <3>1. AsStore!Next \/ MakesNothing
      BY <1>1, <2>1, OpenSteps DEF AsStore!Next
    <3>2. PICK M, D : Holds(M, D)'
      BY NextKeeps DEF Inv, Kept
    <3>3. Within'
      BY <2>1, <3>2, OpensWithin DEF Holds
    <3> QED BY <3>1, <3>3 DEF Mapped
  <2>2. ASSUME NEW path \in Paths, fs_stat(path)
        PROVE  Mapped /\ Within'
    <3>1. AsStore!Next
      BY <1>1, <2>2, StatSteps
    <3>2. Within'
      BY <2>2 DEF fs_stat, Within, EntryIsNowhere
    <3> QED BY <3>1, <3>2 DEF Mapped
  <2>3. ASSUME NEW path \in Paths, fs_mkdir(path)
        PROVE  Mapped /\ Within'
    <3>1. AsStore!Next \/ MakesNothing
      BY <1>1, <2>3, MkdirSteps DEF AsStore!Next
    <3>2. fd' = <<>>
      BY <2>3 DEF fs_mkdir, Fails
    <3> QED BY <3>1, <3>2 DEF Mapped, Within
  <2>4. ASSUME NEW path \in Paths, fs_remove(path) \/ fs_rmdir(path)
        PROVE  Mapped /\ Within'
    <3>1. AsStore!Next
      BY <1>1, <2>4, RemoveSteps DEF AsStore!Next
    <3>2. fd' = <<>>
      BY <2>4 DEF fs_remove, fs_rmdir, Fails, Erase
    <3> QED BY <3>1, <3>2 DEF Mapped, Within
  <2>5. ASSUME NEW buffer \in Buffers, NEW word \in Beyond, fs_write(buffer, word)
        PROVE  Mapped /\ Within'
    BY <1>1, <1>5, <2>5, WriteSteps DEF AsStore!Next, Mapped
  <2>6. ASSUME NEW cnt \in Counts, fs_read(cnt)
        PROVE  Mapped /\ Within'
    BY <1>1, <1>5, <2>6, ReadSteps DEF Mapped
  <2>7. CASE fs_readdir
    BY <1>1, <1>5, <2>7, ReadDirSteps DEF Mapped
  <2>8. CASE fs_close
    <3>1. AsStore!Next
      BY <1>1, <1>5, <2>8, CloseSteps
    <3>2. fd' = <<>>
      BY <2>8 DEF fs_close
    <3> QED BY <3>1, <3>2 DEF Mapped, Within
  <2>9. CASE fs_init
    <3>1. AsStore!Next
      BY <1>1, <2>9, InitSteps
    <3>2. fd' = <<>>
      BY <2>9 DEF fs_init
    <3> QED BY <3>1, <3>2 DEF Mapped, Within
  <2> QED BY <1>5, <2>1, <2>2, <2>3, <2>4, <2>5, <2>6, <2>7, <2>8, <2>9 DEF Next
<1> QED BY <1>3, <1>4, <1>5

------------------------------------------------------------------------------
(* The shell's commands *)

\* What fs_stat says is a directory is one of FileStore.
KindIsTold ==
  \A path \in Paths :
    /\ Kind(path) \in {"none", "file", "directory"}
    /\ Kind(path) = "directory" <=> AsStore!IsDir(path)
    /\ Kind(path) = "file" <=> path \in DOMAIN Tree /\ ~Tree[path].dir

LEMMA KindNow == Inv => KindIsTold
<1> SUFFICES ASSUME Inv, NEW path \in Paths
             PROVE  /\ Kind(path) \in {"none", "file", "directory"}
                    /\ Kind(path) = "directory" <=> AsStore!IsDir(path)
                    /\ Kind(path) = "file" <=> path \in DOMAIN Tree /\ ~Tree[path].dir
  BY DEF KindIsTold
<1>1. PICK L, C : Layout(fat, content, L, C)
  BY DEF Inv, Kept, Holds
<1>2. CASE path = <<>>
  <2>1. path \notin DOMAIN Tree
    BY <1>2 DEF Tree
  <2> QED BY <1>2, <2>1 DEF Kind, AsStore!IsDir
<1>3. CASE path # <<>> /\ Located(path) = NoLoc
  <2>1. ~AsStore!Exists(path)
    BY <1>1, <1>3, MissingIs
  <2> QED BY <1>3, <2>1 DEF Kind, AsStore!IsDir, AsStore!Exists
<1>4. CASE path # <<>> /\ Located(path) # NoLoc
  <2>1. /\ path \in DOMAIN Tree
        /\ AsStore!IsDir(path) <=> At(Located(path)).dir
    BY <1>1, <1>4, ExistsIs
  <2>2. Kind(path) = IF At(Located(path)).dir THEN "directory" ELSE "file"
    BY <1>4 DEF Kind, Info
  <2> QED BY <1>4, <2>1, <2>2 DEF AsStore!IsDir
<1> QED BY <1>2, <1>3, <1>4

LEMMA KindNext == Inv' => KindIsTold'
BY KindNow, PTL

\* What becomes of the directories: none but those in gone disappears.
DirsStay(gone) ==
  \A path \in Paths \ gone : AsStore!IsDir(path) => AsStore!IsDir(path)'

LEMMA SameDirs ==
  ASSUME Tree' = Tree
  PROVE  DirsStay({})
BY DEF DirsStay, AsStore!IsDir

LEMMA PutKeepsDirs ==
  ASSUME NEW p, NEW node, AsStore!Put(p, node), AsStore!IsDir(p) => node.dir
  PROVE  DirsStay({})
BY DEF DirsStay, AsStore!IsDir, AsStore!Put

LEMMA OpenKeepsDirs ==
  ASSUME NEW p, AsStore!Open(p)
  PROVE  DirsStay({})
BY SameDirs, PutKeepsDirs DEF AsStore!Open, AsStore!Keep

LEMMA MkdirKeepsDirs ==
  ASSUME NEW p, AsStore!Mkdir(p)
  PROVE  DirsStay({})
BY SameDirs, PutKeepsDirs DEF AsStore!Mkdir, AsStore!Fails, AsStore!Keep

LEMMA WriteKeepsDirs ==
  ASSUME NEW buffer, AsStore!Write(buffer)
  PROVE  DirsStay({})
BY SameDirs, PutKeepsDirs DEF AsStore!Write, AsStore!Keep

LEMMA RemoveDropsOne ==
  ASSUME NEW p, AsStore!RemoveFile(p) \/ AsStore!RemoveDir(p)
  PROVE  DirsStay({p})
<1>1. CASE AsStore!Removes(p)
  BY <1>1 DEF AsStore!Removes, AsStore!Drop, DirsStay, AsStore!IsDir
<1>2. CASE Tree' = Tree
  BY <1>2, SameDirs DEF DirsStay
<1> QED BY <1>1, <1>2 DEF AsStore!RemoveFile, AsStore!RemoveDir, AsStore!Fails, AsStore!Keep

\* The invariant.  The echo at work has its file open, at its end until it has
\* written; then the file ends with the text, unless echo said that it failed.
EchoIsAtWork ==
  echo = <<>> \/ \E path \in Paths, text \in Seq(Data), wrote \in BOOLEAN :
    /\ echo = <<[path |-> path, text |-> text, wrote |-> wrote]>>
    /\ ~FirstIntoFull =>
         /\ \E pos : Handle = <<[path |-> path, pos |-> pos, listed |-> {}]>>
         /\ ~wrote => fd[1].dir \/ fd[1].pos = fd[1].size
         /\ wrote /\ shown = Nothing => IsSuffix(text, Tree[path].data)
ShellInv == Inv /\ Within /\ cwd \in Paths /\ EchoIsAtWork

LEMMA GivenPath ==
  ASSUME NEW arg \in Args, Given(arg)
  PROVE  normalize_path(arg) \in Paths /\ fd = <<>> /\ echo = <<>>
BY DEF Given

LEMMA TreeKept ==
  ASSUME Inv, UNCHANGED vars
  PROVE  Tree' = Tree /\ Handle' = Handle
<1>1. PICK L, C : Holds(L, C)
  BY DEF Inv, Kept
<1>2. fat' = fat /\ content' = content /\ fd' = fd
  BY DEF vars
<1>3. Layout(fat, content, L, C) /\ Shown(content, L, C)
  BY <1>1 DEF Holds
<1> QED BY <1>1, <1>2, <1>3, DiskKept, HandleKept

LEMMA GoneOn ==
  ASSUME NEW L, NEW C, \E M, D : Goes(L, C, M, D)
  PROVE  Inv'
BY DEF Goes, Deed, Inv, Kept, Holds

\* A command that leaves the disk alone.
LEMMA OnlyLooks ==
  ASSUME ~Fills, ~TruncatesLong, ShellInv, NEW text, Only(text), echo = <<>>, cwd' \in Paths
  PROVE  ShellInv' /\ DirsStay({})
<1>1. UNCHANGED vars /\ echo' = <<>>
  BY DEF Only
<1>2. Inv'
  BY <1>1, NextKeeps DEF ShellInv
<1>3. Within'
  BY <1>1 DEF vars, Within, EntryIsNowhere, ShellInv
<1>4. DirsStay({})
  BY <1>1, TreeKept, SameDirs DEF ShellInv
<1> QED BY <1>1, <1>2, <1>3, <1>4 DEF ShellInv, EchoIsAtWork

LEMMA LookSteps ==
  ASSUME ~Fills, ~TruncatesLong, ShellInv,
         \/ pwd
         \/ \E arg \in Args : stat(arg) \/ cat(arg) \/ ls(arg)
  PROVE  ShellInv' /\ DirsStay({}) /\ cwd' = cwd
<1>1. cwd' = cwd /\ cwd \in Paths
  BY DEF pwd, stat, cat, ls, ShellInv
<1>2. ASSUME NEW text, Only(text), echo = <<>>
      PROVE  ShellInv' /\ DirsStay({})
  BY <1>1, <1>2, OnlyLooks
<1>3. CASE pwd
  BY <1>1, <1>2, <1>3 DEF pwd
<1>4. ASSUME NEW arg \in Args, stat(arg)
      PROVE  ShellInv' /\ DirsStay({})
  BY <1>2, <1>4 DEF stat, Given
<1>5. ASSUME NEW arg \in Args, cat(arg)
      PROVE  ShellInv' /\ DirsStay({})
  BY <1>2, <1>5 DEF cat, Given
<1>6. ASSUME NEW arg \in Args, ls(arg)
      PROVE  ShellInv' /\ DirsStay({})
  <2>1. echo = <<>> /\ \E text : Only(text)
    BY <1>6, Zenon DEF ls, Given
  <2> QED BY <1>2, <2>1
<1> QED BY <1>1, <1>3, <1>4, <1>5, <1>6

LEMMA CdSteps ==
  ASSUME ~Fills, ~TruncatesLong, ShellInv, NEW arg \in Args, cd(arg)
  PROVE  /\ ShellInv' /\ DirsStay({})
         /\ cwd' # cwd => Kind(cwd)' = "directory"
<1>1. Given(arg) /\ normalize_path(arg) \in Paths /\ Only(Nothing) /\ echo = <<>>
  BY GivenPath DEF cd
<1>2. PICK path \in Paths : path = normalize_path(arg)
  BY <1>1
<1>3. cwd' = IF Kind(path) = "directory" THEN path ELSE cwd
  BY <1>2 DEF cd
<1>4. cwd' \in Paths
  BY <1>3 DEF ShellInv
<1>5. ShellInv' /\ DirsStay({})
  BY <1>1, <1>4, OnlyLooks
<1>6. ASSUME cwd' # cwd
      PROVE  Kind(cwd)' = "directory"
  <2>1. cwd' = path /\ Kind(path) = "directory"
    BY <1>3, <1>6
  <2>2. AsStore!IsDir(path)
    BY <2>1, KindNow DEF KindIsTold, ShellInv
  <2>3. AsStore!IsDir(path)'
    BY <1>5, <2>2 DEF DirsStay
  <2>4. Kind(path)' = "directory"
    BY <1>5, <2>3, KindNext DEF KindIsTold, ShellInv
  <2> QED BY <2>1, <2>4
<1> QED BY <1>5, <1>6

LEMMA ShellMakes ==
  ASSUME ~Fills, ~TruncatesLong, ShellInv, NEW arg \in Args, mkdir(arg)
  PROVE  ShellInv' /\ DirsStay({}) /\ cwd' = cwd
<1>1. PICK path \in Paths : path = normalize_path(arg) /\ echo = <<>>
  BY GivenPath DEF mkdir
<1>2. fs_mkdir(path) /\ cwd' = cwd /\ echo' = <<>>
  BY <1>1 DEF mkdir
<1>3. PICK L, C : Holds(L, C)
  BY DEF ShellInv, Inv, Kept
<1>4. AsStore!Mkdir(path) \/ MakesNothing
  BY <1>2, <1>3, MkdirSteps
<1>5. DirsStay({})
  BY <1>4, MkdirKeepsDirs, SameDirs DEF MakesNothing
<1>6. Inv'
  BY <1>2, <1>3, MakeGoes, GoneOn DEF ShellInv, Inv
<1>7. fd' = <<>>
  BY <1>2 DEF fs_mkdir, Fails
<1> QED BY <1>2, <1>5, <1>6, <1>7 DEF ShellInv, EchoIsAtWork, Within

LEMMA ShellRemoves ==
  ASSUME ~Fills, ~TruncatesLong, ShellInv, NEW arg \in Args, rm(arg)
  PROVE  ShellInv' /\ DirsStay({normalize_path(arg)}) /\ cwd' = cwd
<1>1. PICK path \in Paths : path = normalize_path(arg) /\ fd = <<>> /\ echo = <<>>
  BY GivenPath DEF rm
<1>2. /\ UNCHANGED vars \/ fs_remove(path) \/ fs_rmdir(path)
      /\ cwd' = cwd /\ echo' = <<>>
  BY <1>1 DEF rm
<1>3. PICK L, C : Holds(L, C)
  BY DEF ShellInv, Inv, Kept
<1>4. DirsStay({path}) /\ Inv' /\ fd' = <<>>
  <2>1. CASE UNCHANGED vars
    <3>1. Inv' /\ Tree' = Tree
      BY <2>1, NextKeeps, TreeKept DEF ShellInv
    <3>2. fd' = <<>>
      BY <1>1, <2>1 DEF vars
    <3> QED BY <3>1, <3>2, SameDirs DEF DirsStay
  <2>2. CASE fs_remove(path) \/ fs_rmdir(path)
    <3>1. AsStore!RemoveFile(path) \/ AsStore!RemoveDir(path)
      BY <1>3, <2>2, RemoveSteps
    <3>2. Inv'
      BY <1>3, <2>2, RemoveGoes, GoneOn DEF ShellInv, Inv
    <3>3. fd' = <<>>
      BY <1>1, <2>2 DEF fs_remove, fs_rmdir, Fails, Erase
    <3> QED BY <3>1, <3>2, <3>3, RemoveDropsOne
  <2> QED BY <1>2, <2>1, <2>2
<1> QED BY <1>1, <1>2, <1>4 DEF ShellInv, EchoIsAtWork, Within

\* echo opens a file at its end: what is there is kept and followed, or cut.
LEMMA OpensAtEnd ==
  ASSUME NEW path, NEW flags, fs_open(path, flags), ~FirstIntoFull,
         "APPEND" \in flags \/ "TRUNCATE" \in flags
  PROVE  fd' = <<>> \/ fd'[1].dir \/ fd'[1].pos = fd'[1].size
<1>1. fd = <<>>
  BY DEF fs_open
<1>2. ASSUME NEW chain, NEW entry, NEW loc, fd' = <<File(chain, entry, loc, flags)>>,
             entry.dir \/ "APPEND" \in flags \/ entry.size = 0
      PROVE  fd'[1].dir \/ fd'[1].pos = fd'[1].size
  BY <1>2 DEF File
<1>3. CASE OpenRoot
  BY <1>3 DEF OpenRoot, Root, File
<1>4. CASE OpenFails(path, flags)
  BY <1>1, <1>4 DEF OpenFails
<1>5. CASE OpenExisting(path, flags)
  <2> DEFINE entry == At(Located(path))
             cut == "TRUNCATE" \in flags /\ ~entry.dir
             now == IF cut THEN [entry EXCEPT !.size = 0] ELSE entry
  <2>1. \E chain : fd' = <<File(chain, now, Located(path), flags)>>
    BY <1>5, Zenon DEF OpenExisting, Opened
  <2>2. cut => now.size = 0
    OBVIOUS
  <2> QED BY <1>2, <2>1, <2>2
<1>6. CASE OpenCreates(path, flags)
  <2>1. fd' = fd \/ \E chain, loc :
          fd' = <<File(chain, NewEntry(Last(path), FALSE, 0), loc, flags)>>
    BY <1>6, Zenon DEF OpenCreates, Opened, CreateLost
  <2>2. NewEntry(Last(path), FALSE, 0).size = 0
    BY DEF NewEntry
  <2> QED BY <1>1, <1>2, <2>1, <2>2
<1> QED BY <1>3, <1>4, <1>5, <1>6 DEF fs_open

LEMMA EchoOpensIt ==
  ASSUME ~Fills, ~TruncatesLong, ShellInv, NEW arg \in Args, NEW buffer \in Buffers,
         NEW append \in BOOLEAN, EchoOpens(arg, buffer, append)
  PROVE  ShellInv' /\ DirsStay({}) /\ cwd' = cwd
<1>1. PICK path \in Paths : path = normalize_path(arg)
  BY GivenPath, Zenon DEF EchoOpens
<1>2. PICK flags : flags = Mode(append)
  OBVIOUS
<1>3. PICK text \in Seq(Data) : text = Text(buffer, append)
  <2>1. buffer \in Seq(Data) /\ <<Newline>> \in Seq(Data)
    BY ShellAssumption
  <2>2. <<Newline>> \o buffer \in Seq(Data)
    BY <2>1
  <2> QED BY <2>1, <2>2 DEF Text
<1>4. /\ fs_open(path, flags) /\ cwd' = cwd
      /\ echo' = IF res' = -1 THEN <<>>
                 ELSE <<[path |-> path, text |-> text, wrote |-> FALSE]>>
  BY <1>1, <1>2, <1>3, Zenon DEF EchoOpens
<1>5. PICK L, C : Holds(L, C)
  BY DEF ShellInv, Inv, Kept
<1>6. AsStore!Open(path) \/ (FirstIntoFull /\ MakesNothing)
  BY <1>4, <1>5, OpenSteps
<1>7. DirsStay({})
  BY <1>6, OpenKeepsDirs, SameDirs DEF MakesNothing
<1>8. Inv'
  BY <1>4, <1>5, OpenGoes, GoneOn DEF ShellInv, Inv
<1>9. Within'
  BY <1>4, <1>8, OpensWithin DEF Inv, Kept, Holds
<1>10. EchoIsAtWork'
  <2>1. CASE res' = -1
    BY <1>4, <2>1 DEF EchoIsAtWork
  <2>2. CASE res' # -1
    <3>1. ASSUME ~FirstIntoFull
          PROVE  /\ \E pos : Handle' = <<[path |-> path, pos |-> pos, listed |-> {}]>>
                 /\ fd'[1].dir \/ fd'[1].pos = fd'[1].size
      <4>1. AsStore!Open(path)
        BY <1>6, <3>1
      <4>2. \E pos : Handle' = <<[path |-> path, pos |-> pos, listed |-> {}]>>
        BY <2>2, <4>1, Zenon DEF AsStore!Open, AsStore!Opened, AsStore!Returns
      <4>3. fd' # <<>>
        BY <4>2, NoHandleNext
      <4>4. fd'[1].dir \/ fd'[1].pos = fd'[1].size
        BY <1>2, <1>4, <3>1, <4>3, OpensAtEnd DEF Mode
      <4> QED BY <4>2, <4>4
    <3>2. echo' = <<[path |-> path, text |-> text, wrote |-> FALSE]>>
      BY <1>4, <2>2
    <3> QED BY <3>1, <3>2 DEF EchoIsAtWork
  <2> QED BY <2>1, <2>2
<1> QED BY <1>4, <1>7, <1>8, <1>9, <1>10 DEF ShellInv

LEMMA AppendedEnds ==
  ASSUME NEW S, NEW s \in Seq(S), NEW t \in Seq(S)
  PROVE  IsSuffix(t, s \o t)
<1> DEFINE u == s \o t  m == Len(s)  n == Len(t)  a == Reverse(t)  b == Reverse(u)
<1>1. m \in Nat /\ n \in Nat /\ u \in Seq(S) /\ Len(u) = m + n
  OBVIOUS
<1>2. \A i \in 1 .. n : u[m + i] = t[i]
  OBVIOUS
<1> HIDE DEF u
<1>3. a = [i \in 1 .. n |-> t[(n - i) + 1]] /\ b = [i \in 1 .. m + n |-> u[(m + n - i) + 1]]
  BY <1>1 DEF Reverse
<1> HIDE DEF m, n, a, b
<1>4. \A i \in 1 .. n : a[i] = b[i] /\ a[i] \in S
  <2> SUFFICES ASSUME NEW i \in 1 .. n PROVE a[i] = b[i] /\ a[i] \in S
    OBVIOUS
  <2> DEFINE j == (n - i) + 1
  <2>1. j \in 1 .. n /\ (m + n - i) + 1 = m + j /\ i \in 1 .. m + n
    BY <1>1
  <2>2. a[i] = t[j]
    BY <1>3
  <2>3. b[i] = u[m + j]
    BY <1>3, <2>1
  <2>4. t[j] \in S
    BY <2>1 DEF n
  <2> HIDE DEF j
  <2> QED BY <1>2, <2>1, <2>2, <2>3, <2>4
<1>5. \A i \in 1 .. m + n : b[i] \in S
  <2> SUFFICES ASSUME NEW i \in 1 .. m + n PROVE b[i] \in S
    OBVIOUS
  <2> DEFINE j == (m + n - i) + 1
  <2>1. j \in 1 .. m + n
    BY <1>1
  <2>2. b[i] = u[j]
    BY <1>3
  <2> HIDE DEF j
  <2> QED BY <1>1, <2>1, <2>2
<1>6. a \in Seq(S) /\ Len(a) = n /\ b \in Seq(S) /\ Len(b) = m + n
  <2>1. a = [i \in 1 .. n |-> a[i]] /\ b = [i \in 1 .. m + n |-> b[i]]
    BY <1>3, Zenon
  <2>2. a \in [1 .. n -> S]
    BY <1>4, <2>1
  <2>3. b \in [1 .. m + n -> S] /\ m + n \in Nat
    BY <1>1, <1>5, <2>1
  <2> QED BY <1>1, <2>2, <2>3
<1>7. SubSeq(a, 1, n) = SubSeq(b, 1, n)
  <2>1. SubSeq(a, 1, n) = [i \in 1 .. n |-> a[i]]
    BY <1>1, <1>6
  <2>2. SubSeq(b, 1, n) = [i \in 1 .. n |-> b[i]]
    BY <1>1, <1>6
  <2> QED BY <1>4, <2>1, <2>2
<1>8. IsPrefix(a, b)
  BY <1>1, <1>6, <1>7 DEF IsPrefix
<1> QED BY <1>8 DEF IsSuffix, a, b, u

\* What is written to a file that is open at its end comes behind what it holds.
LEMMA WriteAppends ==
  ASSUME Inv, ~EntryIsNowhere, fd # <<>>, fd[1].dir \/ fd[1].pos = fd[1].size,
         NEW text \in Seq(Data), NEW word, fs_write(text, word), AsStore!Write(text), res' # -1
  PROVE  IsSuffix(text, (Tree[Handle[1].path].data)')
<1>1. PICK L, C : Holds(L, C)
  BY DEF Inv, Kept
<1>2. Layout(fat, content, L, C) /\ Handled(fat, content, L, C, fd)
  BY <1>1 DEF Holds
<1>3. PICK h \in FileRec : fd = <<h>> /\ (Held(content, L, C, h) \/ Adrift(fat, L, C, h))
  BY <1>2 DEF Handled
<1>4. fd[1] = h /\ ~h.dir
  <2>1. ~OnDirectory
    BY DEF OnDirectory, Returns
  <2> QED BY <1>3, <2>1 DEF fs_write, OfNothing
<1>5. Held(content, L, C, h) /\ h.pos = h.size /\ h.size \in Nat
  BY <1>3, <1>4 DEF Adrift, EntryIsNowhere, FileRec
<1>6. PICK path \in Paths \ {<<>>} :
         /\ path \in DOMAIN Tree /\ ~AsStore!IsDir(path)
         /\ Tree[path].data = TextOf(content, C[h.loc], h.size)
         /\ Handle = <<[path |-> path, pos |-> h.pos, listed |-> {}]>>
  BY <1>1, <1>3, <1>4, <1>5, OpenFileIs
<1>7. PICK old : old = Tree[path].data
  OBVIOUS
<1>8. old \in Seq(Cell) /\ Len(old) = h.size
  <2>1. \A k \in 1 .. h.size : Word(content, Slot(C[h.loc], k)) \in Cell
    <3>1. h.size = Word(content, h.loc).size /\ h.loc \in L \ {NoLoc}
          /\ ~Word(content, h.loc).dir
      BY <1>4, <1>5 DEF Held, IsDir
    <3>2. 1 .. h.size \subseteq Places(C[h.loc])
      BY <1>2, <3>1, NodeData
    <3> QED BY <1>2, <3>1, <3>2, SlotIsHeld
  <2> QED BY <1>5, <1>6, <1>7, <2>1, TextType
<1>9. text \in Seq(Cell) /\ Len(text) \in Nat
  BY DEF Cell
<1>10. Tree'[path].data = Splice(old, text, h.size, h.size + Len(text))
  <2>1. PICK hh : hh = Handle[1]
    OBVIOUS
  <2>2. hh.path = path /\ hh.pos = h.size
    BY <1>5, <1>6, <2>1
  <2>3. AsStore!Put(path, [dir |-> FALSE, data |->
          SubSeq(old, 1, hh.pos) \o text
            \o SubSeq(old, hh.pos + Len(text) + 1, Len(old))])
    BY <1>6, <1>7, <2>1, <2>2 DEF AsStore!Write
  <2> QED BY <1>6, <2>2, <2>3 DEF AsStore!Put, Splice
<1>11. Splice(old, text, h.size, h.size + Len(text)) = old \o text
  <2> DEFINE n == h.size
  <2>1. n \in Nat /\ Len(old) = n
    BY <1>5, <1>8
  <2> HIDE DEF n
  <2>2. SubSeq(old, 1, n) = old
    BY <1>8, <2>1
  <2>3. SubSeq(old, n + Len(text) + 1, n) = <<>>
    BY <1>8, <1>9, <2>1
  <2>4. (old \o text) \o <<>> = old \o text
    BY <1>8, <1>9
  <2> QED BY <2>1, <2>2, <2>3, <2>4 DEF n, Splice
<1>12. Tree'[path].data = old \o text
  BY <1>10, <1>11
<1>13. Handle'[1].path = path
  <2>1. AsStore!IsDir(Handle[1].path) = FALSE
    BY <1>6
  <2>2. PICK hh : hh = [path |-> path, pos |-> h.pos, listed |-> {}]
    OBVIOUS
  <2>3. Handle' = <<[hh EXCEPT !.pos = hh.pos + Len(text)]>>
    BY <1>6, <2>2 DEF AsStore!Write
  <2>4. [hh EXCEPT !.pos = hh.pos + Len(text)].path = path
    BY <2>2
  <2> QED BY <2>3, <2>4
<1>14. IsSuffix(text, old \o text)
  BY <1>8, <1>9, AppendedEnds
<1> QED BY <1>12, <1>13, <1>14

LEMMA EchoWritesIt ==
  ASSUME ~Fills, ~TruncatesLong, ShellInv, NEW word, EchoWrites(word)
  PROVE  ShellInv' /\ DirsStay({}) /\ cwd' = cwd
<1>1. echo # <<>> /\ ~echo[1].wrote /\ cwd' = cwd
  BY Zenon DEF EchoWrites
<1>2. PICK path \in Paths, text \in Seq(Data), wrote \in BOOLEAN :
        /\ echo = <<[path |-> path, text |-> text, wrote |-> wrote]>>
        /\ ~FirstIntoFull =>
             /\ \E pos : Handle = <<[path |-> path, pos |-> pos, listed |-> {}]>>
             /\ ~wrote => fd[1].dir \/ fd[1].pos = fd[1].size
  BY <1>1 DEF ShellInv, EchoIsAtWork
<1>3. PICK e : e = [path |-> path, text |-> text, wrote |-> wrote]
  OBVIOUS
<1>4. echo = <<e>> /\ e.text = text /\ e.wrote = wrote /\ ~wrote
  BY <1>1, <1>2, <1>3
<1>5. /\ fs_write(text, word)
      /\ echo' = <<[e EXCEPT !.wrote = TRUE]>>
      /\ shown' = IF res' = -1 THEN Message("Failed to write content.") ELSE Nothing
  BY <1>4, Zenon DEF EchoWrites
<1>6. echo' = <<[path |-> path, text |-> text, wrote |-> TRUE]>>
  <2>1. [e EXCEPT !.wrote = TRUE] = [path |-> path, text |-> text, wrote |-> TRUE]
    <3>1. e \in [path : {path}, text : {text}, wrote : BOOLEAN]
      BY <1>3
    <3> DEFINE yes == TRUE
    <3> HIDE DEF yes
    <3>2. [e EXCEPT !.wrote = yes] \in [path : {path}, text : {text}, wrote : {yes}]
      BY <3>1
    <3>3. [e EXCEPT !.wrote = yes] = [path |-> path, text |-> text, wrote |-> yes]
      BY <3>2
    <3> QED BY <3>3 DEF yes
  <2> QED BY <1>5, <2>1, Zenon
<1>7. PICK L, C : Holds(L, C)
  BY DEF ShellInv, Inv, Kept
<1>8. Inv'
  BY <1>5, <1>7, WriteGoes, GoneOn, Zenon DEF ShellInv, Inv
<1>9. CASE EntryIsNowhere
  <2>1. MakesNothing
    BY <1>5, <1>7, <1>9, NowhereWrites, Zenon DEF ShellInv, Inv
  <2>2. fd' # <<>> /\ fd'[1].loc = fd[1].loc
    <3>1. fd # <<>> /\ Handled(fat, content, L, C, fd)
      BY <1>7, <1>9 DEF EntryIsNowhere, Holds
    <3>2. PICK h \in FileRec : fd = <<h>>
      BY <3>1 DEF Handled
    <3>3. fd # <<>> /\ fd[1] = h
      BY <3>2
    <3> QED BY <1>5, <3>3, WriteStays, Zenon
  <2>3. EntryIsNowhere'
    BY <1>9, <2>2 DEF EntryIsNowhere
  <2>4. FirstIntoFull
    BY <1>2, <1>9, NoHandle
  <2>5. EchoIsAtWork'
    BY <1>6, <2>4 DEF EchoIsAtWork
  <2> QED BY <1>1, <1>8, <2>1, <2>3, <2>5, SameDirs DEF MakesNothing, Within, ShellInv
<1>10. CASE ~EntryIsNowhere
  <2>1. AsStore!Write(text) /\ Within'
    BY <1>5, <1>7, <1>10, WriteSteps, Zenon DEF ShellInv
  <2>2. EchoIsAtWork'
    <3>1. ASSUME ~FirstIntoFull
          PROVE  /\ \E pos : Handle' = <<[path |-> path, pos |-> pos, listed |-> {}]>>
                 /\ shown' = Nothing => IsSuffix(text, Tree'[path].data)
      <4>1. PICK hh, pos : /\ hh = [path |-> path, pos |-> pos, listed |-> {}]
                           /\ Handle = <<hh>>
        BY <1>2, <3>1
      <4>2. fd # <<>> /\ (fd[1].dir \/ fd[1].pos = fd[1].size)
        BY <1>2, <1>4, <3>1, <4>1, NoHandle
      <4>3. \E end : Handle' = <<[path |-> path, pos |-> end, listed |-> {}]>>
        <5>1. CASE Handle' = Handle
          BY <4>1, <5>1
        <5>2. ASSUME NEW end, Handle' = <<[hh EXCEPT !.pos = end]>>
              PROVE  Handle' = <<[path |-> path, pos |-> end, listed |-> {}]>>
          <6>1. [hh EXCEPT !.pos = end] = [path |-> path, pos |-> end, listed |-> {}]
            <7>1. hh = HandleAt(path, pos, {})
              BY <4>1 DEF HandleAt
            <7>2. MovedTo(hh, end) = HandleAt(path, end, {})
              BY <7>1, MovedOn
            <7> QED BY <7>2 DEF MovedTo, HandleAt
          <6> QED BY <5>2, <6>1
        <5>3. Handle' = Handle \/ \E end : Handle' = <<[hh EXCEPT !.pos = end]>>
          <6>1. Handle[1] = hh
            BY <4>1
          <6> QED BY <2>1, <6>1, Zenon DEF AsStore!Write, AsStore!Keep
        <5> QED BY <5>1, <5>2, <5>3
      <4>4. ASSUME shown' = Nothing
            PROVE  IsSuffix(text, Tree'[path].data)
        <5>1. res' # -1
          <6>1. Message("Failed to write content.").says = "Failed to write content."
            BY DEF Message
          <6>2. Nothing.says = ""
            BY DEF Nothing, Output
          <6>3. Message("Failed to write content.") # Nothing
            BY <6>1, <6>2, Zenon
          <6> QED BY <1>5, <4>4, <6>3, Zenon
        <5>2. IsSuffix(text, (Tree[Handle[1].path].data)')
          BY <1>5, <1>10, <2>1, <4>2, <5>1, WriteAppends DEF ShellInv
        <5>3. Handle'[1].path = path
          BY <4>3
        <5> QED BY <5>2, <5>3
      <4> QED BY <4>3, <4>4
    <3> QED BY <1>6, <3>1 DEF EchoIsAtWork
  <2>3. DirsStay({})
    BY <2>1, WriteKeepsDirs
  <2> QED BY <1>1, <1>8, <2>1, <2>2, <2>3 DEF ShellInv
<1> QED BY <1>9, <1>10

LEMMA EchoClosesIt ==
  ASSUME ~Fills, ~TruncatesLong, ShellInv, EchoCloses
  PROVE  ShellInv' /\ DirsStay({}) /\ cwd' = cwd
<1>1. fs_close /\ echo' = <<>> /\ cwd' = cwd
  BY DEF EchoCloses
<1>2. PICK L, C : Holds(L, C)
  BY DEF ShellInv, Inv, Kept
<1>3. Inv'
  BY <1>1, <1>2, OthersGo, GoneOn DEF ShellInv, Inv
<1>4. fd' = <<>> /\ fat' = fat /\ content' = content
  BY <1>1 DEF fs_close, disk
<1>5. DirsStay({})
  BY <1>2, <1>4, DiskKept, SameDirs DEF Holds
<1> QED BY <1>1, <1>3, <1>4, <1>5 DEF ShellInv, Within, EchoIsAtWork

CwdStep ==
  /\ cwd' # cwd => Kind(cwd)' = "directory"
  /\ Kind(cwd) = "directory" /\ Kind(cwd)' # "directory" =>
       \E arg \in Args : rm(arg) /\ normalize_path(arg) = cwd

LEMMA ShellSteps ==
  ASSUME ~Fills, ~TruncatesLong, ShellInv, [ShellNext]_shellVars
  PROVE  ShellInv' /\ CwdStep
<1>1. ASSUME NEW gone, DirsStay(gone), cwd' = cwd, ShellInv',
             cwd \notin gone \/ \E arg \in Args : rm(arg) /\ normalize_path(arg) = cwd
      PROVE  ShellInv' /\ CwdStep
  <2>1. ASSUME Kind(cwd) = "directory", cwd \notin gone
        PROVE  Kind(cwd)' = "directory"
    <3>1. PICK path \in Paths : path = cwd
      BY DEF ShellInv
    <3>2. AsStore!IsDir(path)
      BY <2>1, <3>1, KindNow DEF ShellInv, KindIsTold
    <3>3. AsStore!IsDir(path)'
      BY <1>1, <2>1, <3>1, <3>2 DEF DirsStay
    <3>4. Kind(path)' = "directory"
      BY <1>1, <3>3, KindNext DEF ShellInv, KindIsTold
    <3> QED BY <1>1, <3>1, <3>4
  <2> QED BY <1>1, <2>1 DEF CwdStep
<1>2. ASSUME DirsStay({}), cwd' = cwd, ShellInv'
      PROVE  ShellInv' /\ CwdStep
  BY <1>1, <1>2
<1>3. CASE UNCHANGED shellVars
  <2>1. UNCHANGED vars /\ cwd' = cwd /\ echo' = echo /\ shown' = shown
    BY <1>3 DEF shellVars
  <2>2. Tree' = Tree /\ Handle' = Handle /\ fd' = fd
    BY <2>1, TreeKept DEF ShellInv, vars
  <2>3. Inv' /\ Within'
    BY <2>1, NextKeeps DEF ShellInv, vars, Within, EntryIsNowhere
  <2>4. EchoIsAtWork'
    BY <2>1, <2>2 DEF ShellInv, EchoIsAtWork
  <2> QED BY <1>2, <2>1, <2>2, <2>3, <2>4, SameDirs DEF ShellInv
<1>4. ASSUME NEW arg \in Args, cd(arg)
      PROVE  ShellInv' /\ CwdStep
  <2>1. /\ ShellInv' /\ DirsStay({})
        /\ cwd' # cwd => Kind(cwd)' = "directory"
    BY <1>4, CdSteps
  <2> QED BY <1>2, <2>1 DEF CwdStep
<1>5. CASE pwd \/ \E arg \in Args : stat(arg) \/ cat(arg) \/ ls(arg)
  BY <1>2, <1>5, LookSteps
<1>6. ASSUME NEW arg \in Args, mkdir(arg)
      PROVE  ShellInv' /\ CwdStep
  BY <1>2, <1>6, ShellMakes
<1>7. ASSUME NEW arg \in Args, rm(arg)
      PROVE  ShellInv' /\ CwdStep
  <2>1. ShellInv' /\ DirsStay({normalize_path(arg)}) /\ cwd' = cwd
    BY <1>7, ShellRemoves
  <2> QED BY <1>1, <1>7, <2>1
<1>8. ASSUME NEW arg \in Args, NEW buffer \in Buffers, NEW append \in BOOLEAN,
             EchoOpens(arg, buffer, append)
      PROVE  ShellInv' /\ CwdStep
  BY <1>2, <1>8, EchoOpensIt
<1>9. ASSUME NEW word \in Beyond, EchoWrites(word)
      PROVE  ShellInv' /\ CwdStep
  BY <1>2, <1>9, EchoWritesIt
<1>10. CASE EchoCloses
  BY <1>2, <1>10, EchoClosesIt
<1> QED BY <1>3, <1>4, <1>5, <1>6, <1>7, <1>8, <1>9, <1>10 DEF ShellNext

LEMMA ShellStarts == ShellInit => ShellInv
BY InitKeeps DEF ShellInit, ShellInv, Init, Within, EchoIsAtWork

LEMMA ShellInvariance ==
  ASSUME ~Fills, ~TruncatesLong
  PROVE  ShellSpec => []ShellInv
BY ShellStarts, ShellSteps, PTL DEF ShellSpec

------------------------------------------------------------------------------
(* What cat and ls show *)

\* The file or directory that a command opens.
LEMMA FileOpened ==
  ASSUME NEW L, NEW C, Layout(fat, content, L, C), NEW path \in Paths,
         path = <<>> \/ Located(path) # NoLoc
  PROVE  /\ FileAt(path) \in FileRec /\ Held(content, L, C, FileAt(path)) /\ FileAt(path).pos = 0
         /\ Leads(content, L, C, path, Len(path), FileAt(path).loc)
         /\ path # <<>> => /\ FileAt(path).loc = Located(path)
                           /\ FileAt(path).dir = At(Located(path)).dir
                           /\ FileAt(path).size = At(Located(path)).size
         /\ path = <<>> => FileAt(path).dir
<1>1. CASE path = <<>>
  <2>1. FileAt(path) = Root
    BY <1>1 DEF FileAt
  <2>2. Root \in FileRec /\ Held(content, L, C, Root) /\ Root.loc = NoLoc
    BY RootIsOpened
  <2>3. Root.pos = 0 /\ Root.dir
    BY DEF Root, File
  <2>4. Leads(content, L, C, <<>>, 0, NoLoc)
    BY LeadsNowhere DEF Layout, Typed
  <2> QED BY <1>1, <2>1, <2>2, <2>3, <2>4
<1>2. CASE path # <<>>
  <2> DEFINE loc == Located(path)  e == At(loc)  chain == resolve_chain(fat, e.clus)
  <2>1. /\ loc \in L \ {NoLoc} /\ Leads(content, L, C, path, Len(path), loc)
    BY <1>2, ExistsIs
  <2>2. FileAt(path) = File(chain, e, loc, {})
    BY <1>2 DEF FileAt
  <2> HIDE DEF loc
  <2>3. /\ e = Word(content, loc) /\ e \in Entries /\ (IsDir(content, loc) <=> e.dir)
        /\ chain = C[loc] /\ loc \in Locs
    BY <2>1, EntryHere
  <2>4. e.dir \in BOOLEAN /\ e.size \in Nat /\ chain \in Seq(Clusters)
    BY <2>1, <2>3, EntryType, ChainFacts
  <2> HIDE DEF e, chain
  <2> DEFINE h == File(chain, e, loc, {})
  <2>5. /\ h \in FileRec /\ h.chain = chain /\ h.dir = e.dir /\ h.size = e.size
        /\ h.loc = loc /\ h.pos = 0
    BY <2>3, <2>4, FileType
  <2> HIDE DEF h
  <2>6. Held(content, L, C, h)
    BY <2>1, <2>3, <2>5 DEF Held
  <2> QED BY <1>2, <2>1, <2>2, <2>5, <2>6 DEF h, e, loc
<1> QED BY <1>1, <1>2

\* The text of a file.
FileText(C, h) == TextOf(content, C[h.loc], h.size)

LEMMA FileTextIs ==
  ASSUME NEW L, NEW C, Layout(fat, content, L, C),
         NEW h \in FileRec, Held(content, L, C, h), ~h.dir
  PROVE  /\ FileText(C, h) \in Seq(Cell) /\ Len(FileText(C, h)) = h.size /\ h.size \in Nat
<1>1. h.size \in Nat
  BY DEF FileRec
<1>2. h.loc \in L \ {NoLoc} /\ ~Word(content, h.loc).dir /\ h.size = Word(content, h.loc).size
  BY DEF Held, IsDir
<1>3. 1 .. h.size \subseteq Places(C[h.loc])
  BY <1>2, NodeData
<1>4. \A j \in 1 .. h.size : Word(content, Slot(C[h.loc], j)) \in Cell
  BY <1>2, <1>3, SlotIsHeld
<1> QED BY <1>1, <1>4, TextType DEF FileText

\* What fs_read gives from the k-th cell on follows what is before it.
GoesOn(data, h, k, cnt, last) ==
  /\ last \in Nat /\ k <= last /\ last <= h.size
  /\ last = k + cnt \/ (last = h.size /\ last <= k + cnt)
  /\ SubSeq(data, 1, k) \o Got([h EXCEPT !.pos = k], cnt) = SubSeq(data, 1, last)

LEMMA OneTurn ==
  ASSUME NEW L, NEW C, Layout(fat, content, L, C),
         NEW h \in FileRec, Held(content, L, C, h), ~h.dir,
         NEW cnt \in Nat, NEW k \in Nat, k <= h.size
  PROVE  \E last : GoesOn(FileText(C, h), h, k, cnt, last)
<1>1. PICK o : o = [h EXCEPT !.pos = k]
  OBVIOUS
<1>2. /\ o \in FileRec /\ o.chain = h.chain /\ o.dir = h.dir /\ o.size = h.size
      /\ o.loc = h.loc /\ o.pos = k
  BY <1>1 DEF FileRec
<1>3. Held(content, L, C, o) /\ ~o.dir /\ o.pos <= o.size
  BY <1>2 DEF Held
<1> DEFINE data == TextOf(content, C[o.loc], o.size)
           last == IF o.pos + cnt < o.size THEN o.pos + cnt ELSE o.size
<1>4. /\ Got(o, cnt) = SubSeq(data, o.pos + 1, last)
      /\ last \in Nat /\ o.pos <= last /\ last <= o.size
  BY <1>2, <1>3, GotIs, ZenonT(40)
<1>5. data \in Seq(Cell) /\ Len(data) = h.size /\ h.size \in Nat /\ data = FileText(C, h)
  BY <1>2, FileTextIs DEF FileText
<1>6. last = k + cnt \/ (last = h.size /\ last <= k + cnt)
  BY <1>2, <1>5
<1> HIDE DEF data, last
<1>7. SubSeq(data, 1, k) \o SubSeq(data, k + 1, last) = SubSeq(data, 1, last)
  <2>1. data \in Seq(Cell) /\ last \in Nat /\ k <= last /\ last <= Len(data)
    BY <1>2, <1>4, <1>5
  <2> QED BY <2>1, TextGoesOn, Zenon
<1>8. Got(o, cnt) = SubSeq(data, k + 1, last)
  BY <1>2, <1>4
<1> QED BY <1>1, <1>2, <1>4, <1>5, <1>6, <1>7, <1>8 DEF GoesOn

\* The file's text up to a turn of cat's loop: all of it or whole chunks.
PrintedUpto(data, n, text, i) ==
  \E k \in Nat : k <= n /\ text = SubSeq(data, 1, k) /\ (k = n \/ k = i * Chunk)

\* A turn of it, but the last, prints a chunk or the rest.
OneChunk(data, h, n, turns, k, i, last) ==
  /\ last \in Nat /\ k <= last /\ last <= n
  /\ i # turns => last = k + Chunk \/ last = n
  /\ PrintedOn(h, SubSeq(data, 1, k), i) = SubSeq(data, 1, last)

LEMMA PrintedIs ==
  ASSUME NEW L, NEW C, Layout(fat, content, L, C),
         NEW h \in FileRec, Held(content, L, C, h), ~h.dir
  PROVE  Printed(h) = FileText(C, h)
<1> DEFINE turns == (h.size + Chunk - 1) \div Chunk
           text[i \in 0 .. turns + 1] ==
             IF i = 0 THEN <<>> ELSE PrintedOn(h, text[i - 1], i - 1)
<1>1. Printed(h) = text[turns + 1]
  BY DEF Printed
<1> PICK data : data = FileText(C, h)
  OBVIOUS
<1> PICK n : n = h.size
  OBVIOUS
<1>2. data \in Seq(Cell) /\ Len(data) = n /\ n \in Nat /\ Chunk \in Nat \ {0}
  BY FileTextIs, ShellAssumption
<1>3. turns \in Nat /\ turns * Chunk >= n
  <2> DEFINE a == n + Chunk - 1  q == a \div Chunk  r == a % Chunk
  <2>1. a \in Nat
    BY <1>2
  <2> HIDE DEF a
  <2>2. q \in Nat /\ r \in 0 .. Chunk - 1 /\ a = Chunk * q + r
    BY <1>2, <2>1, Division
  <2>3. q = turns
    BY DEF a
  <2> HIDE DEF q, r, turns
  <2>4. Chunk * q \in Nat /\ q * Chunk = Chunk * q
    BY <1>2, <2>2
  <2>5. q * Chunk >= n
    BY <1>2, <2>2, <2>4 DEF a
  <2> QED BY <2>2, <2>3, <2>5
<1>4. \A i \in Nat : Asked(h, i) \in Nat /\ (i # turns => Asked(h, i) = Chunk)
  BY <1>2 DEF Asked
<1> HIDE DEF turns
<1> DEFINE m == turns + 1
           S == {SubSeq(data, 1, k) : k \in 0 .. n}
           step == [p \in S \X (1 .. m) |-> PrintedOn(h, p[1], p[2] - 1)]
<1>5. ASSUME NEW k \in Nat, k <= n, NEW i \in Nat
      PROVE  \E last : OneChunk(data, h, n, turns, k, i, last)
  <2>1. PICK last : GoesOn(data, h, k, Asked(h, i), last)
    BY <1>4, <1>5, OneTurn
  <2>2. Len(SubSeq(data, 1, k)) = k
    BY <1>2, <1>5
  <2>3. PrintedOn(h, SubSeq(data, 1, k), i)
          = SubSeq(data, 1, k) \o Got([h EXCEPT !.pos = k], Asked(h, i))
    BY <2>2 DEF PrintedOn
  <2> QED BY <1>4, <2>1, <2>3 DEF GoesOn, OneChunk
<1>6. PICK w : IsRecursion(w, m, S, <<>>, step)
  <2>1. <<>> \in S
    <3>1. SubSeq(data, 1, 0) = <<>> /\ 0 \in 0 .. n
      BY <1>2
    <3> QED BY <3>1
  <2>2. step \in [S \X (1 .. m) -> S]
    <3> SUFFICES ASSUME NEW k \in 0 .. n, NEW i \in 1 .. m
                 PROVE  PrintedOn(h, SubSeq(data, 1, k), i - 1) \in S
      OBVIOUS
    <3>1. k \in Nat /\ k <= n /\ i - 1 \in Nat
      BY <1>2, <1>3
    <3>2. PICK last : OneChunk(data, h, n, turns, k, i - 1, last)
      BY <1>5, <3>1
    <3>3. last \in 0 .. n
      BY <1>2, <3>2 DEF OneChunk
    <3> QED BY <3>2, <3>3 DEF OneChunk
  <2>3. m \in Nat
    BY <1>3
  <2> HIDE DEF S, step, m
  <2> QED BY <2>1, <2>2, <2>3, Recursion
<1>7. w = [i \in 0 .. turns + 1 |-> IF i = 0 THEN <<>> ELSE PrintedOn(h, w[i - 1], i - 1)]
  <2>1. ASSUME NEW i \in 1 .. m
        PROVE  w[i] = PrintedOn(h, w[i - 1], i - 1)
    <3>1. i - 1 \in 0 .. m
      BY <1>3
    <3>2. w[i - 1] \in S
      BY <1>6, <3>1 DEF IsRecursion
    <3>3. w[i] = step[<<w[i - 1], i>>]
      BY <1>6 DEF IsRecursion
    <3> HIDE DEF S
    <3> QED BY <3>2, <3>3
  <2>2. \A i \in 0 .. m : i # 0 => i \in 1 .. m
    BY <1>3
  <2> HIDE DEF step, S
  <2> QED BY <1>6, <2>1, <2>2 DEF IsRecursion
<1>8. text = [i \in 0 .. turns + 1 |-> IF i = 0 THEN <<>> ELSE PrintedOn(h, text[i - 1], i - 1)]
  BY <1>7
<1> HIDE DEF text, S, step
<1>9. /\ text[0] = <<>>
      /\ \A i \in Nat : i <= turns => text[i + 1] = PrintedOn(h, text[i], i)
  <2>1. text[0] = <<>>
    BY <1>3, <1>8
  <2>2. ASSUME NEW i \in Nat, i <= turns
        PROVE  text[i + 1] = PrintedOn(h, text[i], i)
    <3>1. i + 1 \in 0 .. turns + 1 /\ i + 1 # 0 /\ (i + 1) - 1 = i
      BY <1>3, <2>2
    <3> QED BY <1>8, <3>1
  <2> QED BY <2>1, <2>2
<1> DEFINE T == {i \in Nat : i <= turns => PrintedUpto(data, n, text[i], i)}
<1>10. 0 \in T
  <2>1. SubSeq(data, 1, 0) = <<>> /\ 0 = 0 * Chunk /\ 0 <= n
    BY <1>2
  <2> QED BY <1>9, <2>1 DEF PrintedUpto
<1>11. ASSUME NEW i \in Nat, i \in T
       PROVE  i + 1 \in T
  <2> SUFFICES ASSUME i + 1 <= turns
               PROVE  PrintedUpto(data, n, text[i + 1], i + 1)
    OBVIOUS
  <2>1. i <= turns /\ i # turns
    BY <1>3
  <2>2. PICK k \in Nat : k <= n /\ text[i] = SubSeq(data, 1, k) /\ (k = n \/ k = i * Chunk)
    BY <1>11, <2>1 DEF PrintedUpto
  <2>3. PICK last : OneChunk(data, h, n, turns, k, i, last)
    BY <1>5, <2>2
  <2>4. text[i + 1] = SubSeq(data, 1, last)
    BY <1>9, <2>1, <2>2, <2>3 DEF OneChunk
  <2>5. (i + 1) * Chunk = i * Chunk + Chunk
    BY <1>2
  <2>6. last = n \/ last = (i + 1) * Chunk
    BY <1>2, <2>1, <2>2, <2>3, <2>5 DEF OneChunk
  <2> QED BY <2>3, <2>4, <2>6 DEF PrintedUpto, OneChunk
<1>12. PrintedUpto(data, n, text[turns], turns)
  <2> HIDE DEF T
  <2>1. Nat \subseteq T
    BY <1>10, <1>11, Induction
  <2>2. turns \in T /\ turns <= turns
    BY <1>3, <2>1
  <2> QED BY <2>2 DEF T
<1>13. text[turns] = SubSeq(data, 1, n)
  <2>1. PICK k \in Nat : /\ k <= n /\ text[turns] = SubSeq(data, 1, k)
                         /\ k = n \/ k = turns * Chunk
    BY <1>12 DEF PrintedUpto
  <2>2. k = n
    BY <1>2, <1>3, <2>1
  <2> QED BY <2>1, <2>2
<1>14. text[turns + 1] = SubSeq(data, 1, n)
  <2>1. PICK last : OneChunk(data, h, n, turns, n, turns, last)
    BY <1>2, <1>3, <1>5
  <2>2. last = n /\ turns <= turns
    BY <1>2, <1>3, <2>1 DEF OneChunk
  <2> QED BY <1>3, <1>9, <1>13, <2>1, <2>2 DEF OneChunk
<1>15. SubSeq(data, 1, n) = data
  BY <1>2
<1> QED BY <1>1, <1>14, <1>15

\* A sequence that has every element of a set, once.
Gathers(t, X) ==
  /\ t \in Seq(Names)
  /\ \A x : x \in X <=> \E i \in 1 .. Len(t) : t[i] = x
  /\ \A i, j \in 1 .. Len(t) : t[i] = t[j] => i = j

LEMMA GathersOne ==
  ASSUME NEW t, NEW X, Gathers(t, X), NEW x \in Names, x \notin X
  PROVE  Gathers(Append(t, x), X \cup {x})
<1> DEFINE u == Append(t, x)  n == Len(t)
<1>1. t \in Seq(Names) /\ n \in Nat
  BY DEF Gathers
<1>2. /\ u \in Seq(Names) /\ Len(u) = n + 1
      /\ u[n + 1] = x /\ \A i \in 1 .. n : u[i] = t[i]
  BY <1>1
<1> HIDE DEF u
<1>3. /\ \A y : y \in X <=> \E i \in 1 .. n : t[i] = y
      /\ \A i, j \in 1 .. n : t[i] = t[j] => i = j
  BY DEF Gathers
<1>4. \A i \in 1 .. n : t[i] # x
  BY <1>3
<1> HIDE DEF n
<1>5. \A i \in 1 .. n + 1 : i \in 1 .. n \/ i = n + 1
  BY <1>1
<1>6. 1 .. n \subseteq 1 .. n + 1 /\ n + 1 \in 1 .. n + 1
  BY <1>1
<1>7. \A y : y \in X \cup {x} <=> \E i \in 1 .. n + 1 : u[i] = y
  BY <1>2, <1>3, <1>5, <1>6, Zenon
<1>8. \A i, j \in 1 .. n + 1 : u[i] = u[j] => i = j
  BY <1>2, <1>3, <1>4, <1>5, Zenon
<1>9. Gathers(u, X \cup {x})
  BY <1>2, <1>7, <1>8 DEF Gathers
<1> QED BY <1>9 DEF u

LEMMA GathersAll ==
  ASSUME NEW t, NEW X, Gathers(t, X)
  PROVE  Len(t) = Cardinality(X) /\ ToSet(t) = X
<1> DEFINE n == Len(t)
<1>1. t \in Seq(Names) /\ n \in Nat /\ DOMAIN t = 1 .. n /\ t = [i \in 1 .. n |-> t[i]]
  BY DEF Gathers
<1>2. /\ \A y : y \in X <=> \E i \in 1 .. n : t[i] = y
      /\ \A i, j \in 1 .. n : t[i] = t[j] => i = j
  BY DEF Gathers
<1> HIDE DEF n
<1>3. t \in [1 .. n -> X]
  <2>1. \A i \in 1 .. n : t[i] \in X
    BY <1>2
  <2> QED BY <1>1, <2>1
<1>4. t \in Bijection(1 .. n, X)
  <2>1. t \in Injection(1 .. n, X)
    BY <1>2, <1>3 DEF Injection, IsInjective
  <2>2. t \in Surjection(1 .. n, X)
    BY <1>2, <1>3 DEF Surjection
  <2> QED BY <2>1, <2>2 DEF Bijection
<1>5. ExistsBijection(1 .. n, X)
  BY <1>4 DEF ExistsBijection
<1>6. Cardinality(X) = n
  BY <1>1, <1>5, FS_CountingElements
<1>7. ToSet(t) = X
  BY <1>1, <1>2 DEF ToSet
<1> QED BY <1>6, <1>7 DEF n

LEMMA ListedType ==
  ASSUME content \in Disks, NEW s \in Seq(Clusters), NEW word \in Clusters \cup {0}, NEW k \in Nat
  PROVE  Listed(s, word, k) \in Cell
<1> DEFINE i == k \div Cells  r == k % Cells  clus == IF i < Len(s) THEN s[i + 1] ELSE word
<1>1. i \in Nat /\ r \in 0 .. Cells - 1
  BY Division, DiskAssumption
<1>2. r + 1 \in 1 .. Cells
  BY <1>1
<1> HIDE DEF i, r
<1>3. clus \in Clusters \cup {0}
  BY <1>1
<1> HIDE DEF clus
<1>4. ASSUME Valid(clus)
      PROVE  content[clus][r + 1] \in Cell
  <2>1. clus \in Clusters
    BY <1>3, <1>4 DEF Valid
  <2>2. content[clus] \in [1 .. Cells -> Cell]
    BY <2>1 DEF Disks
  <2> QED BY <1>2, <2>2
<1>5. Listed(s, word, k) = IF Valid(clus) THEN content[clus][r + 1] ELSE Zero
  BY DEF Listed, clus, i, r
<1> QED BY <1>4, <1>5 DEF Cell

\* What ls has printed after so many cells, the m-th of them the last.
IsListing(names, h, word, m) ==
  /\ Listing(h, word) = names[m]
  /\ m \in Nat /\ m <= Limit(h.chain)
  /\ m # Limit(h.chain) => Listed(h.chain, word, m) = Zero
  /\ \A k \in Nat : k < m => Listed(h.chain, word, k) # Zero
  /\ names[0] = <<>>
  /\ \A k \in Nat : k < Limit(h.chain) =>
       names[k + 1] = ListedOn(names[k], Listed(h.chain, word, k))
  /\ \A k \in Nat : k <= Limit(h.chain) => names[k] \in Seq(Names \cup Cell)

LEMMA ListingIs ==
  ASSUME content \in Disks, NEW h \in FileRec, h.dir, NEW word \in Clusters \cup {0}
  PROVE  \E names, m : IsListing(names, h, word, m)
<1> DEFINE limit == Limit(h.chain)
           ends == {k \in 0 .. limit - 1 : Listed(h.chain, word, k) = Zero}
           names[k \in 0 .. limit] ==
             IF k = 0 THEN <<>> ELSE ListedOn(names[k - 1], Listed(h.chain, word, k - 1))
           m == Min(ends \cup {limit})
           S == Seq(Names \cup Cell)
           step == [p \in S \X (1 .. limit) |-> ListedOn(p[1], Listed(h.chain, word, p[2] - 1))]
<1>1. Listing(h, word) = names[m]
  BY DEF Listing
<1>2. limit \in Nat /\ h.chain \in Seq(Clusters)
  BY TurnIs DEF FileRec
<1> HIDE DEF limit
<1>3. /\ m \in Nat /\ m <= limit
      /\ m # limit => Listed(h.chain, word, m) = Zero
      /\ \A k \in Nat : k < m => Listed(h.chain, word, k) # Zero
  <2>1. ends \cup {limit} \subseteq Nat
    BY <1>2
  <2> HIDE DEF ends
  <2>2. m \in ends \cup {limit} /\ \A k \in ends \cup {limit} : m <= k
    BY <2>1, LeastIs
  <2> HIDE DEF m
  <2>3. m \in Nat /\ m <= limit
    BY <2>1, <2>2
  <2>4. m # limit => Listed(h.chain, word, m) = Zero
    BY <2>2 DEF ends
  <2>5. ASSUME NEW k \in Nat, k < m
        PROVE  Listed(h.chain, word, k) # Zero
    <3>1. k \in 0 .. limit - 1 /\ k \notin ends
      BY <1>2, <2>2, <2>3, <2>5
    <3> QED BY <3>1 DEF ends
  <2> QED BY <2>3, <2>4, <2>5
<1> HIDE DEF ends, m
<1>4. ASSUME NEW t \in S, NEW k \in Nat
      PROVE  ListedOn(t, Listed(h.chain, word, k)) \in S
  <2>1. PICK cell \in Cell : cell = Listed(h.chain, word, k)
    BY <1>2, ListedType
  <2>2. IsEntry(cell) => cell.name \in Names
    BY CellIsEntry DEF Entries
  <2>3. (IF IsEntry(cell) THEN cell.name ELSE cell) \in Names \cup Cell
    BY <2>2
  <2>4. Append(t, IF IsEntry(cell) THEN cell.name ELSE cell) \in S
    BY <2>3
  <2> QED BY <2>1, <2>4 DEF ListedOn
<1>5. PICK w : IsRecursion(w, limit, S, <<>>, step)
  <2>1. <<>> \in S
    OBVIOUS
  <2>2. step \in [S \X (1 .. limit) -> S]
    <3> SUFFICES ASSUME NEW t \in S, NEW k \in 1 .. limit
                 PROVE  ListedOn(t, Listed(h.chain, word, k - 1)) \in S
      OBVIOUS
    <3>1. k - 1 \in Nat
      BY <1>2
    <3> QED BY <1>4, <3>1
  <2> HIDE DEF S, step
  <2> QED BY <1>2, <2>1, <2>2, Recursion
<1>6. w = [k \in 0 .. limit |->
             IF k = 0 THEN <<>> ELSE ListedOn(w[k - 1], Listed(h.chain, word, k - 1))]
  <2>1. ASSUME NEW k \in 1 .. limit
        PROVE  w[k] = ListedOn(w[k - 1], Listed(h.chain, word, k - 1))
    <3>1. k - 1 \in 0 .. limit
      BY <1>2
    <3>2. w[k - 1] \in S
      BY <1>5, <3>1 DEF IsRecursion
    <3>3. w[k] = step[<<w[k - 1], k>>]
      BY <1>5 DEF IsRecursion
    <3> HIDE DEF S
    <3> QED BY <3>2, <3>3
  <2>2. \A k \in 0 .. limit : k # 0 => k \in 1 .. limit
    BY <1>2
  <2> HIDE DEF step, S
  <2> QED BY <1>5, <2>1, <2>2 DEF IsRecursion
<1>7. names = [k \in 0 .. limit |->
                 IF k = 0 THEN <<>> ELSE ListedOn(names[k - 1], Listed(h.chain, word, k - 1))]
  BY <1>6
<1> HIDE DEF names, S, step
<1>8. /\ names[0] = <<>>
      /\ \A k \in Nat : k < limit => names[k + 1] = ListedOn(names[k], Listed(h.chain, word, k))
  <2>1. names[0] = <<>>
    BY <1>2, <1>7
  <2>2. ASSUME NEW k \in Nat, k < limit
        PROVE  names[k + 1] = ListedOn(names[k], Listed(h.chain, word, k))
    <3>1. k + 1 \in 0 .. limit /\ k + 1 # 0 /\ (k + 1) - 1 = k
      BY <1>2, <2>2
    <3> QED BY <1>7, <3>1
  <2> QED BY <2>1, <2>2
<1> DEFINE T == {k \in Nat : k <= limit => names[k] \in S}
<1>9. 0 \in T
  BY <1>8 DEF S
<1>10. ASSUME NEW k \in Nat, k \in T
       PROVE  k + 1 \in T
  <2>1. k + 1 <= limit => k < limit /\ k <= limit
    BY <1>2
  <2> QED BY <1>4, <1>8, <1>10, <2>1
<1>11. \A k \in Nat : k <= limit => names[k] \in S
  <2> HIDE DEF T
  <2>1. Nat \subseteq T
    BY <1>9, <1>10, Induction
  <2> QED BY <2>1 DEF T
<1>12. IsListing(names, h, word, m)
  BY <1>1, <1>3, <1>8, <1>11 DEF IsListing, limit, S
<1> QED BY <1>12

\* The names of the entries of a directory in its first k slots.
NamesBefore(s, k) == {Word(content, Slot(s, i)).name : i \in Passed(content, s, k)}

\* Up to the first slot never used, ls prints the name of every entry, once.
LEMMA EntriesAreListed ==
  ASSUME NEW L, NEW C, Layout(fat, content, L, C),
         NEW h \in FileRec, Held(content, L, C, h), h.dir, NEW word,
         NEW names, NEW m, IsListing(names, h, word, m),
         NEW q \in Nat, q <= m, q <= Len(h.chain) * Cells
  PROVE  Gathers(names[q], NamesBefore(h.chain, q))
<1> PICK s : s = h.chain
  OBVIOUS
<1> DEFINE n == Len(s) * Cells
<1>1. /\ s \in Seq(Clusters) /\ n \in Nat /\ n <= Limit(s) /\ Limit(s) \in Nat
      /\ Places(s) = 1 .. n
  BY TurnIs DEF FileRec, Places
<1>2. h.loc \in L /\ IsDir(content, h.loc) /\ s = C[h.loc]
  BY DEF Held
<1> HIDE DEF n
<1>3. /\ m \in Nat /\ m <= Limit(s) /\ names[0] = <<>>
      /\ \A k \in Nat : k < m => Listed(s, word, k) # Zero
      /\ \A k \in Nat : k < Limit(s) => names[k + 1] = ListedOn(names[k], Listed(s, word, k))
  BY DEF IsListing
<1>4. q <= n
  BY DEF n
<1> DEFINE T == {k \in Nat : k <= q => Gathers(names[k], NamesBefore(s, k))}
<1>5. 0 \in T
  <2>1. Passed(content, s, 0) = {}
    BY <1>1 DEF Passed
  <2>2. NamesBefore(s, 0) = {}
    BY <2>1 DEF NamesBefore
  <2>3. <<>> \in Seq(Names) /\ 1 .. Len(<<>>) = {}
    OBVIOUS
  <2>4. Gathers(<<>>, {})
    BY <2>3 DEF Gathers
  <2> QED BY <1>3, <2>2, <2>4
<1>6. ASSUME NEW k \in Nat, k \in T
      PROVE  k + 1 \in T
  <2> SUFFICES ASSUME k + 1 <= q
               PROVE  Gathers(names[k + 1], NamesBefore(s, k + 1))
    OBVIOUS
  <2>1. k <= q /\ k < m /\ k < Limit(s) /\ k + 1 \in Places(s)
    BY <1>1, <1>3, <1>4
  <2>2. Gathers(names[k], NamesBefore(s, k))
    BY <1>6, <2>1
  <2> PICK e : e = Word(content, Slot(s, k + 1))
    OBVIOUS
  <2>3. e \in Entries \cup {Zero, Deleted} /\ e # Zero
        /\ names[k + 1] = ListedOn(names[k], e)
    <3>1. Listed(s, word, k) = e
      BY <1>1, <2>1, ListedIs
    <3>2. e \in Entries \cup {Zero, Deleted}
      BY <1>2, <2>1 DEF Layout, Clean
    <3> QED BY <1>3, <2>1, <3>1, <3>2
  <2>4. CASE e = Deleted
    <3>1. ~IsEntry(e)
      BY <2>4 DEF IsEntry
    <3>2. Passed(content, s, k + 1) = Passed(content, s, k)
      <4>1. \A i \in Places(s) : IsEntry(Word(content, Slot(s, i))) => (i <= k + 1 <=> i <= k)
        <5> SUFFICES ASSUME NEW i \in Places(s), IsEntry(Word(content, Slot(s, i)))
                     PROVE  i <= k + 1 <=> i <= k
          OBVIOUS
        <5>1. i # k + 1
          BY <3>1
        <5> QED BY <1>1, <5>1
      <4> QED BY <4>1 DEF Passed
    <3>3. names[k + 1] = names[k]
      BY <2>3, <2>4 DEF ListedOn
    <3> QED BY <2>2, <3>2, <3>3 DEF NamesBefore
  <2>5. CASE e \in Entries
    <3>1. IsEntry(e) /\ e # Deleted /\ e.name \in Names
      BY <2>5, EntryType DEF Entries
    <3>2. Passed(content, s, k + 1) = Passed(content, s, k) \cup {k + 1}
      <4>1. \A i \in Places(s) : i <= k + 1 <=> i <= k \/ i = k + 1
        BY <1>1
      <4> QED BY <2>1, <3>1, <4>1 DEF Passed
    <3>3. NamesBefore(s, k + 1) = NamesBefore(s, k) \cup {e.name}
      BY <3>2 DEF NamesBefore
    <3>4. e.name \notin NamesBefore(s, k)
      <4> SUFFICES ASSUME NEW i \in Passed(content, s, k),
                          Word(content, Slot(s, i)).name = e.name
                   PROVE  FALSE
        BY DEF NamesBefore
      <4>1. i \in Places(s) /\ i <= k /\ IsEntry(Word(content, Slot(s, i)))
        BY DEF Passed
      <4>2. i = k + 1
        BY <1>2, <2>1, <3>1, <4>1 DEF Layout, Distinct
      <4> QED BY <4>1, <4>2
    <3>5. names[k + 1] = Append(names[k], e.name)
      BY <2>3, <3>1 DEF ListedOn
    <3> QED BY <2>2, <3>1, <3>3, <3>4, <3>5, GathersOne
  <2> QED BY <2>3, <2>4, <2>5
<1> HIDE DEF T
<1>7. q \in T
  BY <1>5, <1>6, Induction
<1> QED BY <1>7 DEF T

\* What is printed stays.
Begins(t, u) ==
  /\ t \in Seq(Names \cup Cell) /\ u \in Seq(Names \cup Cell)
  /\ Len(t) <= Len(u) /\ \A i \in 1 .. Len(t) : u[i] = t[i]

LEMMA BeginsOn ==
  ASSUME NEW t, NEW u, Begins(t, u), NEW cell, ListedOn(u, cell) \in Seq(Names \cup Cell)
  PROVE  Begins(t, ListedOn(u, cell))
<1>1. CASE cell = Deleted
  BY <1>1 DEF ListedOn
<1>2. CASE cell # Deleted
  <2> DEFINE W == Names \cup Cell
  <2>1. PICK x : x = IF IsEntry(cell) THEN cell.name ELSE cell
    OBVIOUS
  <2>2. PICK v : v = ListedOn(u, cell)
    OBVIOUS
  <2>3. v = Append(u, x)
    BY <1>2, <2>1, <2>2 DEF ListedOn
  <2>4. /\ t \in Seq(W) /\ u \in Seq(W) /\ v \in Seq(W)
        /\ Len(t) <= Len(u) /\ \A i \in 1 .. Len(t) : u[i] = t[i]
    BY <2>2 DEF Begins
  <2> HIDE DEF W
  <2>5. Len(v) = Len(u) + 1 /\ \A i \in 1 .. Len(u) : v[i] = u[i]
    BY <2>3, <2>4
  <2>6. Len(t) \in Nat /\ Len(u) \in Nat
    BY <2>4
  <2>7. Len(t) <= Len(v) /\ \A i \in 1 .. Len(t) : v[i] = t[i]
    BY <2>4, <2>5, <2>6
  <2> QED BY <2>2, <2>4, <2>7 DEF Begins, W
<1> QED BY <1>1, <1>2

LEMMA ListingGoesOn ==
  ASSUME NEW h \in FileRec, NEW word, NEW names, NEW m, IsListing(names, h, word, m),
         NEW q \in Nat, q <= m
  PROVE  Begins(names[q], names[m])
<1> PICK s : s = h.chain
  OBVIOUS
<1>1. /\ m \in Nat /\ m <= Limit(s) /\ Limit(s) \in Nat
      /\ \A k \in Nat : k < Limit(s) => names[k + 1] = ListedOn(names[k], Listed(s, word, k))
      /\ \A k \in Nat : k <= Limit(s) => names[k] \in Seq(Names \cup Cell)
  BY TurnIs DEF IsListing
<1> DEFINE T == {k \in Nat : q <= k /\ k <= m => Begins(names[q], names[k])}
<1>2. Begins(names[q], names[q])
  <2>1. names[q] \in Seq(Names \cup Cell)
    BY <1>1
  <2>2. Len(names[q]) <= Len(names[q])
    BY <2>1
  <2> QED BY <2>1, <2>2 DEF Begins
<1>3. 0 \in T
  <2>1. q <= 0 => q = 0
    OBVIOUS
  <2> QED BY <1>2, <2>1
<1>4. ASSUME NEW k \in Nat, k \in T
      PROVE  k + 1 \in T
  <2> SUFFICES ASSUME q <= k + 1, k + 1 <= m
               PROVE  Begins(names[q], names[k + 1])
    OBVIOUS
  <2>1. CASE q = k + 1
    BY <1>2, <2>1
  <2>2. CASE q # k + 1
    <3>1. q <= k /\ k <= m /\ k < Limit(s) /\ k + 1 <= Limit(s)
      BY <1>1, <2>2
    <3>2. Begins(names[q], names[k])
      BY <1>4, <3>1
    <3>3. names[k + 1] = ListedOn(names[k], Listed(s, word, k))
          /\ names[k + 1] \in Seq(Names \cup Cell)
      BY <1>1, <3>1
    <3> QED BY <3>2, <3>3, BeginsOn
  <2> QED BY <2>1, <2>2
<1> HIDE DEF T
<1>5. m \in T
  BY <1>1, <1>3, <1>4, Induction
<1>6. m <= m
  BY <1>1
<1> QED BY <1>5, <1>6 DEF T

\* The names in a directory.
Called(path) == {Last(q) : q \in {p \in DOMAIN Tree : Front(p) = path}}

LEMMA EntriesAreCalled ==
  ASSUME NEW L, NEW C, Layout(fat, content, L, C), Shown(content, L, C),
         NEW path \in Paths, NEW dir \in L, IsDir(content, dir),
         Leads(content, L, C, path, Len(path), dir),
         NEW q \in Nat,
         \A i \in Places(C[dir]) : IsEntry(Word(content, Slot(C[dir], i))) => i <= q
  PROVE  NamesBefore(C[dir], q) = Called(path)
<1> DEFINE s == C[dir]
<1>1. AsStore!Children(path) = {p \in DOMAIN Tree : Front(p) = path}
  BY SameEnds DEF AsStore!Children
<1>2. path \in Seq(Names)
  BY DiskAssumption
<1>3. ASSUME NEW i \in Places(s), IsEntry(Word(content, Slot(s, i)))
      PROVE  Last(Append(path, Word(content, Slot(s, i)).name)) = Word(content, Slot(s, i)).name
  <2>1. Word(content, Slot(s, i)) \in Entries
    BY <1>3, SlotIsHeld, CellIsEntry
  <2>2. PICK name \in Names : name = Word(content, Slot(s, i)).name
    BY <2>1 DEF Entries
  <2>3. Last(Append(path, name)) = name
    BY <1>2 DEF Last
  <2> QED BY <2>2, <2>3
<1>4. ASSUME NEW i \in Passed(content, s, q)
      PROVE  Word(content, Slot(s, i)).name \in Called(path)
  <2>1. i \in Places(s) /\ IsEntry(Word(content, Slot(s, i)))
    BY DEF Passed
  <2>2. Append(path, Word(content, Slot(s, i)).name) \in AsStore!Children(path)
    BY <2>1, EntryIsChild
  <2> QED BY <1>1, <1>3, <2>1, <2>2 DEF Called
<1>5. ASSUME NEW p \in DOMAIN Tree, Front(p) = path
      PROVE  Last(p) \in NamesBefore(s, q)
  <2>1. p \in AsStore!Children(path)
    BY <1>1, <1>5
  <2>2. PICK k \in Places(s) : /\ IsEntry(Word(content, Slot(s, k)))
                               /\ p = Append(path, Word(content, Slot(s, k)).name)
    BY <2>1, ChildIsInDirectory
  <2>3. k \in Passed(content, s, q)
    BY <2>2 DEF Passed
  <2> QED BY <1>3, <2>2, <2>3 DEF NamesBefore
<1> QED BY <1>4, <1>5 DEF NamesBefore, Called

\* What ls shows of a directory.
IsListed(path, h, word) ==
  LET text == Listing(h, word)  n == Cardinality(Called(path))
  IN  /\ Len(text) >= n
      /\ ToSet(SubSeq(text, 1, n)) = Called(path)
      /\ Len(text) = n \/ FirstSlot(SlotsOf[h.chain], LAMBDA cell : cell = Zero) = NoLoc

LEMMA DirectoryIsListed ==
  ASSUME NEW L, NEW C, Layout(fat, content, L, C), Shown(content, L, C),
         NEW h \in FileRec, Held(content, L, C, h), h.dir,
         NEW path \in Paths, Leads(content, L, C, path, Len(path), h.loc),
         NEW word \in Clusters \cup {0}
  PROVE  IsListed(path, h, word)
<1>1. /\ h.loc \in L /\ IsDir(content, h.loc) /\ h.chain = C[h.loc]
      /\ content \in Disks /\ fat \in Tables
  BY DEF Held, Layout, Typed
<1>2. PICK names, m : IsListing(names, h, word, m)
  BY <1>1, ListingIs
<1> PICK s : s = C[h.loc]
  OBVIOUS
<1> DEFINE n == Len(s) * Cells  q == IF m < n THEN m ELSE n
<1>3. /\ s \in Seq(Clusters) /\ n \in Nat /\ n <= Limit(s) /\ Limit(s) \in Nat
      /\ Places(s) = 1 .. n
  BY <1>1, TurnIs DEF FileRec, Places
<1>4. /\ Listing(h, word) = names[m] /\ m \in Nat /\ m <= Limit(s)
      /\ m # Limit(s) => Listed(s, word, m) = Zero
      /\ \A k \in Nat : k < m => Listed(s, word, k) # Zero
      /\ \A k \in Nat : k <= Limit(s) => names[k] \in Seq(Names \cup Cell)
  BY <1>1, <1>2 DEF IsListing
<1> HIDE DEF n
<1>5. q \in Nat /\ q <= m /\ q <= n /\ (q # n => q = m /\ m < n)
  BY <1>3, <1>4
<1> HIDE DEF q
<1>6. Gathers(names[q], NamesBefore(s, q))
  BY <1>1, <1>2, <1>5, EntriesAreListed DEF n
<1>7. ASSUME NEW i \in Places(s), IsEntry(Word(content, Slot(s, i)))
      PROVE  i <= q
  <2>1. i \in Nat /\ i <= n /\ Word(content, Slot(s, i)) # Zero
    BY <1>3, <1>7 DEF IsEntry
  <2>2. CASE q = n
    BY <2>1, <2>2
  <2>3. CASE q # n
    <3>1. m + 1 \in Places(s) /\ m # Limit(s)
      BY <1>3, <1>4, <1>5, <2>3
    <3>2. Word(content, Slot(s, m + 1)) = Zero
      BY <1>3, <1>4, <3>1, ListedIs
    <3>3. ~(m + 1 < i)
      <4>1. m + 1 < i => Word(content, Slot(s, i)) = Zero
        BY <1>1, <3>1, <3>2 DEF Layout, ZerosLast
      <4> QED BY <2>1, <4>1
    <3>4. i # m + 1
      BY <2>1, <3>2
    <3> QED BY <1>4, <1>5, <2>1, <2>3, <3>3, <3>4
  <2> QED BY <2>2, <2>3
<1>8. NamesBefore(s, q) = Called(path)
  BY <1>1, <1>5, <1>7, EntriesAreCalled
<1> PICK k : k = Cardinality(Called(path))
  OBVIOUS
<1> PICK t : t = names[q]
  OBVIOUS
<1>9. t \in Seq(Names) /\ Len(t) = k /\ ToSet(t) = Called(path)
  BY <1>6, <1>8, GathersAll DEF Gathers
<1> PICK text : text = Listing(h, word)
  OBVIOUS
<1>10. Begins(t, text)
  BY <1>2, <1>4, <1>5, ListingGoesOn
<1>11. Len(text) >= k /\ SubSeq(text, 1, k) = t
  <2>1. /\ t \in Seq(Names \cup Cell) /\ text \in Seq(Names \cup Cell)
        /\ k <= Len(text) /\ \A i \in 1 .. k : text[i] = t[i]
    BY <1>9, <1>10 DEF Begins
  <2>2. k \in Nat /\ Len(text) \in Nat
    BY <1>9, <2>1
  <2>3. SubSeq(text, 1, k) = [i \in 1 .. k |-> text[i]]
    BY <2>1, <2>2
  <2>4. t = [i \in 1 .. k |-> t[i]]
    BY <1>9
  <2> QED BY <2>1, <2>2, <2>3, <2>4
<1>12. ASSUME FirstSlot(SlotsOf[h.chain], LAMBDA cell : cell = Zero) # NoLoc
       PROVE  Len(text) = k
  <2> DEFINE clus == Clus(content, h.loc)
  <2>1. clus \in 0 .. NoClus /\ resolve_chain(fat, clus) = s
    <3>1. IsChain(fat, clus, s)
      BY <1>1 DEF Layout, Chained
    <3>2. clus \in Clusters
      BY <1>1, ChainFacts
    <3> QED BY <1>1, <3>1, <3>2, ChainIsResolved, Clusters1
  <2> HIDE DEF clus
  <2>2. FreeSlot(clus) # NoLoc
    BY <1>1, <1>12, <2>1 DEF FreeSlot, Slots
  <2>3. PICK i \in Places(s) : At(Slot(s, i)) = Zero
    BY <1>1, <2>1, <2>2, FreeSlotFound
  <2>4. i - 1 \in Nat /\ (i - 1) + 1 = i /\ i <= n
    BY <1>3
  <2>5. Listed(s, word, i - 1) = Zero
    BY <1>3, <2>3, <2>4, ListedIs DEF At, Word
  <2>6. ~(i - 1 < m)
    BY <1>4, <2>4, <2>5
  <2>7. q = m
    BY <1>3, <1>4, <1>5, <2>4, <2>6
  <2> QED BY <1>4, <1>9, <2>7
<1> QED BY <1>9, <1>11, <1>12 DEF IsListed

\* What cat shows of a file.
IsPrinted(path) ==
  LET text == Printed(FileAt(path))
  IN  /\ Len(text) = At(Located(path)).size
      /\ IsPrefix(Tree[path].data, text)
      /\ text = Tree[path].data

LEMMA FileIsPrinted ==
  ASSUME NEW L, NEW C, Layout(fat, content, L, C), NEW path \in DOMAIN Tree, ~Tree[path].dir
  PROVE  IsPrinted(path)
<1>1. /\ path \in Paths \ {<<>>} /\ Located(path) \in L \ {NoLoc}
  BY TreeNow DEF TreeFacts, TreeIs
<1> PICK loc : loc = Located(path)
  OBVIOUS
<1>2. Tree[path] = NodeOf(content, C, loc) /\ At(loc) = Word(content, loc)
  BY <1>1, ExistsIs
<1>3. /\ Word(content, loc).size \in Nat
      /\ NodeOf(content, C, loc) =
           [dir |-> Word(content, loc).dir,
            data |-> IF Word(content, loc).dir THEN <<>>
                     ELSE TextOf(content, C[loc], Word(content, loc).size)]
  BY <1>1, NodeData DEF TextOf
<1>4. ~Word(content, loc).dir
      /\ Tree[path].data = TextOf(content, C[loc], Word(content, loc).size)
  BY <1>2, <1>3
<1>5. PICK h \in FileRec : /\ h = FileAt(path) /\ Held(content, L, C, h)
                          /\ h.loc = loc /\ h.dir = At(loc).dir /\ h.size = At(loc).size
  BY <1>1, FileOpened
<1>6. Printed(h) = FileText(C, h)
  BY <1>2, <1>4, <1>5, PrintedIs
<1> PICK data : data = FileText(C, h)
  OBVIOUS
<1>7. data \in Seq(Cell) /\ Len(data) = h.size
  BY <1>2, <1>4, <1>5, FileTextIs
<1>8. Tree[path].data = data
  BY <1>2, <1>4, <1>5 DEF FileText
<1>9. IsPrefix(data, data)
  BY <1>7 DEF IsPrefix
<1> QED BY <1>5, <1>6, <1>7, <1>8, <1>9 DEF IsPrinted

LEMMA TreeIsShown == Inv => ShowsTheTree
<1> SUFFICES ASSUME Inv
             PROVE  ShowsTheTree
  OBVIOUS
<1>1. PICK L, C : Layout(fat, content, L, C) /\ Shown(content, L, C)
  BY DEF Inv, Kept, Holds
<1>2. ASSUME NEW path \in DOMAIN Tree, ~Tree[path].dir
      PROVE  IsPrinted(path)
  BY <1>1, <1>2, FileIsPrinted
<1>3. ASSUME NEW path \in {<<>>} \cup {p \in DOMAIN Tree : Tree[p].dir},
             NEW word \in ChainWords(FileAt(path).chain, Len(FileAt(path).chain))
      PROVE  IsListed(path, FileAt(path), word)
  <2>1. path \in Paths /\ (path # <<>> => Located(path) \in L \ {NoLoc})
    BY <1>1, TreeNow, DiskAssumption DEF TreeFacts, TreeIs
  <2>2. PICK h \in FileRec :
           /\ h = FileAt(path) /\ Held(content, L, C, h)
           /\ Leads(content, L, C, path, Len(path), h.loc)
           /\ path # <<>> => h.dir = At(Located(path)).dir
           /\ path = <<>> => h.dir
    BY <1>1, <2>1, FileOpened
  <2>3. h.dir
    <3>1. CASE path # <<>>
      <4> PICK loc : loc = Located(path)
        OBVIOUS
      <4>1. Tree[path] = NodeOf(content, C, loc) /\ At(loc) = Word(content, loc)
        BY <1>1, <2>1, <3>1, ExistsIs
      <4>2. Tree[path].dir = Word(content, loc).dir
        BY <4>1 DEF NodeOf
      <4> QED BY <2>2, <3>1, <4>1, <4>2
    <3> QED BY <2>2, <3>1
  <2>4. word \in Clusters \cup {0}
    <3>1. h.chain \in Seq(Clusters) /\ Len(h.chain) \in Nat
      BY DEF FileRec
    <3>2. word \in Stale
      BY <2>2, <3>1 DEF ChainWords
    <3> QED BY <3>2, DiskAssumption
  <2> QED BY <1>1, <2>1, <2>2, <2>3, <2>4, DirectoryIsListed
<1> QED BY <1>2, <1>3 DEF ShowsTheTree, IsPrinted, IsListed, Called

------------------------------------------------------------------------------
(* The theorems *)

\* The table, the entries and the open file have their types after any calls.
THEOREM TypeCorrect ==
  ASSUME ~Fills, ~TruncatesLong
  PROVE  Spec => []TypeOK
BY Invariance, InvType, PTL

\* No cluster belongs to two files or directories or twice to one, and each chain
\* ends where its table says: whatever is created, written, cut and removed.
THEOREM NoClusterIsShared ==
  ASSUME ~Fills, ~TruncatesLong
  PROVE  Spec => []OneOwner
BY Invariance, InvOneOwner, PTL

\* What fs_open put into the File is what the disk holds, until it is closed.
THEOREM OpenFileIsCurrent ==
  ASSUME ~Fills, ~TruncatesLong
  PROVE  Spec => []HandleMatchesDisk
BY Invariance, InvHandle, PTL

\* A step after which nothing leads to a cluster in use is the creation, refused or
\* lost, of something in a directory with no slot left, and what is lost is the one
\* cluster claimed for it; or it is a write to the file whose entry went nowhere.  No
\* removal, other creation or other write is such a step.
THEOREM LeakIsOfTheFull ==
  ASSUME ~Fills, ~TruncatesLong
  PROVE  Spec => LeaksOnlyWhenFull
<1> DEFINE A == ~(Leaked' \subseteq Leaked) =>
                 \/ CreatesInVain /\ Leaked' \subseteq Leaked \cup {Claimed}
                 \/ WritesToNowhere
<1>1. Inv /\ [Next]_vars => [A]_vars
  <2> SUFFICES ASSUME Inv, [Next]_vars, ~(Leaked' \subseteq Leaked)
               PROVE  \/ CreatesInVain /\ Leaked' \subseteq Leaked \cup {Claimed}
                      \/ WritesToNowhere
    OBVIOUS
  <2>1. PICK L, C : Holds(L, C)
    BY DEF Inv, Kept
  <2>2. PICK M, D : Goes(L, C, M, D)
    BY <2>1, NextGoes DEF Inv
  <2>3. CASE Claims(fat, fat', content', M, D, {})
    <3>1. Leaked' \subseteq Leaked \cup {}
      BY <2>1, <2>2, <2>3, OnlyTheseLeak
    <3> QED BY <3>1
  <2>4. CASE CreatesInVain /\ Claims(fat, fat', content', M, D, {Claimed})
    <3>1. Leaked' \subseteq Leaked \cup {Claimed}
      BY <2>1, <2>2, <2>4, OnlyTheseLeak
    <3> QED BY <2>4, <3>1
  <2>5. CASE EntryIsNowhere /\ fat' # fat
    <3>1. Next /\ fd # <<>>
      BY <2>5 DEF EntryIsNowhere, vars
    <3>2. \E buffer \in Buffers, word \in Beyond : fs_write(buffer, word)
      BY <2>5, <3>1, Zenon DEF Next, disk, fs_open, fs_stat, fs_mkdir, fs_remove,
        fs_rmdir, fs_read, OnDirectory, fs_readdir, fs_close, fs_init
    <3> QED BY <2>5, <3>2 DEF WritesToNowhere
  <2> QED BY <2>2, <2>3, <2>4, <2>5 DEF Goes, Takes
<1> HIDE DEF A
<1>2. Spec => [][A]_vars
  BY <1>1, Invariance, PTL DEF Spec
<1> QED BY <1>2, Zenon DEF LeaksOnlyWhenFull, A

\* A call changes no file but the one it has open: what is created, removed, cut or
\* written elsewhere leaves what every path leads to as it was.
THEOREM OtherFilesKeepTheirText ==
  ASSUME ~Fills, ~TruncatesLong
  PROVE  Spec => OnlyItsWritesChangeAFile
<1> DEFINE A == \A p \in DOMAIN Tree \cap DOMAIN Tree' :
                 Tree'[p] # Tree[p] => fd' # <<>> /\ fd'[1].loc = Located(p)
<1>1. Inv /\ [Next]_vars => [A]_vars
  <2> SUFFICES ASSUME Inv, [Next]_vars
               PROVE  A
    OBVIOUS
  <2>1. PICK L, C : Holds(L, C)
    BY DEF Inv, Kept
  <2>2. PICK M, D : Goes(L, C, M, D)
    BY <2>1, NextGoes DEF Inv
  <2> QED BY <2>1, <2>2, OnlyTheOpenFile
<1> QED BY <1>1, Invariance, PTL DEF Spec, OnlyItsWritesChangeAFile

\* The FAT32 driver is a FileStore: a disk never used is the empty store, and every
\* call does to the tree of files and directories and returns what FileStore says of
\* it; but the first creation since the boot, in a directory with no slot left, makes
\* nothing, and a listing of such a directory may go on behind it.
THEOREM DriverIsAFileStore ==
  ASSUME ~Fills, ~TruncatesLong
  PROVE  Spec => ImplementsFileStore
<1>1. Init => AsStore!Init /\ Within
  BY InitMaps
<1>2. Inv /\ Within /\ [Next]_vars => Mapped /\ Within'
  BY StepMaps
<1>3. Spec => []Inv
  BY Invariance
<1> QED BY <1>1, <1>2, <1>3, PTL DEF Spec, ImplementsFileStore, Mapped

\* cd goes to directories only, and only rm of it takes the working directory away.
THEOREM WorkingDirectoryStays ==
  ASSUME ~Fills, ~TruncatesLong
  PROVE  ShellSpec => CwdIsADirectory
<1>1. ShellInv /\ [ShellNext]_shellVars => [CwdStep]_shellVars
  BY ShellSteps
<1> QED BY <1>1, ShellInvariance, PTL DEF ShellSpec, CwdIsADirectory, CwdStep

\* Without the exceptions of EchoKeepsTheText, which are those of a full disk.
TextIsThere ==
  echo # <<>> /\ echo[1].wrote /\ shown = Nothing =>
    IsSuffix(echo[1].text, Tree[echo[1].path].data)

\* The file ends with the text once echo has written it and says nothing; while
\* there is room, also when what was written took the last cluster.
THEOREM EchoedTextIsKept ==
  ASSUME ~Fills, ~TruncatesLong, ~FirstIntoFull
  PROVE  ShellSpec => [](TextIsThere /\ EchoKeepsTheText)
<1>1. ShellInv => TextIsThere
  BY DEF ShellInv, EchoIsAtWork, TextIsThere
<1>2. TextIsThere => EchoKeepsTheText
  BY DEF TextIsThere, EchoKeepsTheText
<1> QED BY <1>1, <1>2, ShellInvariance, PTL

\* cat shows all of a file once, ls every entry of a directory once.
THEOREM CommandsShowTheTree ==
  ASSUME ~Fills, ~TruncatesLong
  PROVE  ShellSpec => []ShowsTheTree
<1>1. ShellInv => ShowsTheTree
  BY TreeIsShown DEF ShellInv
<1> QED BY <1>1, ShellInvariance, PTL
=============================================================================
