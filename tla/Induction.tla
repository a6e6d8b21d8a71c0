----------------------------- MODULE Induction -----------------------------
(***************************************************************************)
(* Induction and recursion over the natural numbers in terms of sets and   *)
(* functions, division, and pieces of sequences: what the proofs about the *)
(* file system's chains and the page allocator's bits rest on.             *)
(***************************************************************************)
EXTENDS Integers, SequenceTheorems, FiniteSetTheorems, TLAPS

\* A set of natural numbers has a least element: of the intervals from 0 to its
\* elements, one is included in all others.
LEMMA LeastNumber ==
  ASSUME NEW T, T \subseteq Nat, T # {}
  PROVE  \E m \in T : \A k \in T : m <= k
<1> PICK n \in T : TRUE
  OBVIOUS
<1> DEFINE U == {S \in SUBSET (0 .. n) : \E k \in T : k <= n /\ S = 0 .. k}
<1>1. U \subseteq SUBSET (0 .. n) /\ U # {}
  <2>1. 0 .. n \in U
    OBVIOUS
  <2> QED BY <2>1
<1>2. PICK S \in U : \A R \in U : ~(R \subseteq S /\ R # S)
  <2> HIDE DEF U
  <2>1. IsFiniteSet(0 .. n)
    BY FS_Interval
  <2>2. FiniteSubsetsOf(0 .. n) = SUBSET (0 .. n)
    BY <2>1, FS_FiniteSubsetsOfFinite
  <2>3. IsWellFoundedOn(StrictSubsetOrdering(0 .. n), FiniteSubsetsOf(0 .. n))
    BY FS_StrictSubsetOrderingWellFounded
  <2>4. IsWellFoundedOn(StrictSubsetOrdering(0 .. n), SUBSET (0 .. n))
    BY <2>2, <2>3
  <2>5. \E S \in U : \A R \in U : ~(<<R, S>> \in StrictSubsetOrdering(0 .. n))
    BY <1>1, <2>4, WFMin
  <2> QED BY <1>1, <2>5 DEF StrictSubsetOrdering
<1>3. PICK m \in T : m <= n /\ S = 0 .. m
  OBVIOUS
<1>4. ASSUME NEW k \in T, k < m
      PROVE  FALSE
  <2>1. 0 .. k \in U
    BY <1>3, <1>4
  <2>2. 0 .. k \subseteq S /\ 0 .. k # S
    BY <1>3, <1>4
  <2> QED BY <1>2, <2>1, <2>2
<1> QED BY <1>3, <1>4

\* What holds of 0, and of n + 1 if of n, holds of every number.
LEMMA Induction ==
  ASSUME NEW T, 0 \in T, \A n \in Nat : n \in T => n + 1 \in T
  PROVE  Nat \subseteq T
<1> SUFFICES ASSUME Nat \ T # {}
             PROVE  FALSE
  OBVIOUS
<1> PICK m \in Nat \ T : \A k \in Nat \ T : m <= k
  <2> DEFINE U == Nat \ T
  <2>1. U \subseteq Nat /\ U # {}
    OBVIOUS
  <2> HIDE DEF U
  <2>2. \E m \in U : \A k \in U : m <= k
    BY <2>1, LeastNumber
  <2> QED BY <2>2 DEF U
<1>1. m - 1 \in Nat /\ m - 1 \in T
  OBVIOUS
<1> QED BY <1>1

\* A function of 0 .. n that is given by its first value and by the way from each
\* value to the next.
IsRecursion(g, n, S, s, step) ==
  /\ g \in [0 .. n -> S]
  /\ g[0] = s
  /\ \A k \in 1 .. n : g[k] = step[<<g[k - 1], k>>]

LEMMA Recursion ==
  ASSUME NEW n \in Nat, NEW S, NEW s \in S, NEW step \in [S \X (1 .. n) -> S]
  PROVE  \E g : IsRecursion(g, n, S, s, step)
<1> DEFINE Upto(m, g) == g[0] = s /\ \A k \in 1 .. m : g[k] = step[<<g[k - 1], k>>]
           T == {m \in Nat : m <= n => \E g \in [0 .. m -> S] : Upto(m, g)}
<1>1. 0 \in T
  <2>1. [k \in 0 .. 0 |-> s] \in [0 .. 0 -> S] /\ Upto(0, [k \in 0 .. 0 |-> s])
    OBVIOUS
  <2> QED BY <2>1
<1>2. ASSUME NEW m \in Nat, m \in T
      PROVE  m + 1 \in T
  <2> SUFFICES ASSUME m + 1 <= n
               PROVE  \E h \in [0 .. m + 1 -> S] : Upto(m + 1, h)
    OBVIOUS
  <2>1. PICK g \in [0 .. m -> S] : Upto(m, g)
    BY <1>2
  <2> DEFINE h == [k \in 0 .. m + 1 |-> IF k <= m THEN g[k] ELSE step[<<g[m], m + 1>>]]
  <2>2. h \in [0 .. m + 1 -> S]
    <3>1. g[m] \in S /\ m + 1 \in 1 .. n
      OBVIOUS
    <3> QED BY <3>1
  <2>3. \A k \in 0 .. m : h[k] = g[k]
    OBVIOUS
  <2>4. h[0] = s
    BY <2>1, <2>3
  <2>5. ASSUME NEW k \in 1 .. m + 1
        PROVE  h[k] = step[<<h[k - 1], k>>]
    <3>1. k - 1 \in 0 .. m /\ k \in 0 .. m + 1
      BY <2>5
    <3>2. h[k - 1] = g[k - 1]
      BY <2>3, <3>1
    <3>3. CASE k = m + 1
      <4>1. h[k] = step[<<g[m], m + 1>>]
        BY <3>3
      <4> QED BY <3>2, <3>3, <4>1
    <3>4. CASE k \in 1 .. m
      <4>1. h[k] = g[k] /\ g[k] = step[<<g[k - 1], k>>]
        BY <2>1, <2>3, <3>4
      <4> QED BY <3>2, <4>1
    <3> QED BY <2>5, <3>3, <3>4
  <2>6. Upto(m + 1, h)
    BY <2>4, <2>5
  <2> QED BY <2>2, <2>6
<1>3. Nat \subseteq T
  <2> HIDE DEF T
  <2> QED BY <1>1, <1>2, Induction
<1>4. n \in T
  BY <1>3
<1> QED BY <1>4 DEF IsRecursion

\* Quotient and remainder.
LEMMA Division ==
  ASSUME NEW a \in Nat, NEW d \in Nat \ {0}
  PROVE  a \div d \in Nat /\ a % d \in 0 .. d - 1 /\ a = d * (a \div d) + (a % d)
OBVIOUS

\* The quotient is the number of the part of d that a lies in.
LEMMA QuotientBelow ==
  ASSUME NEW a \in Nat, NEW n \in Nat, NEW d \in Nat \ {0}
  PROVE  a < n * d <=> a \div d < n
<1> DEFINE q == a \div d  r == a % d
<1>1. q \in Nat /\ r \in 0 .. d - 1 /\ a = d * q + r
  BY Division
<1> HIDE DEF q, r
<1>2. CASE q < n
  <2>1. q + 1 <= n
    BY <1>1, <1>2
  <2>2. (q + 1) * d <= n * d
    BY <1>1, <2>1
  <2> QED BY <1>1, <1>2, <2>2
<1>3. CASE q >= n
  <2>1. q * d >= n * d
    BY <1>1, <1>3
  <2> QED BY <1>1, <1>3, <2>1
<1>4. a \div d = q
  BY DEF q
<1> QED BY <1>1, <1>2, <1>3, <1>4

\* Numbers are ordered as their quotients are, and where these are the same, as
\* their remainders.
LEMMA OrderOfParts ==
  ASSUME NEW a \in Nat, NEW b \in Nat, NEW d \in Nat \ {0}
  PROVE  a <= b <=> a \div d < b \div d \/ (a \div d = b \div d /\ (a % d) <= (b % d))
<1> DEFINE p == a \div d  r == a % d  q == b \div d  s == b % d
<1>1. /\ p \in Nat /\ r \in 0 .. d - 1 /\ a = d * p + r
      /\ q \in Nat /\ s \in 0 .. d - 1 /\ b = d * q + s
  BY Division
<1> HIDE DEF p, q, r, s
<1>2. a <= b <=> p < q \/ (p = q /\ r <= s)
  <2>1. CASE p < q
    <3>1. d * (p + 1) <= d * q
      BY <1>1, <2>1
    <3>2. d * (p + 1) = d * p + d
      BY <1>1
    <3> QED BY <1>1, <2>1, <3>1, <3>2
  <2>2. CASE q < p
    <3>1. d * (q + 1) <= d * p
      BY <1>1, <2>2
    <3>2. d * (q + 1) = d * q + d
      BY <1>1
    <3> QED BY <1>1, <2>2, <3>1, <3>2
  <2>3. CASE p = q
    BY <1>1, <2>3
  <2> QED BY <1>1, <2>1, <2>2, <2>3
<1> QED BY <1>2 DEF p, q, r, s

LEMMA QuotientsInOrder ==
  ASSUME NEW a \in Nat, NEW b \in Nat, NEW d \in Nat \ {0}, a <= b
  PROVE  a \div d \in Nat /\ b \div d \in Nat /\ a \div d <= b \div d
<1>1. a \div d \in Nat /\ b \div d \in Nat
  BY Division
<1>2. a \div d < b \div d \/ a \div d = b \div d
  BY OrderOfParts
<1> QED BY <1>1, <1>2

\* A number is known by its quotient and remainder.
LEMMA FromParts ==
  ASSUME NEW q \in Nat, NEW r \in Nat, NEW d \in Nat \ {0}, r < d
  PROVE  (q * d + r) \div d = q /\ (q * d + r) % d = r
BY Division

LEMMA SmallRemainder ==
  ASSUME NEW r \in Nat, NEW d \in Nat \ {0}, r < d
  PROVE  r \div d = 0 /\ r % d = r
BY Division

LEMMA SameParts ==
  ASSUME NEW a \in Nat, NEW b \in Nat, NEW d \in Nat \ {0},
         a \div d = b \div d, (a % d) = (b % d)
  PROVE  a = b
BY Division

------------------------------------------------------------------------------
(* Pieces of sequences *)

\* The cells a + 1 .. b of v.
Piece(t, v, a, b) ==
  /\ a \in Nat /\ b \in Nat /\ a <= b /\ Len(t) = b - a
  /\ \A j \in 1 .. b - a : t[j] = v[a + j]

LEMMA PiecesJoined ==
  ASSUME NEW S, NEW t \in Seq(S), NEW u \in Seq(S), NEW v, NEW a, NEW b, NEW c,
         Piece(t, v, a, b), Piece(u, v, b, c)
  PROVE  Piece(t \o u, v, a, c)
<1>1. a \in Nat /\ b \in Nat /\ c \in Nat /\ a <= b /\ b <= c /\ Len(t) = b - a /\ Len(u) = c - b
  BY DEF Piece
<1>2. Len(t \o u) = c - a
  BY <1>1
<1>3. ASSUME NEW j \in 1 .. c - a
      PROVE  (t \o u)[j] = v[a + j]
  <2>1. CASE j <= b - a
    <3>1. j \in 1 .. b - a /\ (t \o u)[j] = t[j]
      BY <1>1, <2>1
    <3> QED BY <3>1 DEF Piece
  <2>2. CASE j > b - a
    <3>1. j - (b - a) \in 1 .. c - b /\ (t \o u)[j] = u[j - (b - a)]
      BY <1>1, <2>2
    <3>2. u[j - (b - a)] = v[b + (j - (b - a))]
      BY <3>1 DEF Piece
    <3>3. b + (j - (b - a)) = a + j
      BY <1>1
    <3> QED BY <3>1, <3>2, <3>3
  <2> QED BY <1>1, <2>1, <2>2
<1> QED BY <1>1, <1>2, <1>3 DEF Piece

\* Two sequences that are the same piece are the same.
LEMMA SamePiece ==
  ASSUME NEW S, NEW R, NEW t \in Seq(S), NEW u \in Seq(R), NEW v, NEW a, NEW b,
         Piece(t, v, a, b), Piece(u, v, a, b)
  PROVE  t = u
<1>1. Len(t) = Len(u) /\ \A j \in 1 .. Len(t) : t[j] = u[j]
  BY DEF Piece
<1> QED BY <1>1

LEMMA PieceOf ==
  ASSUME NEW S, NEW v \in Seq(S), NEW a \in Nat, NEW b \in Nat, a <= b, b <= Len(v)
  PROVE  SubSeq(v, a + 1, b) \in Seq(S) /\ Piece(SubSeq(v, a + 1, b), v, a, b)
<1> DEFINE t == SubSeq(v, a + 1, b)
<1>1. t \in Seq(S) /\ Len(t) = b - a /\ \A j \in 1 .. b - a : t[j] = v[a + j]
  <2>1. t \in Seq(S) /\ Len(t) = b - a
    OBVIOUS
  <2>2. \A j \in 1 .. b - a : t[j] = v[a + j]
    <3> SUFFICES ASSUME NEW j \in 1 .. b - a
                 PROVE  t[j] = v[a + j]
      OBVIOUS
    <3>1. t[j] = v[(a + 1) + j - 1]
      OBVIOUS
    <3>2. (a + 1) + j - 1 = a + j
      OBVIOUS
    <3> QED BY <3>1, <3>2
  <2> QED BY <2>1, <2>2
<1> HIDE DEF t
<1> QED BY <1>1 DEF t, Piece

LEMMA TextGoesOn ==
  ASSUME NEW S, NEW v \in Seq(S), NEW a \in Nat, NEW b \in Nat, a <= b, b <= Len(v)
  PROVE  SubSeq(v, 1, a) \o SubSeq(v, a + 1, b) = SubSeq(v, 1, b)
<1> DEFINE t == SubSeq(v, 1, a)  u == SubSeq(v, a + 1, b)  w == SubSeq(v, 1, b)
<1>1. t \in Seq(S) /\ Piece(t, v, 0, a)
  BY PieceOf
<1>2. u \in Seq(S) /\ Piece(u, v, a, b)
  BY PieceOf
<1>3. w \in Seq(S) /\ Piece(w, v, 0, b)
  BY PieceOf
<1> HIDE DEF t, u, w
<1>4. t \o u \in Seq(S) /\ Piece(t \o u, v, 0, b)
  BY <1>1, <1>2, PiecesJoined
<1>5. t \o u = w
  BY <1>3, <1>4, SamePiece
<1> QED BY <1>5 DEF t, u, w

\* A sequence that has buffer from pos on and is old elsewhere.
HasAt(w, old, buffer, pos, end) ==
  /\ pos <= Len(old) /\ end = pos + Len(buffer)
  /\ Len(w) = IF end > Len(old) THEN end ELSE Len(old)
  /\ \A k \in 1 .. Len(w) : w[k] = IF pos < k /\ k <= end THEN buffer[k - pos] ELSE old[k]
Splice(old, buffer, pos, end) ==
  SubSeq(old, 1, pos) \o buffer \o SubSeq(old, end + 1, Len(old))

LEMMA Spliced ==
  ASSUME NEW S, NEW old \in Seq(S), NEW buffer \in Seq(S), NEW w \in Seq(S),
         NEW pos \in Nat, NEW end, HasAt(w, old, buffer, pos, end)
  PROVE  w = Splice(old, buffer, pos, end)
<1> DEFINE n == Len(old)  len == Len(buffer)  m == Len(w)
           a == SubSeq(old, 1, pos)  z == SubSeq(old, end + 1, n)
<1>1. /\ n \in Nat /\ len \in Nat /\ m \in Nat /\ end = pos + len /\ end \in Nat /\ pos <= n
      /\ m = IF end > n THEN end ELSE n
  BY DEF HasAt
<1>2. a \in Seq(S) /\ Piece(a, old, 0, pos)
  <2>1. SubSeq(old, 0 + 1, pos) \in Seq(S) /\ Piece(SubSeq(old, 0 + 1, pos), old, 0, pos)
    BY <1>1, PieceOf
  <2> QED BY <2>1
<1>3. z \in Seq(S) /\ Len(z) = m - end /\ \A j \in 1 .. m - end : z[j] = old[end + j]
  <2>1. CASE end <= n
    <3>1. z \in Seq(S) /\ Piece(z, old, end, n)
      BY <1>1, <2>1, PieceOf
    <3>2. m = n
      BY <1>1, <2>1
    <3> HIDE DEF z, m, n
    <3> QED BY <3>1, <3>2 DEF Piece
  <2>2. CASE end > n
    <3>1. z \in Seq(S) /\ Len(z) = 0
      BY <1>1, <2>2
    <3> QED BY <1>1, <2>2, <3>1
  <2> QED BY <1>1, <2>1, <2>2
<1> HIDE DEF a, z
<1>4. Piece(a, w, 0, pos)
  <2>1. Len(a) = pos - 0 /\ \A j \in 1 .. pos - 0 : a[j] = old[0 + j]
    BY <1>2 DEF Piece
  <2>2. ASSUME NEW j \in 1 .. pos
        PROVE  a[j] = w[0 + j]
    <3>1. j \in 1 .. m /\ ~(pos < j) /\ 0 + j = j
      BY <1>1
    <3>2. w[j] = old[j]
      BY <3>1 DEF HasAt
    <3> QED BY <2>1, <3>1, <3>2
  <2> QED BY <1>1, <2>1, <2>2 DEF Piece
<1>5. Piece(buffer, w, pos, end)
  <2>1. ASSUME NEW j \in 1 .. end - pos
        PROVE  buffer[j] = w[pos + j]
    <3>1. pos + j \in 1 .. m /\ pos < pos + j /\ pos + j <= end /\ (pos + j) - pos = j
      BY <1>1
    <3>2. w[pos + j] = buffer[(pos + j) - pos]
      BY <3>1 DEF HasAt
    <3> QED BY <3>1, <3>2
  <2> QED BY <1>1, <2>1 DEF Piece
<1>6. Piece(z, w, end, m)
  <2>1. ASSUME NEW j \in 1 .. m - end
        PROVE  z[j] = w[end + j]
    <3>1. end + j \in 1 .. m /\ ~(end + j <= end)
      BY <1>1
    <3>2. w[end + j] = old[end + j]
      BY <3>1 DEF HasAt
    <3> QED BY <1>3, <3>2
  <2>2. end <= m
    BY <1>1
  <2> QED BY <1>1, <1>3, <2>1, <2>2 DEF Piece
<1>7. a \o buffer \in Seq(S) /\ Piece(a \o buffer, w, 0, end)
  BY <1>2, <1>4, <1>5, PiecesJoined
<1>8. a \o buffer \o z \in Seq(S) /\ Piece(a \o buffer \o z, w, 0, m)
  <2> DEFINE b == a \o buffer
  <2>1. z \in Seq(S) /\ b \in Seq(S) /\ Piece(b, w, 0, end)
    BY <1>3, <1>7
  <2> HIDE DEF b, m
  <2>2. Piece(b \o z, w, 0, m)
    BY <1>6, <2>1, PiecesJoined
  <2>3. b \o z \in Seq(S)
    BY <2>1
  <2> QED BY <2>2, <2>3 DEF b
<1>9. Piece(w, w, 0, m)
  BY <1>1 DEF Piece
<1> HIDE DEF m
<1>10. w = a \o buffer \o z
  BY <1>8, <1>9, SamePiece
<1> QED BY <1>10 DEF a, z, Splice
=============================================================================
