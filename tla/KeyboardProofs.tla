--------------------------- MODULE KeyboardProofs ---------------------------
(***************************************************************************)
(* Proofs about Keyboard: for every ring size and every interleaving of    *)
(* the interrupt with the accesses of kb_read, in both orders the compiler *)
(* may choose, no key is overwritten before it is read, and the driver is  *)
(* a first-in first-out queue of N - 1 keys.                               *)
(***************************************************************************)
EXTENDS Keyboard, SequenceTheorems, TLAPS

\* Where the slot being read stands: still the tail's, or just behind it.
ReadPosition ==
  /\ pc \in {"advance", "load", "loaded"} => slot = tail /\ tail # head
  /\ pc = "advanced" => tail = Succ(slot)
  /\ pc = "loaded" => key = buff[slot]
  /\ pc \in {"poll", "advance", "load", "advanced"} => key = NoKey

IInv == TypeOK /\ ReadPosition

LEMMA InitHolds == Init => IInv
<1> SUFFICES ASSUME Init PROVE IInv
  OBVIOUS
<1>1. 0 \in Slots
  BY RingAssumption DEF Slots
<1> QED BY <1>1 DEF Init, IInv, TypeOK, ReadPosition

LEMMA SuccFacts ==
  /\ \A i \in Slots : Succ(i) \in Slots /\ Succ(i) # i
  /\ \A i, j \in Slots : Succ(i) = Succ(j) => i = j
<1> QED BY RingAssumption DEF Succ, Slots

\* What is asked for is a case.
LEMMA AsksForOne ==
  ASSUME TypeOK, (\E down \in BOOLEAN : ShiftEvent(down)) \/ CapsPress
  PROVE  asked' \subseteq BOOLEAN
<1>1. Asks /\ asked \subseteq BOOLEAN
  BY DEF ShiftEvent, CapsPress, TypeOK
<1>2. (shift' # caps') \in BOOLEAN
  BY Zenon
<1>3. CASE pc = "caps"
  BY <1>1, <1>2, <1>3, Zenon DEF Asks
<1>4. CASE pc # "caps"
  BY <1>1, <1>4, Zenon DEF Asks
<1> QED BY <1>3, <1>4

\* The interrupt keeps the invariant.
LEMMA HandlerPreserves ==
  ASSUME IInv, kb_handler
  PROVE  IInv'
<1> USE DEF IInv, TypeOK, ReadPosition, ring, mods
<1>1. ASSUME NEW down \in BOOLEAN, ShiftEvent(down) PROVE IInv'
  <2>1. asked' \subseteq BOOLEAN
    BY <1>1, AsksForOne
  <2> QED BY <1>1, <2>1 DEF ShiftEvent
<1>2. ASSUME CapsPress PROVE IInv'
  <2>1. asked' \subseteq BOOLEAN
    BY <1>2, AsksForOne
  <2> QED BY <1>2, <2>1 DEF CapsPress
<1>3. ASSUME NEW k \in Keys, KeyPress(k) PROVE IInv'
  <2>1. /\ Succ(head) # tail /\ buff' = [buff EXCEPT ![head] = k]
        /\ head' = Succ(head) /\ Succ(head) \in Slots
        /\ UNCHANGED <<tail, shift, caps, pc, slot, key, seen, asked>>
    BY <1>3, SuccFacts DEF KeyPress, HasRoom
  <2>2. TypeOK'
    BY <2>1
  <2>3. pc = "loaded" => buff'[slot] = buff[slot]
    BY <2>1
  <2> QED BY <2>1, <2>2, <2>3
<1> QED BY <1>1, <1>2, <1>3 DEF kb_handler

\* The loop keeps the invariant.
LEMMA LoopPreserves ==
  ASSUME IInv, Loop
  PROVE  IInv'
<1> USE DEF IInv, TypeOK, ReadPosition, ring, mods
<1>1. CASE ReadEmpty
  BY <1>1 DEF ReadEmpty
<1>2. CASE ReadStart
  BY <1>2 DEF ReadStart
<1>3. CASE AdvanceFirst
  BY <1>3, SuccFacts DEF AdvanceFirst, TailAfterRead
<1>4. CASE LoadLast
  BY <1>4 DEF LoadLast
<1>5. CASE LoadFirst
  BY <1>5 DEF LoadFirst
<1>6. CASE AdvanceLast
  BY <1>6, SuccFacts DEF AdvanceLast, TailAfterRead
<1>7. CASE LoadShift
  <2>1. asked' \subseteq BOOLEAN
    <3>1. asked' = {shift # caps}
      BY <1>7, Zenon DEF LoadShift
    <3>2. (shift # caps) \in BOOLEAN
      BY Zenon
    <3> QED BY <3>1, <3>2, Zenon
  <2> QED BY <1>7, <2>1 DEF LoadShift, LoadedShift
<1>8. CASE Deliver
  BY <1>8 DEF Deliver
<1> QED BY <1>1, <1>2, <1>3, <1>4, <1>5, <1>6, <1>7, <1>8 DEF Loop

LEMMA NextPreserves == IInv /\ [Next]_vars => IInv'
<1> SUFFICES ASSUME IInv, [Next]_vars PROVE IInv'
  OBVIOUS
<1>1. CASE kb_handler
  BY <1>1, HandlerPreserves
<1>2. CASE Loop
  BY <1>2, LoopPreserves
<1>3. CASE UNCHANGED vars
  BY <1>3 DEF vars, IInv, TypeOK, ReadPosition
<1> QED BY <1>1, <1>2, <1>3 DEF Next

\* The types of the driver's state.
THEOREM TypeCorrect == Spec => []TypeOK
<1>1. IInv => TypeOK
  BY DEF IInv
<1> QED BY <1>1, InitHolds, NextPreserves, PTL DEF Spec

\* Only a key press stores into the ring, at the head, and only with room.
LEMMA StoresAtHead ==
  ASSUME IInv, [Next]_vars
  PROVE  \/ buff' = buff
         \/ Succ(head) # tail /\ \E k \in Keys : buff' = [buff EXCEPT ![head] = k]
<1>1. CASE kb_handler
  BY <1>1 DEF kb_handler, ShiftEvent, CapsPress, KeyPress, HasRoom, ring
<1>2. CASE Loop
  BY <1>2 DEF Loop, ReadEmpty, ReadStart, AdvanceFirst, LoadLast, LoadFirst,
              AdvanceLast, LoadShift, Deliver, ring
<1> QED BY <1>1, <1>2 DEF Next, vars

\* The interrupt never stores into a slot kb_read has given back and not loaded.
THEOREM SlotNotReused == Spec => SlotIsNotReused
<1>1. IInv /\ [Next]_vars => [pc = "advanced" => buff'[slot] = buff[slot]]_vars
  <2> SUFFICES ASSUME IInv, [Next]_vars, pc = "advanced"
               PROVE  buff'[slot] = buff[slot]
    OBVIOUS
  <2>1. tail = Succ(slot) /\ slot \in Slots /\ head \in Slots /\ DOMAIN buff = Slots
    BY DEF IInv, ReadPosition, TypeOK
  <2>2. Succ(head) # tail => head # slot
    BY <2>1
  <2> QED BY <2>1, <2>2, StoresAtHead
<1> QED BY <1>1, InitHolds, NextPreserves, PTL DEF Spec, SlotIsNotReused

\* The one slot that stops holding a key is the oldest key's.
LEMMA OnlyTheTailLeaves ==
  ASSUME IInv, [Next]_vars, NEW i \in Slots, Occupied(i), i # tail
  PROVE  Occupied(i)'
<1> USE RingAssumption DEF IInv, TypeOK, ReadPosition, ring, mods, Occupied, Slots
<1>1. ASSUME NEW k \in Keys, KeyPress(k) PROVE Occupied(i)'
  BY <1>1 DEF KeyPress, HasRoom, Succ
<1>2. CASE AdvanceFirst
  BY <1>2 DEF AdvanceFirst, TailAfterRead, Succ
<1>3. CASE AdvanceLast
  BY <1>3 DEF AdvanceLast, TailAfterRead, Succ
<1>4. CASE UNCHANGED <<head, tail>>
  BY <1>4
<1> QED BY <1>1, <1>2, <1>3, <1>4 DEF Next, kb_handler, ShiftEvent, CapsPress, Loop,
     ReadEmpty, ReadStart, LoadLast, LoadFirst, LoadShift, Deliver, vars

\* A key that was accepted stays in its slot until the reader takes it.
THEOREM AcceptedStay == Spec => AcceptedKeysStay
<1>1. IInv /\ [Next]_vars =>
        [\A i \in Slots : Occupied(i) =>
           buff'[i] = buff[i] /\ (i = tail \/ Occupied(i)')]_vars
  <2> SUFFICES ASSUME IInv, [Next]_vars, NEW i \in Slots, Occupied(i)
               PROVE  buff'[i] = buff[i] /\ (i = tail \/ Occupied(i)')
    OBVIOUS
  <2>1. i # head
    BY RingAssumption DEF IInv, TypeOK, Occupied, Slots
  <2>2. buff'[i] = buff[i]
    BY <2>1, StoresAtHead DEF IInv, TypeOK
  <2> QED BY <2>2, OnlyTheTailLeaves
<1> QED BY <1>1, InitHolds, NextPreserves, PTL DEF Spec, AcceptedKeysStay

------------------------------------------------------------------------------
(* The case of a character *)

\* While translate is between its loads, both the case it would give now and the
\* one that is asked for now have been asked for.  The second part is what a press
\* of caps lock falls back on when shift has changed since it was loaded.
CaseInv == CaseOfOneMoment /\ (pc = "caps" => (shift # caps) \in asked)

LEMMA CasePreserved == IInv /\ CaseInv /\ [Next]_vars => CaseInv'
<1> SUFFICES ASSUME IInv, CaseInv, [Next]_vars PROVE CaseInv'
  OBVIOUS
<1>1. CASE CapsPress
  <2>1. CASE pc = "caps"
    <3>1. /\ asked' = asked \cup {shift' # caps'} /\ caps' = ~caps
          /\ shift' = shift /\ seen' = seen
      BY <1>1, <2>1, Zenon DEF CapsPress, Asks
    <3>2. shift \in BOOLEAN /\ seen \in BOOLEAN /\ caps \in BOOLEAN
      BY DEF IInv, TypeOK
    <3>3. (shift # caps) \in asked
      BY <2>1 DEF CaseInv
    <3>4. Big' = (seen # ~caps)
      BY <3>1, Zenon DEF Big
    <3>5. (shift' # caps') \in asked'
      BY <3>1, Zenon
    <3>6. ASSUME seen = shift PROVE Big' \in asked'
      BY <3>1, <3>4, <3>5, <3>6, Zenon
    <3>7. ASSUME seen # shift PROVE Big' \in asked'
      <4>1. (seen # ~caps) = (shift # caps)
        BY <3>2, <3>7, Zenon
      <4> QED BY <3>1, <3>3, <3>4, <4>1, Zenon
    <3> QED BY <3>5, <3>6, <3>7, Zenon DEF CaseInv, CaseOfOneMoment
  <2>2. CASE pc # "caps"
    BY <1>1, <2>2 DEF CapsPress, CaseInv, CaseOfOneMoment
  <2> QED BY <2>1, <2>2
<1>2. ASSUME NEW down \in BOOLEAN, ShiftEvent(down) PROVE CaseInv'
  <2>1. CASE pc = "caps"
    <3>1. /\ asked' = asked \cup {shift' # caps'} /\ caps' = caps /\ seen' = seen
      BY <1>2, <2>1, Zenon DEF ShiftEvent, Asks
    <3>2. Big' = Big /\ Big \in asked
      BY <2>1, <3>1, Zenon DEF Big, CaseInv, CaseOfOneMoment
    <3> QED BY <3>1, <3>2, Zenon DEF CaseInv, CaseOfOneMoment
  <2>2. CASE pc # "caps"
    BY <1>2, <2>2 DEF ShiftEvent, CaseInv, CaseOfOneMoment
  <2> QED BY <2>1, <2>2
<1>3. CASE LoadShift
  <2>1. asked' = {shift # caps} /\ seen' = shift /\ shift' = shift /\ caps' = caps
    BY <1>3, Zenon DEF LoadShift, LoadedShift, mods
  <2>2. Big' = (shift # caps) /\ (shift' # caps') = (shift # caps)
    BY <2>1, Zenon DEF Big
  <2>3. Big' \in asked' /\ (shift' # caps') \in asked'
    BY <2>1, <2>2, Zenon
  <2> QED BY <2>3, Zenon DEF CaseInv, CaseOfOneMoment
<1>4. CASE UNCHANGED <<shift, caps, seen, asked>> /\ (pc' = "caps" => pc = "caps")
  BY <1>4, Zenon DEF CaseInv, CaseOfOneMoment, Big
<1>5. CASE Deliver
  <2>1. pc' # "caps"
    BY <1>5 DEF Deliver
  <2> QED BY <2>1, Zenon DEF CaseInv, CaseOfOneMoment
<1> QED BY <1>1, <1>2, <1>3, <1>4, <1>5 DEF Next, kb_handler, KeyPress, Loop, mods, vars,
     ReadEmpty, ReadStart, AdvanceFirst, LoadLast, LoadFirst, AdvanceLast

\* Whenever shift and caps lock change, a character has the case that both asked
\* for at one moment of its translation.
THEOREM OneMomentsCase == Spec => []CaseOfOneMoment
<1>1. Init => CaseInv
  BY DEF Init, CaseInv, CaseOfOneMoment
<1>2. CaseInv => CaseOfOneMoment
  BY DEF CaseInv
<1> QED BY <1>1, <1>2, CasePreserved, InitHolds, NextPreserves, PTL DEF Spec

------------------------------------------------------------------------------
(* The queue *)

\* The ring from the f-th occupied slot on, as a sequence.
From(f) == [i \in 1 .. Count + 1 - f |-> buff[SlotOf(i + f - 1)]]

LEMMA CountFacts ==
  ASSUME TypeOK
  PROVE  /\ Count \in 0 .. N - 1
         /\ (Count = 0) <=> (head = tail)
         /\ (Count = N - 1) <=> (Succ(head) = tail)
         /\ \A i \in 1 .. N : SlotOf(i) \in Slots
         /\ SlotOf(1) = tail
         /\ SlotOf(Count + 1) = head
         /\ \A i \in 1 .. Count : SlotOf(i) # head
<1> QED BY RingAssumption DEF TypeOK, Count, SlotOf, Succ, Slots

LEMMA FromIsASequence ==
  ASSUME TypeOK, NEW f \in {1, 2}, f <= Count + 1
  PROVE  /\ From(f) \in Seq(Keys \cup {NoKey})
         /\ Len(From(f)) = Count + 1 - f
         /\ \A i \in 1 .. Count + 1 - f : From(f)[i] = buff[SlotOf(i + f - 1)]
<1>1. Count \in Nat /\ Count + 1 - f \in Nat /\ Count <= N - 1 /\ N \in Nat
  BY CountFacts, RingAssumption
<1>2. \A i \in 1 .. Count + 1 - f : buff[SlotOf(i + f - 1)] \in Keys \cup {NoKey}
  <2> SUFFICES ASSUME NEW i \in 1 .. Count + 1 - f
               PROVE  buff[SlotOf(i + f - 1)] \in Keys \cup {NoKey}
    OBVIOUS
  <2>1. i + f - 1 \in 1 .. N
    BY <1>1
  <2>2. SlotOf(i + f - 1) \in Slots
    BY <2>1, CountFacts
  <2> QED BY <2>2 DEF TypeOK
<1>3. From(f) \in [1 .. Count + 1 - f -> Keys \cup {NoKey}]
  BY <1>2 DEF From
<1>4. From(f) \in Seq(Keys \cup {NoKey})
  BY <1>1, <1>3, SeqDef
<1>5. Len(From(f)) = Count + 1 - f
  BY <1>1, <1>3, <1>4, LenProperties
<1> QED BY <1>4, <1>5 DEF From

LEMMA QueueIs == Queue = From(IF pc = "loaded" THEN 2 ELSE 1)
<1> QED BY DEF Queue, From

\* What the ring holds for its readers, as a sequence.
First == IF pc = "loaded" THEN 2 ELSE 1

QueueShape ==
  /\ Queue \in Seq(Keys \cup {NoKey})
  /\ Len(Queue) = Count + 1 - First
  /\ \A i \in 1 .. Count + 1 - First : Queue[i] = buff[SlotOf(i + First - 1)]

LEMMA QueueFacts == IInv => QueueShape
<1> SUFFICES ASSUME IInv PROVE QueueShape
  OBVIOUS
<1>1. First \in {1, 2} /\ First <= Count + 1 /\ TypeOK
  BY CountFacts, RingAssumption DEF IInv, ReadPosition, First
<1>2. Queue = From(First)
  BY QueueIs DEF First
<1> QED BY <1>1, <1>2, FromIsASequence DEF QueueShape

LEMMA QueueFactsNext == IInv' => QueueShape'
<1> QED BY QueueFacts, PTL

\* The slots after a step, in terms of those before it.
LEMMA TailStep ==
  ASSUME TypeOK, head # tail, head' = head, tail' = Succ(tail)
  PROVE  /\ Count' = Count - 1
         /\ \A i \in 1 .. N - 1 : SlotOf(i)' = SlotOf(i + 1)
<1> QED BY RingAssumption DEF TypeOK, Count, SlotOf, Succ, Slots

LEMMA HeadStep ==
  ASSUME TypeOK, Succ(head) # tail, tail' = tail, head' = Succ(head)
  PROVE  /\ Count' = Count + 1
         /\ \A i \in 1 .. N : SlotOf(i)' = SlotOf(i)
<1> QED BY RingAssumption DEF TypeOK, Count, SlotOf, Succ, Slots

LEMMA SameRing ==
  ASSUME UNCHANGED <<buff, head, tail>>, (pc = "loaded") = (pc' = "loaded")
  PROVE  Queue' = Queue
<1> QED BY DEF Queue, Count, SlotOf

LEMMA KeyPressImplements ==
  ASSUME IInv, IInv', NEW k \in Keys, KeyPress(k)
  PROVE  AsQueue!Press(k)
<1>1. /\ Succ(head) # tail /\ buff' = [buff EXCEPT ![head] = k]
      /\ head' = Succ(head)
      /\ UNCHANGED <<tail, pc, slot, key>>
      /\ TypeOK /\ DOMAIN buff = Slots
  BY DEF KeyPress, HasRoom, IInv, TypeOK
<1>2. /\ Count' = Count + 1
      /\ \A i \in 1 .. N : SlotOf(i)' = SlotOf(i)
      /\ Count \in Nat /\ Count <= N - 1 /\ Count # N - 1 /\ N \in Nat
      /\ \A i \in 1 .. N : SlotOf(i) \in Slots
      /\ SlotOf(Count + 1) = head
      /\ \A i \in 1 .. Count : SlotOf(i) # head
  BY <1>1, HeadStep, CountFacts, RingAssumption
<1>3. QueueShape /\ QueueShape' /\ First' = First /\ First \in {1, 2}
      /\ First <= Count + 1
  BY <1>1, CountFacts, RingAssumption, QueueFacts, QueueFactsNext
  DEF First, IInv, ReadPosition
<1> DEFINE l == Len(Queue)
<1>4. l = Count + 1 - First /\ l \in Nat /\ Len(Queue') = l + 1
  BY <1>2, <1>3 DEF QueueShape
<1>5. l < N - 1
  BY <1>2, <1>3, <1>4
<1>6. Queue' = Append(Queue, k)
  <2>1. Append(Queue, k) \in Seq(Keys \cup {NoKey}) /\ Len(Append(Queue, k)) = l + 1
    BY <1>3 DEF QueueShape
  <2>2. ASSUME NEW i \in 1 .. l + 1
        PROVE  Queue'[i] = Append(Queue, k)[i]
    <3>1. Queue'[i] = buff'[SlotOf(i + First - 1)]
      <4>1. i + First - 1 \in 1 .. N /\ i \in 1 .. Count' + 1 - First'
        BY <1>2, <1>3, <1>4
      <4>2. PICK j \in 1 .. N : j = i + First - 1
        BY <4>1
      <4>3. Queue'[i] = buff'[SlotOf(j)']
        BY <1>3, <4>1, <4>2 DEF QueueShape
      <4> QED BY <1>2, <4>2, <4>3
    <3>2. CASE i = l + 1
      <4>1. SlotOf(i + First - 1) = head
        BY <1>2, <1>3, <1>4, <3>2
      <4>2. Append(Queue, k)[i] = k
        BY <1>3, <3>2 DEF QueueShape
      <4> QED BY <1>1, <3>1, <4>1, <4>2 DEF IInv, TypeOK
    <3>3. CASE i \in 1 .. l
      <4>1. i + First - 1 \in 1 .. Count /\ i + First - 1 \in 1 .. N
        BY <1>2, <1>3, <1>4, <3>3
      <4>2. buff'[SlotOf(i + First - 1)] = buff[SlotOf(i + First - 1)]
        BY <1>1, <1>2, <4>1
      <4>3. Append(Queue, k)[i] = Queue[i]
        BY <1>3, <3>3 DEF QueueShape
      <4>4. Queue[i] = buff[SlotOf(i + First - 1)]
        BY <1>3, <1>4, <3>3 DEF QueueShape
      <4> QED BY <3>1, <4>2, <4>3, <4>4
    <3> QED BY <1>4, <3>2, <3>3
  <2>3. Queue' \in Seq(Keys \cup {NoKey})
    BY <1>3 DEF QueueShape
  <2> QED BY ONLY <1>4, <2>1, <2>2, <2>3, SeqEqual
<1>7. Taken' = Taken
  <2>1. pc = "advanced" => buff'[slot] = buff[slot]
    BY <1>1 DEF IInv, ReadPosition
  <2> QED BY <1>1, <2>1 DEF Taken
<1> QED BY <1>5, <1>6, <1>7 DEF AsQueue!Press

\* kb_read takes the oldest key where it stores the tail first, or loads first.
LEMMA ReadImplements ==
  ASSUME IInv, IInv', AdvanceFirst \/ LoadFirst
  PROVE  AsQueue!Take
<1>1. /\ pc \in {"advance", "load"} /\ slot = tail /\ tail # head /\ TypeOK
      /\ UNCHANGED <<buff, head, slot>>
  BY DEF AdvanceFirst, LoadFirst, IInv, ReadPosition, ring, TypeOK
<1>2. /\ Count \in Nat /\ Count <= N - 1 /\ Count # 0 /\ N \in Nat
      /\ SlotOf(1) = tail
  BY <1>1, CountFacts, RingAssumption
<1>3. QueueShape /\ QueueShape' /\ First = 1
  BY <1>1, QueueFacts, QueueFactsNext DEF First
<1>4. Queue \in Seq(Keys \cup {NoKey}) /\ Len(Queue) = Count /\ Queue # <<>>
  BY <1>2, <1>3 DEF QueueShape
<1>5. Head(Queue) = buff[slot]
  <2>1. Queue[1] = buff[SlotOf(1 + 1 - 1)]
    BY <1>2, <1>3 DEF QueueShape
  <2>2. Head(Queue) = Queue[1]
    BY <1>4
  <2> QED BY <1>1, <1>2, <2>1, <2>2
<1>6. Taken' = buff[slot]
  BY <1>1 DEF AdvanceFirst, LoadFirst, Taken
<1>7. /\ Len(Queue') = Count - 1
      /\ \A i \in 1 .. Count - 1 : Queue'[i] = buff[SlotOf(i + 1)]
  <2>1. CASE AdvanceFirst
    <3>1. tail' = Succ(tail) /\ head' = head /\ First' = 1
      BY <1>1, <2>1 DEF AdvanceFirst, TailAfterRead, First
    <3>2. Count' = Count - 1 /\ \A i \in 1 .. N - 1 : SlotOf(i)' = SlotOf(i + 1)
      BY <1>1, <3>1, TailStep
    <3>3. ASSUME NEW i \in 1 .. Count - 1
          PROVE  Queue'[i] = buff[SlotOf(i + 1)]
      <4>1. i \in 1 .. Count' + 1 - First' /\ i + First' - 1 = i /\ i \in 1 .. N - 1
        BY <1>2, <3>1, <3>2
      <4>2. Queue'[i] = buff'[SlotOf(i)']
        BY <1>3, <4>1 DEF QueueShape
      <4> QED BY <1>1, <3>2, <4>1, <4>2
    <3> QED BY <1>2, <1>3, <3>1, <3>2, <3>3 DEF QueueShape
  <2>2. CASE LoadFirst
    <3>1. tail' = tail /\ head' = head /\ First' = 2
      BY <2>2 DEF LoadFirst, First, ring
    <3>2. Count' = Count /\ \A i : SlotOf(i)' = SlotOf(i)
      BY <3>1 DEF Count, SlotOf
    <3>3. ASSUME NEW i \in 1 .. Count - 1
          PROVE  Queue'[i] = buff[SlotOf(i + 1)]
      <4>1. i \in 1 .. Count' + 1 - First' /\ i + First' - 1 = i + 1
        BY <1>2, <3>1, <3>2
      <4>2. Queue'[i] = buff'[SlotOf(i + 1)']
        BY <1>3, <4>1 DEF QueueShape
      <4> QED BY <1>1, <3>2, <4>2
    <3> QED BY <1>2, <1>3, <3>1, <3>2, <3>3 DEF QueueShape
  <2> QED BY <2>1, <2>2
<1>8. Queue' = Tail(Queue)
  <2>1. /\ Tail(Queue) \in Seq(Keys \cup {NoKey})
        /\ Len(Tail(Queue)) = Count - 1
        /\ \A i \in 1 .. Count - 1 : Tail(Queue)[i] = Queue[i + 1]
    BY <1>4, HeadTailProperties
  <2>2. \A i \in 1 .. Count - 1 : Queue[i + 1] = buff[SlotOf(i + 1)]
    <3> SUFFICES ASSUME NEW i \in 1 .. Count - 1
                 PROVE  Queue[i + 1] = buff[SlotOf(i + 1)]
      OBVIOUS
    <3>1. i + 1 \in 1 .. Count + 1 - First /\ (i + 1) + First - 1 = i + 1
      BY <1>2, <1>3
    <3> QED BY <1>3, <3>1 DEF QueueShape
  <2>3. Queue' \in Seq(Keys \cup {NoKey})
    BY <1>3 DEF QueueShape
  <2> QED BY <1>7, <2>1, <2>2, <2>3, SeqEqual
<1> QED BY <1>4, <1>5, <1>6, <1>8 DEF AsQueue!Take

\* The second half of a read changes nothing the queue shows.
LEMMA AdvanceLastImplements ==
  ASSUME IInv, IInv', AdvanceLast
  PROVE  Queue' = Queue /\ Taken' = Taken
<1>1. /\ pc = "loaded" /\ pc' = "translate" /\ slot = tail /\ tail # head /\ TypeOK
      /\ tail' = Succ(tail)
      /\ UNCHANGED <<buff, head, slot, key>>
  BY DEF AdvanceLast, TailAfterRead, IInv, ReadPosition
<1>2. /\ Count' = Count - 1 /\ Count \in Nat /\ Count <= N - 1 /\ Count # 0
      /\ N \in Nat /\ \A i \in 1 .. N - 1 : SlotOf(i)' = SlotOf(i + 1)
  BY <1>1, TailStep, CountFacts, RingAssumption
<1>3. QueueShape /\ QueueShape' /\ First = 2 /\ First' = 1
  BY <1>1, QueueFacts, QueueFactsNext DEF First
<1>4. ASSUME NEW i \in 1 .. Count - 1
      PROVE  Queue'[i] = Queue[i]
  <2>1. /\ i \in 1 .. Count' + 1 - First' /\ i + First' - 1 = i
        /\ i \in 1 .. Count + 1 - First /\ i + First - 1 = i + 1
        /\ i \in 1 .. N - 1
    BY <1>2, <1>3
  <2>2. Queue'[i] = buff'[SlotOf(i)'] /\ Queue[i] = buff[SlotOf(i + 1)]
    BY <1>3, <2>1 DEF QueueShape
  <2> QED BY <1>1, <1>2, <2>1, <2>2
<1>5. /\ Queue \in Seq(Keys \cup {NoKey}) /\ Queue' \in Seq(Keys \cup {NoKey})
      /\ Len(Queue) = Count - 1 /\ Len(Queue') = Count - 1
  BY <1>2, <1>3 DEF QueueShape
<1> QED BY <1>1, <1>4, <1>5, SeqEqual DEF Taken

LEMMA StepImplements ==
  IInv /\ IInv' /\ [Next]_vars => [AsQueue!Next]_<<Queue, Taken>>
<1> SUFFICES ASSUME IInv, IInv', [Next]_vars
             PROVE  [AsQueue!Next]_<<Queue, Taken>>
  OBVIOUS
<1> USE DEF ring, mods
<1>1. CASE kb_handler
  <2>1. ASSUME NEW k \in Keys, KeyPress(k) PROVE AsQueue!Next
    BY <2>1, KeyPressImplements DEF AsQueue!Next
  <2>2. ASSUME UNCHANGED <<ring, pc, slot, key>> PROVE UNCHANGED <<Queue, Taken>>
    BY <2>2, SameRing DEF Taken
  <2> QED BY <1>1, <2>1, <2>2 DEF kb_handler, ShiftEvent, CapsPress
<1>2. CASE AdvanceFirst \/ LoadFirst
  BY <1>2, ReadImplements DEF AsQueue!Next
<1>3. CASE AdvanceLast
  BY <1>3, AdvanceLastImplements
<1>4. CASE ReadEmpty \/ ReadStart
  <2>1. UNCHANGED ring /\ pc = "poll" /\ pc' # "loaded" /\ pc' # "advanced"
        /\ key = NoKey /\ key' = NoKey
    BY <1>4 DEF ReadEmpty, ReadStart, IInv, ReadPosition
  <2> QED BY <2>1, SameRing DEF Taken
<1>5. CASE LoadLast
  <2>1. UNCHANGED ring /\ pc = "advanced" /\ pc' = "translate" /\ key' = buff[slot]
    BY <1>5 DEF LoadLast
  <2> QED BY <2>1, SameRing DEF Taken
<1>6. CASE LoadShift
  <2>1. UNCHANGED ring /\ pc = "translate" /\ pc' = "caps" /\ key' = key
    BY <1>6 DEF LoadShift
  <2> QED BY <2>1, SameRing DEF Taken
<1>7. CASE Deliver
  <2>1. UNCHANGED ring /\ pc = "caps" /\ pc' = "poll" /\ key' = NoKey
    BY <1>7 DEF Deliver
  <2>2. Queue' = Queue /\ Taken' = NoKey
    BY <2>1, SameRing DEF Taken
  <2> QED BY <2>2 DEF AsQueue!Next, AsQueue!Forget
<1>8. CASE UNCHANGED vars
  BY <1>8, SameRing DEF vars, Taken
<1> QED
  BY <1>1, <1>2, <1>3, <1>4, <1>5, <1>6, <1>7, <1>8 DEF Next, Loop

LEMMA InitImplements == Init => AsQueue!Init
<1> SUFFICES ASSUME Init PROVE Queue = <<>> /\ Taken = NoKey
  BY DEF AsQueue!Init
<1>1. IInv /\ Count = 0 /\ First = 1
  BY InitHolds DEF Init, Count, First
<1>2. Len(Queue) = 0 /\ Queue \in Seq(Keys \cup {NoKey})
  BY <1>1, QueueFacts DEF QueueShape
<1> QED BY <1>2, EmptySeq DEF Init, Taken

\* kb_handler and kb_read together are a queue of N - 1 keys: first in, first
\* out, nothing lost once accepted, nothing read twice.
THEOREM DriverIsAQueue == Spec => ImplementsKeyQueue
<1> QED BY InitImplements, StepImplements, InitHolds, NextPreserves, PTL
        DEF Spec, ImplementsKeyQueue, AsQueue!Spec, AsQueue!vars
============================================================================
