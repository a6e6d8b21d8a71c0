------------------------- MODULE CommandLineProofs -------------------------
(***************************************************************************)
(* Proofs about CommandLine: for every first size of the buffer and every  *)
(* sequence of keys, no branch of the loop stores outside the buffer, and  *)
(* the shell is given exactly the line that was typed.                     *)
(***************************************************************************)
EXTENDS CommandLine, SequenceTheorems, TLAPS

\* The byte after the next one is in the buffer too, and the line holds no NUL:
\* the first keeps the stores inside, the second ends the string at the count.
IInv ==
  /\ TypeOK
  /\ comm_buff_cnt + 1 < comm_cap
  /\ \A i \in 0 .. comm_buff_cnt - 1 : comm_buff[i] \in Chars

LineNow == [i \in 1 .. comm_buff_cnt |-> comm_buff[i - 1]]

LEMMA InitHolds == Init => IInv
<1> SUFFICES ASSUME Init PROVE IInv
  OBVIOUS
<1>1. <<>> \in Seq(Chars)
  OBVIOUS
<1> QED BY <1>1, BufferAssumption DEF Init, IInv, TypeOK

LEMMA LineIsASequence ==
  ASSUME IInv
  PROVE  LineNow \in Seq(Chars) /\ Len(LineNow) = comm_buff_cnt
<1>1. comm_buff_cnt \in Nat
  BY DEF IInv, TypeOK
<1>2. \A i \in 1 .. comm_buff_cnt : comm_buff[i - 1] \in Chars
  <2> SUFFICES ASSUME NEW i \in 1 .. comm_buff_cnt PROVE comm_buff[i - 1] \in Chars
    OBVIOUS
  <2>1. i - 1 \in 0 .. comm_buff_cnt - 1
    BY <1>1
  <2> QED BY <2>1 DEF IInv
<1>3. LineNow \in [1 .. comm_buff_cnt -> Chars]
  BY <1>2 DEF LineNow
<1>4. LineNow \in Seq(Chars)
  BY <1>1, <1>3, SeqDef
<1> QED BY <1>1, <1>3, <1>4, LenProperties

\* The string cmd_parse sees ends where the line does.
LEMMA EnterGivesTheLine ==
  ASSUME IInv, Enter
  PROVE  command' = LineNow
<1> DEFINE ended == [comm_buff EXCEPT ![comm_buff_cnt] = NUL]
<1>1. PICK n \in 0 .. comm_cap - 1 :
        command' = [i \in 1 .. n |-> ended[i - 1]] /\ IsString(ended, command')
  BY DEF Enter
<1>2. /\ comm_buff_cnt \in 0 .. comm_cap - 1 /\ comm_cap \in Nat
      /\ comm_buff \in [0 .. comm_cap - 1 -> Chars \cup {NUL, Junk}]
  BY DEF IInv, TypeOK
<1>3. /\ ended[comm_buff_cnt] = NUL
      /\ \A i \in 0 .. comm_buff_cnt - 1 : ended[i] = comm_buff[i] /\ ended[i] # NUL
  BY <1>2, BufferAssumption DEF IInv
<1> HIDE DEF ended
<1>4. Len(command') = n
  BY <1>1, <1>2
<1>5. ~(n < comm_buff_cnt)
  <2> SUFFICES ASSUME n < comm_buff_cnt PROVE FALSE
    OBVIOUS
  <2>1. n \in 0 .. comm_buff_cnt - 1
    BY <1>2
  <2> QED BY <2>1, <1>1, <1>3, <1>4 DEF IsString
<1>6. ~(comm_buff_cnt < n)
  <2> SUFFICES ASSUME comm_buff_cnt < n PROVE FALSE
    OBVIOUS
  <2> DEFINE k == comm_buff_cnt + 1
  <2>1. k \in 1 .. n /\ k - 1 = comm_buff_cnt
    BY <1>2
  <2> HIDE DEF k
  <2>2. \A i \in 1 .. n : command'[i] = ended[i - 1]
    BY <1>1
  <2>3. command'[k] = ended[k - 1]
    BY <2>1, <2>2
  <2>4. command'[k] # NUL
    BY <1>1, <1>4, <2>1 DEF IsString
  <2> QED BY <1>3, <2>1, <2>3, <2>4
<1>7. n = comm_buff_cnt
  BY <1>2, <1>5, <1>6
<1>8. \A i \in 1 .. comm_buff_cnt : ended[i - 1] = comm_buff[i - 1]
  BY <1>2, <1>3
<1> QED BY <1>1, <1>7, <1>8 DEF LineNow

\* A byte stored at the end of the line, in the buffer or in a longer copy.
LEMMA CharacterStores ==
  ASSUME IInv, NEW c \in Chars, Character(c)
  PROVE  /\ comm_cap' \in Nat /\ comm_buff_cnt' = comm_buff_cnt + 1
         /\ comm_buff_cnt + 2 < comm_cap'
         /\ comm_buff' \in [0 .. comm_cap' - 1 -> Chars \cup {NUL, Junk}]
         /\ comm_buff'[comm_buff_cnt] = c
         /\ \A i \in 0 .. comm_buff_cnt - 1 : comm_buff'[i] = comm_buff[i]
         /\ UNCHANGED command
<1> USE DEF IInv, TypeOK, Character, MustGrow
<1>1. CASE MustGrow(comm_buff_cnt, comm_cap)
  <2>1. /\ comm_cap' = 2 * comm_cap
        /\ comm_buff' = [Grown EXCEPT ![comm_buff_cnt] = c]
        /\ comm_buff_cnt' = comm_buff_cnt + 1 /\ command' = command
        /\ comm_cap \in Nat /\ comm_buff_cnt \in Nat /\ comm_buff_cnt + 1 < comm_cap
    BY <1>1
  <2>2. Grown \in [0 .. 2 * comm_cap - 1 -> Chars \cup {NUL, Junk}]
    BY DEF Grown
  <2>3. \A i \in 0 .. comm_buff_cnt - 1 : Grown[i] = comm_buff[i]
    BY <2>1 DEF Grown
  <2> HIDE DEF IInv, TypeOK, Character, MustGrow
  <2> QED BY <2>1, <2>2, <2>3
<1>2. CASE ~MustGrow(comm_buff_cnt, comm_cap)
  BY <1>2
<1> QED BY <1>1, <1>2

LEMMA NextPreserves == IInv /\ [Next]_vars => IInv'
<1> SUFFICES ASSUME IInv, [Next]_vars PROVE IInv'
  OBVIOUS
<1>1. ASSUME NEW c \in Chars, Character(c) PROVE IInv'
  BY <1>1, CharacterStores DEF IInv, TypeOK
<1>2. CASE Backspace
  BY <1>2 DEF Backspace, IInv, TypeOK
<1>3. CASE Enter
  <2>1. command' \in Seq(Chars)
    BY <1>3, EnterGivesTheLine, LineIsASequence
  <2>2. comm_buff' \in [0 .. comm_cap' - 1 -> Chars \cup {NUL, Junk}]
    BY <1>3 DEF Enter, Reset, Split, IInv, TypeOK
  <2>3. comm_cap' = comm_cap /\ comm_buff_cnt' = 0 /\ comm_cap \in Nat /\ 1 < comm_cap
    BY <1>3 DEF Enter, Reset, IInv, TypeOK
  <2> QED BY <2>1, <2>2, <2>3 DEF IInv, TypeOK
<1>4. CASE UNCHANGED vars
  BY <1>4 DEF vars, IInv, TypeOK
<1> QED BY <1>1, <1>2, <1>3, <1>4 DEF Next

LEMMA Inductive == Spec => []IInv
<1> QED BY InitHolds, NextPreserves, PTL DEF Spec

\* Every variable keeps its type; the line never holds a byte that was not typed.
THEOREM TypeCorrect == Spec => []TypeOK
<1>1. IInv => TypeOK
  BY DEF IInv
<1> QED BY <1>1, Inductive, PTL

\* No branch of kmain's loop stores outside comm_buff.
THEOREM NoOverrun == Spec => []StoresInside
<1>1. IInv => StoresInside
  BY DEF IInv, TypeOK, StoresInside
<1> QED BY <1>1, Inductive, PTL

------------------------------------------------------------------------------
(* The line *)

Shape == LineNow \in Seq(Chars) /\ Len(LineNow) = comm_buff_cnt

LEMMA LineShape == IInv => Shape
<1> QED BY LineIsASequence DEF Shape

LEMMA LineShapeNext == IInv' => Shape'
<1> QED BY LineShape, PTL

\* A character is a step of the line that appends it.
LEMMA CharacterTypes ==
  ASSUME IInv, IInv', NEW c \in Chars, Character(c)
  PROVE  LineNow' = Append(LineNow, c) /\ UNCHANGED command
<1>1. /\ LineNow \in Seq(Chars) /\ Len(LineNow) = comm_buff_cnt
      /\ LineNow' \in Seq(Chars) /\ Len(LineNow') = comm_buff_cnt'
      /\ comm_buff_cnt \in Nat
  BY LineShape, LineShapeNext DEF Shape, IInv, TypeOK
<1>2. /\ comm_buff_cnt' = comm_buff_cnt + 1
      /\ comm_buff'[comm_buff_cnt] = c
      /\ \A i \in 0 .. comm_buff_cnt - 1 : comm_buff'[i] = comm_buff[i]
      /\ UNCHANGED command
  BY CharacterStores
<1>3. Append(LineNow, c) \in Seq(Chars) /\ Len(Append(LineNow, c)) = comm_buff_cnt + 1
  BY <1>1
<1>4. ASSUME NEW i \in 1 .. comm_buff_cnt + 1
      PROVE  LineNow'[i] = Append(LineNow, c)[i]
  <2>1. LineNow'[i] = comm_buff'[i - 1]
    BY <1>2 DEF LineNow
  <2>2. CASE i = comm_buff_cnt + 1
    <3>1. comm_buff'[i - 1] = c
      BY <1>1, <1>2, <2>2
    <3>2. Append(LineNow, c)[i] = c
      BY <1>1, <2>2
    <3> QED BY <2>1, <3>1, <3>2
  <2>3. CASE i \in 1 .. comm_buff_cnt
    <3>1. i - 1 \in 0 .. comm_buff_cnt - 1
      BY <1>1, <2>3
    <3>2. LineNow[i] = comm_buff[i - 1]
      BY <2>3 DEF LineNow
    <3>3. Append(LineNow, c)[i] = LineNow[i]
      BY <1>1, <2>3
    <3> QED BY <1>2, <2>1, <3>1, <3>2, <3>3
  <2> QED BY <1>1, <2>2, <2>3
<1> HIDE DEF LineNow
<1>5. LineNow' = Append(LineNow, c)
  BY <1>1, <1>2, <1>3, <1>4, SeqEqual
<1> QED BY <1>2, <1>5

\* A backspace is a step that takes the last character off.
LEMMA BackspaceErases ==
  ASSUME IInv, IInv', Backspace
  PROVE  AsLine!Erase
<1>1. /\ LineNow \in Seq(Chars) /\ Len(LineNow) = comm_buff_cnt
      /\ LineNow' \in Seq(Chars) /\ Len(LineNow') = comm_buff_cnt'
      /\ comm_buff_cnt \in Nat /\ comm_buff_cnt > 0
      /\ comm_buff_cnt' = comm_buff_cnt - 1 /\ UNCHANGED command
      /\ comm_buff' = [comm_buff EXCEPT ![comm_buff_cnt] = NUL]
      /\ comm_buff \in [0 .. comm_cap - 1 -> Chars \cup {NUL, Junk}]
      /\ comm_cap \in Nat /\ comm_buff_cnt < comm_cap
  BY LineShape, LineShapeNext DEF Shape, IInv, TypeOK, Backspace
<1> DEFINE c == comm_buff[comm_buff_cnt - 1]
<1>2. c \in Chars
  BY <1>1 DEF IInv
<1>3. \A i \in 1 .. comm_buff_cnt - 1 : LineNow'[i] = LineNow[i]
  <2> SUFFICES ASSUME NEW i \in 1 .. comm_buff_cnt - 1 PROVE LineNow'[i] = LineNow[i]
    OBVIOUS
  <2>1. LineNow'[i] = comm_buff'[i - 1] /\ LineNow[i] = comm_buff[i - 1]
    BY <1>1 DEF LineNow
  <2>2. comm_buff'[i - 1] = comm_buff[i - 1]
    BY <1>1
  <2> QED BY <2>1, <2>2
<1>4. LineNow[comm_buff_cnt] = c
  BY <1>1 DEF LineNow
<1> HIDE DEF LineNow, c
<1>5. Append(LineNow', c) \in Seq(Chars) /\ Len(Append(LineNow', c)) = comm_buff_cnt
  BY <1>1, <1>2
<1>6. ASSUME NEW i \in 1 .. comm_buff_cnt PROVE LineNow[i] = Append(LineNow', c)[i]
  <2>1. CASE i = comm_buff_cnt
    BY <1>1, <1>2, <1>4, <2>1
  <2>2. CASE i \in 1 .. comm_buff_cnt - 1
    BY <1>1, <1>2, <1>3, <2>2
  <2> QED BY <1>1, <2>1, <2>2
<1>7. LineNow = Append(LineNow', c)
  BY <1>1, <1>5, <1>6, SeqEqual
<1> QED BY <1>1, <1>2, <1>7 DEF AsLine!Erase, LineNow

\* '\n' gives the line away and starts an empty one.
LEMMA EnterEnters ==
  ASSUME IInv, IInv', Enter
  PROVE  AsLine!Enter
<1>1. command' = LineNow
  BY EnterGivesTheLine
<1>2. comm_buff_cnt' = 0 /\ comm_buff_cnt > 0 /\ comm_buff_cnt \in Nat
  BY DEF Enter, Reset, IInv, TypeOK
<1>3. LineNow \in Seq(Chars) /\ Len(LineNow) = comm_buff_cnt
  BY LineShape DEF Shape
<1>4. LineNow # <<>>
  BY <1>2, <1>3
<1>5. LineNow' = <<>>
  <2>1. LineNow' \in Seq(Chars) /\ Len(LineNow') = 0
    BY <1>2, LineShapeNext DEF Shape
  <2> QED BY <2>1
<1> QED BY <1>1, <1>4, <1>5 DEF AsLine!Enter, LineNow

\* The editor implements the prompt's promise.
THEOREM EditorImplementsLine == Spec => ImplementsLine
<1>1. Init => AsLine!Init
  <2> SUFFICES ASSUME Init PROVE AsLine!Init
    OBVIOUS
  <2>1. LineNow \in Seq(Chars) /\ Len(LineNow) = 0 /\ command = <<>>
    BY InitHolds, LineShape DEF Init, Shape
  <2>2. LineNow = <<>>
    BY <2>1
  <2> QED BY <2>1, <2>2 DEF AsLine!Init, LineNow
<1>2. IInv /\ IInv' /\ [Next]_vars => [AsLine!Next]_<<LineNow, command>>
  <2> SUFFICES ASSUME IInv, IInv', [Next]_vars
               PROVE  [AsLine!Next]_<<LineNow, command>>
    OBVIOUS
  <2>1. ASSUME NEW c \in Chars, Character(c) PROVE AsLine!Next
    BY <2>1, CharacterTypes DEF AsLine!Next, AsLine!Type, LineNow
  <2>2. CASE Backspace
    BY <2>2, BackspaceErases DEF AsLine!Next
  <2>3. CASE Enter
    BY <2>3, EnterEnters DEF AsLine!Next
  <2>4. CASE UNCHANGED vars
    BY <2>4 DEF vars, LineNow
  <2> QED BY <2>1, <2>2, <2>3, <2>4 DEF Next
<1> QED BY <1>1, <1>2, Inductive, PTL DEF Spec, ImplementsLine, AsLine!Spec, LineNow
==============================================================================
