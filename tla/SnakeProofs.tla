---------------------------- MODULE SnakeProofs ----------------------------
(***************************************************************************)
(* The game for any screen, tick and length the snake starts with, any     *)
(* counts between two readings of the clock.                               *)
(***************************************************************************)
EXTENDS Snake, Induction

USE SnakeAssumption, PitAssumption

\* The places a segment may be at: also on the border, where the game ends.
Segments == Int \X Int

\* What the array holds; that the head is where the key obeyed last took it, or
\* the snake is still the first one, without which nothing would keep it off its
\* neck; and that only the last segment may be one that was never stored.
SnakeInv ==
  /\ snake \in Seq(Segments) /\ Len(snake) >= 3 /\ snake_capacity \in Nat
  /\ IF prev = NoKey THEN snake = Start ELSE snake[1] = Ahead(snake[2], prev)
  /\ \A i \in 1 .. Len(snake) - 1 : snake[i] # Unset

Inv == TypeOK /\ KeepsTime /\ SnakeInv /\ AliveUntilItHits

------------------------------------------------------------------------------
(* The clock *)

\* What tick_update finds to have gone by is what went by, less whole turns.
LEMMA Elapsed ==
  ASSUME NEW gap \in Nat, last_counter \in 0 .. Span - 1
  PROVE  /\ poll_pit(gap) \in 0 .. Span - 1
         /\ pit_diff(last_counter, poll_pit(gap)) = gap % Span
<1> DEFINE g == gap % Span  sum == last_counter + (Span - g)
<1>1. g \in 0 .. Span - 1
  BY Division
<1> HIDE DEF g
<1>2. sum \in Nat
  BY <1>1
<1>3. CASE sum < Span
  <2>1. sum % Span = sum
    BY <1>2, <1>3, SmallRemainder
  <2>2. poll_pit(gap) = sum
    BY <2>1 DEF poll_pit, g
  <2>3. poll_pit(gap) > last_counter /\ poll_pit(gap) \in 0 .. Span - 1
    BY <1>1, <1>2, <1>3, <2>2
  <2>4. pit_diff(last_counter, poll_pit(gap)) = g
    BY <1>1, <2>2, <2>3 DEF pit_diff
  <2> QED BY <2>3, <2>4 DEF g
<1>4. CASE sum >= Span
  <2> DEFINE rest == sum - Span
  <2>1. rest \in Nat /\ rest < Span
    BY <1>1, <1>4
  <2>2. sum % Span = rest
    <3>1. 1 * Span + rest = sum
      BY <1>2
    <3> HIDE DEF rest
    <3>2. (1 * Span + rest) % Span = rest
      BY <2>1, FromParts
    <3> QED BY <3>1, <3>2
  <2>3. poll_pit(gap) = rest
    BY <2>2 DEF poll_pit, g
  <2>4. pit_diff(last_counter, poll_pit(gap)) = g
    BY <1>1, <2>1, <2>3 DEF pit_diff
  <2> QED BY <2>1, <2>3, <2>4 DEF g
<1> QED BY <1>2, <1>3, <1>4

\* One reading adds a tick or none, and a remainder.
LEMMA Reading ==
  ASSUME NEW gap \in Nat, last_counter \in 0 .. Span - 1, pit_accum \in 0 .. Span - 1
  PROVE  /\ NewTicks(poll_pit(gap)) \in 0 .. 1
         /\ Accumulated(poll_pit(gap)) % Span \in 0 .. Span - 1
         /\ pit_accum + (gap % Span)
              = NewTicks(poll_pit(gap)) * Span + (Accumulated(poll_pit(gap)) % Span)
<1> DEFINE a == Accumulated(poll_pit(gap))  g == gap % Span
<1>1. g \in 0 .. Span - 1
  BY Division
<1>2. a = pit_accum + g
  BY Elapsed DEF Accumulated
<1> HIDE DEF a, g
<1>3. a \in Nat /\ a < 2 * Span
  BY <1>1, <1>2
<1>4. a \div Span \in Nat /\ a % Span \in 0 .. Span - 1 /\ a = Span * (a \div Span) + (a % Span)
  BY <1>3, Division
<1>5. a \div Span < 2
  BY <1>3, QuotientBelow
<1> QED BY <1>2, <1>4, <1>5 DEF NewTicks, a, g

\* A reading of the clock keeps it right.
LEMMA ClockStep ==
  ASSUME Inv, NEW gap \in Nat, ReadClock(gap)
  PROVE  /\ last_counter' \in 0 .. Span - 1 /\ pit_accum' \in 0 .. Span - 1
         /\ until' \in 1 .. tick
         /\ KeepsTime'
<1> DEFINE ticks == NewTicks(poll_pit(gap))  g == gap % Span  period == tick * Span
<1>1. ticks \in 0 .. 1 /\ pit_accum' \in 0 .. Span - 1 /\ pit_accum + g = ticks * Span + pit_accum'
  BY Reading DEF Inv, TypeOK, ReadClock, tick_update
<1>2. last_counter' \in 0 .. Span - 1
  BY Elapsed DEF Inv, TypeOK, ReadClock, tick_update
<1>3. until' = IF until - ticks <= 0 THEN until - ticks + tick ELSE until - ticks
  BY DEF ReadClock, Due, Left
<1>4. time' = (time + g) % period
  BY DEF ReadClock
<1>5. time = (tick - until) * Span + pit_accum /\ until \in 1 .. tick /\ pit_accum \in Nat
  BY DEF Inv, TypeOK, KeepsTime
<1>6. g \in Nat
  BY Division
<1> HIDE DEF ticks, g
<1> DEFINE left == until - ticks  past == (tick - left) * Span + pit_accum'
<1>7. left \in 0 .. tick
  BY <1>1, <1>5
<1>8. until' = (IF left = 0 THEN tick ELSE left) /\ until' \in 1 .. tick
  BY <1>3, <1>7
<1>9. time + g = past
  <2> DEFINE before == (tick - until) * Span  new == ticks * Span
  <2>1. before + new = (tick - left) * Span
    BY <1>1, <1>5
  <2>2. before \in Int /\ new \in Int
    BY <1>1, <1>5
  <2>3. time = before + pit_accum /\ pit_accum + g = new + pit_accum' /\ pit_accum' \in Nat /\ pit_accum \in Nat
    BY <1>1, <1>5
  <2> HIDE DEF before, new
  <2>4. time + g = before + (pit_accum + g)
    BY <1>6, <2>2, <2>3
  <2>5. before + (new + pit_accum') = (before + new) + pit_accum'
    BY <2>2, <2>3
  <2> QED BY <2>1, <2>3, <2>4, <2>5
<1>10. CASE left = 0
  <2>1. until' = tick
    BY <1>8, <1>10
  <2>2. past = 1 * period + pit_accum'
    BY <1>1, <1>10
  <2>3. period \in Nat \ {0} /\ pit_accum' \in Nat /\ pit_accum' < period
    BY <1>1
  <2>4. time' = pit_accum'
    <3> HIDE DEF period, past
    <3>1. (1 * period + pit_accum') % period = pit_accum'
      BY <2>3, FromParts
    <3> QED BY <1>4, <1>9, <2>2, <3>1
  <2>5. (tick - until') * Span = 0
    BY <2>1
  <2>6. KeepsTime'
    BY <1>5, <2>3, <2>4, <2>5 DEF KeepsTime
  <2> QED BY <1>1, <1>2, <1>8, <2>6
<1>11. CASE left # 0
  <2>1. until' = left /\ tick - left \in 0 .. tick - 1
    BY <1>7, <1>8, <1>11
  <2>2. (tick - left) * Span <= (tick - 1) * Span /\ (tick - left) * Span \in Nat
    BY <2>1
  <2>3. period \in Nat \ {0} /\ past \in Nat /\ past < period
    BY <1>1, <2>2
  <2>4. time' = past
    <3> HIDE DEF period, past
    <3> QED BY <1>4, <1>9, <2>3, SmallRemainder
  <2> QED BY <1>1, <1>2, <1>8, <2>1, <2>4 DEF KeepsTime
<1> QED BY <1>10, <1>11

------------------------------------------------------------------------------
(* The snake *)

LEMMA OneStep ==
  ASSUME NEW at \in Segments, NEW key \in Keys
  PROVE  Ahead(at, key) \in Segments
BY DEF Segments, Keys, Ahead

\* Two steps come back to where they began only if the second undoes the first.
LEMMA NoWayBack ==
  ASSUME NEW at \in Segments, NEW first \in Keys, NEW key \in Keys, key # Opposite[first]
  PROVE  Ahead(Ahead(at, first), key) # at
BY DEF Segments, Keys, Ahead, Opposite

LEMMA ObeyedIsNoTurn ==
  ASSUME NEW key \in Keys, prev \in Keys \cup {NoKey}
  PROVE  Obeyed(key) \in Keys /\ (prev # NoKey => Obeyed(key) # Opposite[prev])
BY DEF Obeyed, Keys, Opposite, NoKey

\* The moved snake: the head a step ahead, every other segment where the one
\* before it was.
LEMMA MovedSnake ==
  ASSUME SnakeInv, NEW key \in Keys
  PROVE  /\ Moved(key) \in Seq(Segments) /\ Len(Moved(key)) = Len(snake)
         /\ Moved(key)[1] = Ahead(snake[1], key)
         /\ \A i \in 2 .. Len(snake) : Moved(key)[i] = snake[i - 1]
<1>1. snake[1] \in Segments /\ snake # <<>>
  BY DEF SnakeInv
<1>2. Ahead(snake[1], key) \in Segments
  BY <1>1, OneStep
<1>3. /\ Front(snake) \in Seq(Segments) /\ Len(Front(snake)) = Len(snake) - 1
      /\ \A i \in 1 .. Len(snake) - 1 : Front(snake)[i] = snake[i]
  BY <1>1 DEF SnakeInv, Front
<1> HIDE DEF Segments
<1> QED BY <1>2, <1>3 DEF Moved, SnakeInv

\* A head inside is not where no segment was ever stored after its next step, and
\* still inside unless it is on a border.
LEMMA HeadStep ==
  ASSUME NEW at \in Inside, NEW key \in Keys
  PROVE  /\ Ahead(at, key) # Unset
         /\ ~OnBorder(Ahead(at, key)) => Ahead(at, key) \in Inside
BY DEF Inside, Keys, Ahead, Unset, OnBorder

\* While the length fits the u8, every segment but the head is compared with it.
LEMMA AllCompared ==
  ASSUME snake_length \in Nat, snake_length >= 3, snake_length <= ByteValues
  PROVE  Compared = 2 .. snake_length
<1>1. (snake_length - 1) % ByteValues = snake_length - 1
  BY SmallRemainder
<1> QED BY <1>1 DEF Compared

\* Only `a' leads to the place on the left.
LEMMA LeftIsA ==
  ASSUME NEW x \in Int, NEW y \in Int, NEW key \in Keys, Ahead(<<x, y>>, key) = <<x - 1, y>>
  PROVE  key = "a"
BY DEF Ahead, Keys

\* What the loop compares are segments of the snake.
LEMMA ComparedAreSegments ==
  ASSUME snake_length \in Nat, snake_length >= 3
  PROVE  Compared \subseteq 2 .. snake_length
<1> DEFINE last == snake_length - 1
<1>1. last \in Nat
  OBVIOUS
<1>2. CASE last < ByteValues
  BY <1>2, AllCompared
<1>3. CASE last >= ByteValues
  <2>1. last % ByteValues \in 0 .. ByteValues - 1
    BY <1>1, Division
  <2> QED BY <1>3, <2>1 DEF Compared
<1> QED BY <1>1, <1>2, <1>3

\* A snake whose head is on none of the segments it is compared with lies nowhere
\* across itself if it did not before.
LEMMA StaysInjective ==
  ASSUME SnakeInv, NEW key \in Keys, IsInjective(snake), snake_length <= ByteValues,
         \A i \in Compared : Moved(key)[i] # Moved(key)[1]
  PROVE  IsInjective(Moved(key))
<1> DEFINE body == Moved(key)
<1>1. /\ body \in Seq(Segments) /\ Len(body) = Len(snake) /\ Len(snake) >= 3
      /\ snake \in Seq(Segments)
      /\ \A i \in 2 .. Len(snake) : body[i] = snake[i - 1]
  BY MovedSnake DEF SnakeInv
<1>2. Compared = 2 .. Len(snake)
  BY <1>1, AllCompared DEF snake_length
<1> HIDE DEF body
<1>3. \A i \in 2 .. Len(snake) : body[i] # body[1]
  BY <1>2 DEF body
<1>4. ASSUME NEW i \in 1 .. Len(snake), NEW j \in 1 .. Len(snake), body[i] = body[j]
      PROVE  i = j
  <2>1. CASE i = 1 \/ j = 1
    BY <1>3, <1>4, <2>1
  <2>2. CASE i # 1 /\ j # 1
    <3>1. snake[i - 1] = snake[j - 1] /\ i - 1 \in DOMAIN snake /\ j - 1 \in DOMAIN snake
      BY <1>1, <1>4, <2>2
    <3> QED BY <3>1 DEF IsInjective
  <2> QED BY <2>1, <2>2
<1>5. DOMAIN body = 1 .. Len(snake)
  BY <1>1
<1> QED BY <1>4, <1>5 DEF IsInjective, body

\* The segment that eating adds is not stored yet: it is where no other one is.
LEMMA GrowsInjective ==
  ASSUME NEW body \in Seq(Segments), IsInjective(body), \A i \in 1 .. Len(body) : body[i] # Unset
  PROVE  IsInjective(Append(body, Unset))
<1> HIDE DEF Segments
<1>1. /\ DOMAIN Append(body, Unset) = 1 .. Len(body) + 1
      /\ \A i \in 1 .. Len(body) : Append(body, Unset)[i] = body[i]
      /\ Append(body, Unset)[Len(body) + 1] = Unset
  OBVIOUS
<1> QED BY <1>1 DEF IsInjective

LEMMA UpdateStep ==
  ASSUME Inv, playing, ~end, NEW key \in Keys, grow_capacity, update_snake(key),
         UNCHANGED <<low, playing>>
  PROVE  /\ SnakeInv' /\ snake_length' < snake_capacity' /\ AliveUntilItHits'
         /\ apple' \in Places' /\ move' \in Keys /\ prev' \in Keys /\ end' \in BOOLEAN
         /\ snake'[1] = Ahead(snake[1], key)
<1> DEFINE body == Moved(key)
<1>1. /\ body \in Seq(Segments) /\ Len(body) = Len(snake) /\ Len(snake) >= 3
      /\ body[1] = Ahead(snake[1], key)
      /\ \A i \in 2 .. Len(snake) : body[i] = snake[i - 1]
  BY MovedSnake DEF Inv, SnakeInv
<1>2. Unset \in Segments
  BY DEF Unset, Segments
<1>3. snake' = Append(body, Unset) \/ snake' = body
  BY DEF update_snake
<1>4. apple' \in Places' /\ end' \in BOOLEAN
  BY DEF update_snake, FreePlaces, Inv, TypeOK, Places, Rows
<1>5. move' = key /\ prev' = key
  BY DEF update_snake
<1>6. end' = (OnBorder(body[1]) \/ \E i \in Compared : body[i] = body[1])
  BY DEF update_snake
<1>7. /\ snake[1] \in Inside
      /\ IsInjective(snake) \/ snake_length > ByteValues
  BY DEF Inv, AliveUntilItHits
<1>8. body[1] # Unset /\ (~OnBorder(body[1]) => body[1] \in Inside)
  BY <1>1, <1>7, HeadStep
<1>9. \A i \in 1 .. Len(body) : body[i] # Unset
  <2>1. \A i \in 2 .. Len(snake) : snake[i - 1] # Unset
    BY <1>1 DEF Inv, SnakeInv
  <2> QED BY <1>1, <1>8, <2>1
<1>10. /\ snake_length \in Nat /\ snake_length >= 3 /\ snake_length = Len(body)
  BY <1>1 DEF snake_length
<1>11. ASSUME snake_length <= ByteValues, ~end'
       PROVE  IsInjective(body)
  <2>1. \A i \in Compared : body[i] # body[1]
    BY <1>6, <1>11, Zenon
  <2>2. IsInjective(snake)
    BY <1>7, <1>10, <1>11
  <2> QED BY <1>11, <2>1, <2>2, StaysInjective DEF Inv
<1> HIDE DEF body, Segments
<1>12. /\ snake' \in Seq(Segments) /\ Len(snake') \in {Len(snake), Len(snake) + 1}
       /\ \A i \in 1 .. Len(snake) : snake'[i] = body[i]
  <2>1. CASE snake' = body
    BY <1>1, <2>1
  <2>2. CASE snake' = Append(body, Unset)
    BY <1>1, <1>2, <2>2
  <2> QED BY <1>3, <2>1, <2>2
<1>13. snake'[1] = body[1] /\ snake'[2] = snake[1]
  BY <1>1, <1>12
<1>14. snake_capacity' \in Nat /\ snake_length' < snake_capacity'
  BY <1>12 DEF Inv, TypeOK, SnakeInv, grow_capacity, MustGrow, snake_length
<1>15. SnakeInv'
  <2>1. \A i \in 1 .. Len(snake') - 1 : snake'[i] # Unset
    BY <1>1, <1>9, <1>12
  <2>2. prev' # NoKey
    BY <1>5 DEF Keys, NoKey
  <2>3. snake'[1] = Ahead(snake'[2], prev')
    BY <1>1, <1>5, <1>13
  <2> QED BY <1>1, <1>12, <1>14, <2>1, <2>2, <2>3 DEF SnakeInv, Ahead
<1>16. AliveUntilItHits'
  <2>1. CASE end'
    <3>1. CASE OnBorder(body[1])
      BY <1>13, <2>1, <3>1 DEF AliveUntilItHits, OnBorder
    <3>2. CASE \E i \in Compared : body[i] = body[1]
      <4>1. PICK i \in 2 .. Len(snake) : body[i] = body[1]
        BY <1>10, <3>2, ComparedAreSegments DEF snake_length
      <4>2. snake'[i] = snake'[1] /\ i \in 2 .. Len(snake')
        BY <1>1, <1>12, <1>13, <4>1
      <4> QED BY <2>1, <4>2 DEF AliveUntilItHits, snake_length
    <3> QED BY <1>6, <2>1, <3>1, <3>2
  <2>2. CASE ~end'
    <3>1. snake'[1] \in Inside
      BY <1>6, <1>8, <1>13, <2>2
    <3>2. ASSUME snake_length' <= ByteValues PROVE IsInjective(snake')
      <4>1. snake_length <= ByteValues
        BY <1>10, <1>12, <3>2 DEF snake_length
      <4>2. IsInjective(body)
        BY <1>11, <2>2, <4>1
      <4> QED BY <1>1, <1>3, <1>9, <4>2, GrowsInjective
    <3>3. snake_length' \in Nat
      BY <1>12 DEF snake_length
    <3>4. IsInjective(snake)' \/ snake_length' > ByteValues
      BY <3>2, <3>3 DEF IsInjective
    <3> QED BY <2>2, <3>1, <3>4 DEF AliveUntilItHits, Inside
  <2> QED BY <1>4, <2>1, <2>2
<1> QED BY <1>1, <1>4, <1>5, <1>13, <1>14, <1>15, <1>16 DEF body

------------------------------------------------------------------------------
(* The game *)

LEMMA InitHolds == Init => Inv
<1> SUFFICES ASSUME Init PROVE Inv
  OBVIOUS
<1> DEFINE middle == Height \div 2
<1>1. middle \in 1 .. Height - 1
  OBVIOUS
<1>2. /\ snake = Start
      /\ snake \in Seq(Segments) /\ Len(snake) = InitLength /\ InitLength >= 3
      /\ \A i \in 1 .. InitLength : snake[i] = <<InitLength - i, middle>>
  BY <1>1, IsASeq DEF Init, Start, Segments
<1>3. pit_accum \in 0 .. Span - 1 /\ last_counter \in 0 .. Span - 1
  BY DEF Init, PitInit, pit_diff
<1>4. TypeOK
  <2>1. snake_length < snake_capacity
    BY <1>2 DEF Init, snake_length
  <2>2. apple \in Places
    BY DEF Init, FreePlaces
  <2>3. move \in Keys /\ prev \in Keys \cup {NoKey}
    BY DEF Init, Keys
  <2>4. until \in 1 .. tick
    BY DEF Init
  <2>5. end \in BOOLEAN /\ playing \in BOOLEAN /\ low \in BOOLEAN
    BY Zenon DEF Init
  <2> QED BY <1>3, <2>1, <2>2, <2>3, <2>4, <2>5 DEF TypeOK
<1>5. KeepsTime
  BY <1>3 DEF KeepsTime, Init
<1> HIDE DEF middle
<1>6. SnakeInv
  <2>1. ASSUME NEW i \in 1 .. Len(snake) - 1
        PROVE  snake[i] # Unset
    <3>1. i \in 1 .. InitLength /\ InitLength - i # -1
      BY <1>2
    <3>2. snake[i] = <<InitLength - i, middle>>
      BY <1>2, <3>1
    <3> QED BY <3>1, <3>2 DEF Unset
  <2>2. prev = NoKey /\ snake_capacity \in Nat
    BY DEF Init
  <2> QED BY <1>2, <2>1, <2>2 DEF SnakeInv
<1>7. AliveUntilItHits
  <2>1. snake[1] \in Inside
    <3>1. InitLength - 1 \in 1 .. Width - 1
      OBVIOUS
    <3>2. snake[1] = <<InitLength - 1, middle>>
      BY <1>2
    <3> QED BY <1>1, <3>1, <3>2 DEF Inside
  <2>2. IsInjective(snake)
    <3>1. DOMAIN snake = 1 .. InitLength
      BY <1>2
    <3> QED BY <1>2, <3>1 DEF IsInjective
  <2>3. ~end
    BY DEF Init
  <2> QED BY <2>1, <2>2, <2>3 DEF AliveUntilItHits
<1> QED BY <1>4, <1>5, <1>6, <1>7 DEF Inv

\* Nothing but the clock and the array's size changes in what is said of the snake.
LEMMA SameSnake ==
  ASSUME Inv, UNCHANGED <<low, snake, apple, prev, end, playing>>, snake_capacity' \in Nat
  PROVE  SnakeInv' /\ AliveUntilItHits' /\ apple' \in Places'
BY DEF Inv, TypeOK, SnakeInv, AliveUntilItHits, Places, Rows, Start, Ahead, Inside,
       OnBorder, snake_length, IsInjective

LEMMA NextKeeps == Inv /\ [Next]_vars => Inv'
<1> SUFFICES ASSUME Inv, [Next]_vars PROVE Inv'
  OBVIOUS
<1>1. ASSUME NEW key \in Keys, NEW gap \in Gaps, Turn(key, gap)
      PROVE  Inv'
  <2>1. /\ last_counter' \in 0 .. Span - 1 /\ pit_accum' \in 0 .. Span - 1
        /\ until' \in 1 .. tick /\ KeepsTime'
    BY <1>1, ClockStep DEF Turn
  <2>2. /\ grow_capacity /\ playing /\ ~end
        /\ UNCHANGED <<low, playing>> /\ playing \in BOOLEAN /\ low \in BOOLEAN
    BY <1>1 DEF Turn, Inv, TypeOK
  <2>3. CASE Due(gap)
    <3>1. Obeyed(key) \in Keys
      BY ObeyedIsNoTurn DEF Inv, TypeOK, Keys
    <3>2. update_snake(Obeyed(key))
      BY <1>1, <2>3 DEF Turn
    <3>3. /\ SnakeInv' /\ snake_length' < snake_capacity' /\ AliveUntilItHits'
          /\ apple' \in Places' /\ move' \in Keys /\ prev' \in Keys /\ end' \in BOOLEAN
      BY <2>2, <3>1, <3>2, UpdateStep
    <3> QED BY <2>1, <2>2, <3>3 DEF Inv, TypeOK, Keys
  <2>4. CASE ~Due(gap)
    <3>1. move' = key /\ UNCHANGED <<snake, apple, prev, end>>
      BY <1>1, <2>4 DEF Turn
    <3>2. snake_capacity' \in Nat /\ snake_length' < snake_capacity'
      BY <2>2, <3>1 DEF Inv, TypeOK, SnakeInv, grow_capacity, MustGrow, snake_length
    <3>3. SnakeInv' /\ AliveUntilItHits' /\ apple' \in Places'
      BY <2>2, <3>1, <3>2, SameSnake
    <3> QED BY <2>1, <2>2, <3>1, <3>2, <3>3 DEF Inv, TypeOK, Keys
  <2> QED BY <2>3, <2>4
<1>2. CASE Over
  <2>1. /\ UNCHANGED <<low, snake, snake_capacity, apple, move, prev, clock>>
        /\ playing' = FALSE /\ end' = FALSE
    BY <1>2 DEF Over
  <2>2. TypeOK' /\ KeepsTime'
    BY <2>1 DEF Inv, TypeOK, KeepsTime, clock, snake_length, Places, Rows
  <2>3. SnakeInv'
    BY <2>1 DEF Inv, SnakeInv, Start, Ahead
  <2>4. AliveUntilItHits'
    BY <2>1 DEF AliveUntilItHits
  <2> QED BY <2>2, <2>3, <2>4 DEF Inv
<1>3. CASE UNCHANGED vars
  <2>1. SnakeInv' /\ AliveUntilItHits' /\ apple' \in Places'
    BY <1>3, SameSnake DEF vars, Inv, SnakeInv
  <2> QED BY <1>3, <2>1 DEF vars, Inv, TypeOK, KeepsTime, clock, snake_length
<1> QED BY <1>1, <1>2, <1>3 DEF Next

LEMMA Invariance == Spec => []Inv
BY InitHolds, NextKeeps, PTL DEF Spec

\* Whatever the lengths the snake starts with and the array is given, the array
\* grows before the segment that eating adds would lie behind its end.
THEOREM TypeCorrect == Spec => []TypeOK
<1>1. Inv => TypeOK
  BY DEF Inv
<1> QED BY <1>1, Invariance, PTL

\* The clock neither gains nor drifts, for any turn of the counter, any tick and
\* any counts between two readings, those longer than the counter's turn too.
THEOREM ClockKeepsTime == Spec => []KeepsTime
<1>1. Inv => KeepsTime
  BY DEF Inv
<1> QED BY <1>1, Invariance, PTL

\* The head goes back onto the segment behind it in the first update only, by the
\* key `a', and that ends the game; from the second on no keys take it there.
THEOREM NoTurnOnTheNeck == Spec => NeverIntoItsNeck
<1>1. ASSUME Inv, [Next]_vars
      PROVE  [snake' # snake /\ snake'[1] = snake[2]
                => prev = NoKey /\ move' = "a" /\ end']_vars
  <2> SUFFICES ASSUME Next, snake' # snake, snake'[1] = snake[2]
               PROVE  prev = NoKey /\ move' = "a" /\ end'
    BY <1>1
  <2>1. PICK key \in Keys, gap \in Gaps : Turn(key, gap)
    BY DEF Next, Over, Keys
  <2> DEFINE obeyed == Obeyed(key)
  <2>2. /\ update_snake(obeyed) /\ grow_capacity /\ playing /\ ~end
        /\ UNCHANGED <<low, playing>>
    BY <2>1 DEF Turn
  <2>3. obeyed \in Keys /\ (prev # NoKey => obeyed # Opposite[prev])
    BY <1>1, ObeyedIsNoTurn DEF Inv, TypeOK
  <2> HIDE DEF obeyed
  <2>4. snake'[1] = Ahead(snake[1], obeyed)
    BY <1>1, <2>2, <2>3, UpdateStep
  <2>5. prev = NoKey
    <3> SUFFICES ASSUME prev # NoKey PROVE FALSE
      OBVIOUS
    <3>1. prev \in Keys
      BY <1>1 DEF Inv, TypeOK
    <3>2. snake[1] = Ahead(snake[2], prev) /\ snake[2] \in Segments
      BY <1>1 DEF Inv, SnakeInv
    <3> QED BY <2>3, <2>4, <3>1, <3>2, NoWayBack
  <2> DEFINE middle == Height \div 2
  <2>6. /\ Len(snake) = InitLength /\ InitLength >= 3
        /\ snake[1] = <<InitLength - 1, middle>>
        /\ snake[2] = <<InitLength - 2, middle>>
        /\ middle \in Int
    BY <1>1, <2>5 DEF Inv, SnakeInv, Start
  <2> HIDE DEF middle
  <2>7. obeyed = "a"
    <3> DEFINE x == InitLength - 1
    <3>1. x \in Int /\ x - 1 = InitLength - 2
      BY <2>6
    <3>2. Ahead(<<x, middle>>, obeyed) = <<x - 1, middle>>
      BY <2>4, <2>6, <3>1
    <3> HIDE DEF x
    <3> QED BY <2>3, <2>6, <3>1, <3>2, LeftIsA
  <2>8. end'
    <3>1. Moved(obeyed)[1] = snake[2] /\ Moved(obeyed)[3] = snake[2]
      <4>1. /\ Moved(obeyed)[1] = Ahead(snake[1], obeyed)
            /\ \A i \in 2 .. Len(snake) : Moved(obeyed)[i] = snake[i - 1]
        BY <1>1, <2>3, MovedSnake DEF Inv
      <4>2. 3 \in 2 .. Len(snake) /\ 3 - 1 = 2
        BY <2>6
      <4> QED BY <2>4, <4>1, <4>2
    <3>2. 3 \in Compared
      BY <2>6, AllCompared DEF snake_length
    <3> QED BY <2>2, <3>1, <3>2 DEF update_snake
  <2> QED BY <2>2, <2>5, <2>7, <2>8 DEF update_snake
<1> QED BY <1>1, Invariance, PTL DEF Spec, NeverIntoItsNeck

\* The game goes on only while the head is off the borders and no two segments lie
\* on each other, for snakes of every length the u8 counts, and it ends on a border
\* or on a segment.
THEOREM DiesByHittingOnly == Spec => []AliveUntilItHits
<1>1. Inv => AliveUntilItHits
  BY DEF Inv
<1> QED BY <1>1, Invariance, PTL
=============================================================================
