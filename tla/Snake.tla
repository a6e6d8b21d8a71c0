------------------------------- MODULE Snake -------------------------------
(***************************************************************************)
(* The game of kernel/src/shell/snake.c, from its start to its end.  One   *)
(* turn of cmd_snake's loop reads the clock, then a key, if there is one,  *)
(* and updates the snake if the tick has come; between two updates there   *)
(* may be many keys.                                                       *)
(***************************************************************************)
EXTENDS Pit, Integers, Sequences, SequencesExt

CONSTANTS Width, Height,  \* right_border - left_border and so on, size[0] and size[1]
          InitLength,     \* 8
          InitCapacity,   \* 128
          WinLength,      \* (size[0] - 2) * (size[1] - 2)
          ByteValues,     \* 256: the collision loop counts in a u8
          PlaceValues,    \* 256 too: so do the borders and the places
          tick,           \* 1000, from one update to the next
          Gaps            \* counts of the timer that one turn of the loop takes

ASSUME SnakeAssumption ==
  /\ Width \in Nat /\ Height \in Nat /\ Height >= 2
  /\ InitLength \in Nat /\ InitLength >= 3 /\ InitLength < Width
  /\ InitCapacity \in Nat /\ InitLength + 2 < InitCapacity
  /\ ByteValues \in Nat /\ InitLength < ByteValues
  /\ PlaceValues \in Nat /\ PlaceValues > Height
  /\ tick \in Nat \ {0} /\ Gaps \subseteq Nat

VARIABLES low,             \* the screen is lower than the map: bottom_border wrapped
          snake,           \* the array's places, head first, as far as in use
          snake_capacity,
          apple,
          move, prev,      \* the key pressed last, and the one last obeyed
          until,           \* next - ticks: how long to the next update
          end,             \* the snake has hit something
          playing,         \* cmd_snake has not returned
          time             \* counts that went by, modulo those of one tick; of
                           \* a turn longer than the counter's, what is over

clock == <<last_counter, pit_accum, until, time>>
vars == <<low, snake, snake_capacity, apple, move, prev, end, playing, clock>>

snake_length == Len(snake)

\* Places from the left and bottom border, which is the upper one on the screen,
\* modulo PlaceValues: where the border itself is does not matter.
Inside == (1 .. Width - 1) \X (1 .. Height - 1)
OnBorder(at) == at[1] \in {0, Width} \/ at[2] \in {0, Height}

\* Where a segment is that was counted before it was ever stored.
Unset == <<-1, -1>>

Keys == {"w", "a", "s", "d"}
NoKey == "space"  \* ' ', what prev is before anything was obeyed

Ahead(at, key) ==
  CASE key = "w" -> <<at[1], at[2] - 1>>
    [] key = "a" -> <<at[1] - 1, at[2]>>
    [] key = "s" -> <<at[1], at[2] + 1>>
    [] key = "d" -> <<at[1] + 1, at[2]>>

Opposite == [k \in Keys |->
  CASE k = "w" -> "s" [] k = "s" -> "w" [] k = "a" -> "d" [] k = "d" -> "a"]

\* The rows an apple may get, random() % (top_border - bottom_border - 1) + 1:
\* from a bottom_border that wrapped the divisor is Height - PlaceValues - 1, and
\* the remainder of dividing by a negative number is not negative.
Rows == 1 .. IF low THEN PlaceValues + 1 - Height ELSE Height - 1

Places == (1 .. Width - 1) \X Rows

\* set_apple draws places until one is free.
FreePlaces(segments) == Places \ ToSet(segments)

\* init_snake: heading right, along the middle.
Start == [i \in 1 .. InitLength |-> <<InitLength - i, Height \div 2>>]

Init ==
  /\ low \in BOOLEAN
  /\ PitInit
  /\ until = tick
  /\ time = pit_accum
  /\ snake = Start
  /\ snake_capacity = InitCapacity
  /\ apple \in FreePlaces(snake)
  /\ move = "d"
  /\ prev = NoKey
  /\ end = FALSE
  /\ playing = TRUE

\* A defect the code does not have: the array may fill up.
FullAtLast == snake_length > snake_capacity
MustGrow == snake_length + 2 >= snake_capacity

grow_capacity == snake_capacity' = IF MustGrow THEN 2 * snake_capacity ELSE snake_capacity

\* A defect the code does not have: the turn is checked against the last key.
AgainstLastKey(key) == key
\* Turning back on the snake's neck is not obeyed, whatever was pressed between.
Obeyed(key) == IF prev # NoKey /\ key = Opposite[prev] THEN prev ELSE key

Moved(key) == <<Ahead(snake[1], key)>> \o Front(snake)

\* A defect the code does not have: the segment behind the head is all that counts.
NeckOnly == {2}
\* The segments that are compared with the head: from the last one, in a u8.
Compared == 2 .. ((snake_length - 1) % ByteValues) + 1

update_snake(key) ==
  LET body == Moved(key)
      eats == body[1] = apple
  IN  /\ move' = key
      /\ prev' = key
      /\ end' = (OnBorder(body[1]) \/ \E i \in Compared : body[i] = body[1])
      /\ apple' \in IF eats THEN FreePlaces(body) ELSE {apple}
      /\ snake' = IF eats THEN Append(body, Unset) ELSE body

\* The loop's reading of the clock, that long after the last one: the next
\* update is due from the last one's time on, not from when it was made.
Left(gap) == until - NewTicks(poll_pit(gap))
Due(gap) == Left(gap) <= 0
ReadClock(gap) ==
  /\ tick_update(poll_pit(gap))
  /\ until' = IF Due(gap) THEN Left(gap) + tick ELSE Left(gap)
  /\ time' = (time + (gap % Span)) % (tick * Span)

\* One turn of the loop: the checks, a key, an update if it is time.  A turn with
\* no key is one in which the last key comes again.
Turn(key, gap) ==
  /\ playing /\ ~end /\ snake_length # WinLength
  /\ ReadClock(gap)
  /\ grow_capacity
  /\ IF Due(gap) THEN update_snake(Obeyed(key))
                 ELSE move' = key /\ UNCHANGED <<snake, apple, prev, end>>
  /\ UNCHANGED <<low, playing>>

Over ==
  /\ playing
  /\ end \/ snake_length = WinLength
  /\ playing' = FALSE
  /\ end' = FALSE
  /\ UNCHANGED <<low, snake, snake_capacity, apple, move, prev, clock>>

Next ==
  \/ \E key \in Keys, gap \in Gaps : Turn(key, gap)
  \/ Over

Spec == Init /\ [][Next]_vars

------------------------------------------------------------------------------
(* Properties *)

\* Every segment in use has its place in the array, the one that eating adds too.
TypeOK ==
  /\ low \in BOOLEAN
  /\ snake_length < snake_capacity
  /\ apple \in Places
  /\ move \in Keys /\ prev \in Keys \cup {NoKey}
  /\ end \in BOOLEAN /\ playing \in BOOLEAN
  /\ last_counter \in 0 .. Span - 1 /\ pit_accum \in 0 .. Span - 1
  /\ until \in 1 .. tick

\* The snake moves once in so many turns of the counter, wherever the counter is
\* when the loop comes by: the clock neither gains nor drifts, and all it ever
\* loses are turns that went by whole between two readings.
KeepsTime == time = (tick - until) * Span + pit_accum

\* However many keys were pressed since the last update, the head does not go
\* back onto the segment behind it.  In one update it may, the first, which comes
\* after nothing was obeyed: `a' turns the snake that starts to the right onto its
\* own neck, and the game is over.
NeverIntoItsNeck ==
  [][snake' # snake /\ snake'[1] = snake[2] => prev = NoKey /\ move' = "a" /\ end']_vars

\* The game goes on as long as the head is off the borders and no two segments
\* lie on each other, over any number of moves and apples, and it ends for no
\* other reason but winning.  A snake of more segments than the u8 counts may lie
\* across itself and live: only some of its segments are compared with the head.
AliveUntilItHits ==
  playing =>
    IF end
      THEN OnBorder(snake[1]) \/ \E i \in 2 .. snake_length : snake[i] = snake[1]
      ELSE /\ snake[1] \in Inside
           /\ IsInjective(snake) \/ snake_length > ByteValues
=============================================================================
