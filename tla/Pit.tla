-------------------------------- MODULE Pit --------------------------------
(***************************************************************************)
(* The clock of drivers/src/pit.c: no timer interrupt, only a counter that *)
(* runs down and starts over, which tick_update reads whenever the game    *)
(* loop comes by.  Ticks are whole turns of the counter; only how many a   *)
(* call adds matters to its caller.                                        *)
(***************************************************************************)
EXTENDS Integers

CONSTANT Span  \* 65536, the turn of the counter

ASSUME PitAssumption == Span \in Nat \ {0}

VARIABLES last_counter, pit_accum

\* The timer: what the counter has come to after some counts more.
poll_pit(gap) == (last_counter + (Span - (gap % Span))) % Span

\* A defect the code does not have: a counter that started over is not told
\* from one that did not.
WithoutTurn(old, now) == IF now <= old THEN old - now ELSE now - old
pit_diff(old, now) == IF now <= old THEN old - now ELSE old + (Span - now)

Accumulated(now) == pit_accum + pit_diff(last_counter, now)
NewTicks(now) == Accumulated(now) \div Span

tick_update(now) ==
  /\ last_counter' = now
  /\ pit_accum' = Accumulated(now) % Span

\* The statics after a first call with the counter anywhere.
PitInit ==
  /\ last_counter \in 0 .. Span - 1
  /\ pit_accum = pit_diff(0, last_counter)
=============================================================================
