------------------------------ MODULE Terminal ------------------------------
(***************************************************************************)
(* What the callers of libk/src/print.c rely on: characters go one after   *)
(* the other onto lines of a fixed length, and when the screen is full its *)
(* first line goes off at the top.  Nothing is said of pixels.             *)
(***************************************************************************)
EXTENDS Integers, Sequences

CONSTANTS Chars, Blank, Cols, Rows

VARIABLES lines,  \* the lines on the screen, each a sequence of characters
          at      \* [line, column] of the next character, from 1

BlankLine == [k \in 1 .. Cols |-> Blank]

Init == lines = [r \in 1 .. Rows |-> BlankLine] /\ at = [line |-> 1, column |-> 1]

\* With the text shown, the next character goes to a place that may lie after
\* the end of the line, or below the last one.
GoOn(text, line, column) ==
  LET wraps == column > Cols
      next  == IF wraps THEN line + 1 ELSE line
      feeds == next > Rows
  IN  /\ lines' = IF feeds THEN Append(Tail(text), BlankLine) ELSE text
      /\ at' = [line   |-> IF feeds THEN Rows ELSE next,
                column |-> IF wraps THEN 1 ELSE column]

Put(c) == GoOn([lines EXCEPT ![at.line][at.column] = c], at.line, at.column + 1)

NewLine == GoOn(lines, at.line + 1, 1)

Return == GoOn(lines, at.line, 1)

\* To the next multiple of 4, counted from 0.
Tab == GoOn(lines, at.line, 4 * ((at.column - 1) \div 4) + 5)

Erase ==
  /\ at.column > 1
  /\ GoOn([lines EXCEPT ![at.line][at.column - 1] = Blank], at.line, at.column - 1)

Clear == lines' = [r \in 1 .. Rows |-> BlankLine] /\ at' = [line |-> 1, column |-> 1]

Next ==
  \/ \E c \in Chars : Put(c)
  \/ NewLine \/ Return \/ Tab \/ Erase \/ Clear

Spec == Init /\ [][Next]_<<lines, at>>
==============================================================================
