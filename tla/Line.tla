-------------------------------- MODULE Line --------------------------------
(***************************************************************************)
(* What the prompt promises: a line of any length that is typed, corrected *)
(* from its end, and given to the shell as it stands when Enter is hit.    *)
(***************************************************************************)
EXTENDS Sequences

CONSTANT Chars

VARIABLES line,    \* typed since the last Enter
          command  \* what the shell was given last

Init == line = <<>> /\ command = <<>>

Type(c) == line' = Append(line, c) /\ UNCHANGED command

Erase ==
  /\ \E c \in Chars : line = Append(line', c)
  /\ UNCHANGED command

Enter ==
  /\ line # <<>>
  /\ command' = line
  /\ line' = <<>>

Next == (\E c \in Chars : Type(c)) \/ Erase \/ Enter

Spec == Init /\ [][Next]_<<line, command>>
==============================================================================
