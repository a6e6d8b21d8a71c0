------------------------------ MODULE KeyQueue ------------------------------
(***************************************************************************)
(* What kb_handler and kb_read promise together: a first-in first-out      *)
(* queue of key codes with a fixed capacity.  A key that arrives while the *)
(* queue is full is dropped; a key that was accepted is read once, in the  *)
(* order of arrival, with the code it had when it arrived.                 *)
(***************************************************************************)
EXTENDS Naturals, Sequences

CONSTANTS Keys,      \* key codes
          Capacity,
          NoKey      \* what kb_read returns when there is nothing to read

VARIABLES queue,  \* accepted keys, oldest first
          key     \* the key the reader has taken

vars == <<queue, key>>

Init == queue = <<>> /\ key = NoKey

Press(k) ==
  /\ Len(queue) < Capacity
  /\ queue' = Append(queue, k)
  /\ UNCHANGED key

Take ==
  /\ queue # <<>>
  /\ key' = Head(queue)
  /\ queue' = Tail(queue)

Forget ==
  /\ key' = NoKey
  /\ UNCHANGED queue

Next == (\E k \in Keys : Press(k)) \/ Take \/ Forget

Spec == Init /\ [][Next]_vars
==============================================================================
