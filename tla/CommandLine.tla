---------------------------- MODULE CommandLine ----------------------------
(***************************************************************************)
(* The line editor in kmain's loop (kernel/src/kernel.c): a buffer that    *)
(* doubles before the line could fill it, '\b', and '\n', which terminates *)
(* the line in place and calls cmd_parse.  One action is one character     *)
(* that translate gave; the buffer's bytes beyond what was written hold    *)
(* whatever kmalloc's block held.                                          *)
(***************************************************************************)
EXTENDS Integers, Sequences

CONSTANTS InitCap,  \* 128
          MaxCap,   \* bound: the buffer's last size
          Chars,    \* printable characters, the space among them
          Space,
          NUL,
          Junk      \* a byte never written

ASSUME BufferAssumption ==
  /\ InitCap \in Nat /\ InitCap >= 2
  /\ NUL \notin Chars /\ Junk \notin Chars /\ NUL # Junk

VARIABLES comm_cap,
          comm_buff,      \* index -> byte
          comm_buff_cnt,
          command         \* the string cmd_parse was called with

vars == <<comm_cap, comm_buff, comm_buff_cnt, command>>

Init ==
  /\ comm_cap = InitCap
  /\ comm_buff = [i \in 0 .. InitCap - 1 |-> Junk]
  /\ comm_buff_cnt = 0
  /\ command = <<>>

\* A defect the code does not have: the buffer is left to fill up.
FullAtLast(cnt, cap) == cnt >= cap
MustGrow(cnt, cap) == cnt + 2 >= cap

\* A defect the code does not have: the line is not copied.
NotCopied == [i \in 0 .. 2 * comm_cap - 1 |-> Junk]
Grown ==
  [i \in 0 .. 2 * comm_cap - 1 |-> IF i < comm_cap THEN comm_buff[i] ELSE Junk]

Character(c) ==
  /\ IF MustGrow(comm_buff_cnt, comm_cap)
       THEN /\ 2 * comm_cap <= MaxCap
            /\ comm_cap' = 2 * comm_cap
            /\ comm_buff' = [Grown EXCEPT ![comm_buff_cnt] = c]
       ELSE /\ comm_buff' = [comm_buff EXCEPT ![comm_buff_cnt] = c]
            /\ UNCHANGED comm_cap
  /\ comm_buff_cnt' = comm_buff_cnt + 1
  /\ UNCHANGED command

\* The NUL goes after the character that is dropped.
Backspace ==
  /\ comm_buff_cnt > 0
  /\ comm_buff' = [comm_buff EXCEPT ![comm_buff_cnt] = NUL]
  /\ comm_buff_cnt' = comm_buff_cnt - 1
  /\ UNCHANGED <<comm_cap, command>>

\* The string that starts at a buffer's first byte: it ends before the first NUL.
IsString(buff, str) ==
  /\ \A i \in 1 .. Len(str) : buff[i - 1] = str[i] /\ str[i] # NUL
  /\ Len(str) \in DOMAIN buff /\ buff[Len(str)] = NUL

\* cmd_parse replaces the first space by a NUL, in the same buffer.
Split(buff, cnt) ==
  [i \in DOMAIN buff |->
     IF i < cnt /\ buff[i] = Space /\ (\A j \in 0 .. i - 1 : buff[j] # Space)
       THEN NUL ELSE buff[i]]

\* A defect the code does not have: the count is not reset.
KeepsCount(cnt) == cnt
Reset(cnt) == 0

Enter ==
  /\ comm_buff_cnt > 0
  /\ LET ended == [comm_buff EXCEPT ![comm_buff_cnt] = NUL]
     IN /\ \E n \in 0 .. comm_cap - 1 :
             /\ command' = [i \in 1 .. n |-> ended[i - 1]]
             /\ IsString(ended, command')
        /\ comm_buff' = Split(ended, comm_buff_cnt)
  /\ comm_buff_cnt' = Reset(comm_buff_cnt)
  /\ UNCHANGED comm_cap

Next == (\E c \in Chars : Character(c)) \/ Backspace \/ Enter

Spec == Init /\ [][Next]_vars

------------------------------------------------------------------------------
(* Properties *)

TypeOK ==
  /\ comm_cap \in Nat
  /\ comm_buff \in [0 .. comm_cap - 1 -> Chars \cup {NUL, Junk}]
  /\ comm_buff_cnt \in Nat
  /\ command \in Seq(Chars)

\* The byte at comm_buff_cnt, where every branch of the loop stores next, is in
\* the buffer: neither the terminator of '\n' nor the NUL of '\b' lands after it.
StoresInside == comm_buff_cnt < comm_cap

\* cmd_parse is called with what was typed and not erased, however often the
\* buffer moved meanwhile and whatever earlier lines left in it.
AsLine == INSTANCE Line WITH
  line <- [i \in 1 .. comm_buff_cnt |-> comm_buff[i - 1]]
ImplementsLine == AsLine!Spec
==============================================================================
