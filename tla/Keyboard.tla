------------------------------ MODULE Keyboard ------------------------------
(***************************************************************************)
(* The keyboard driver: kb_handler runs in the interrupt and fills a ring, *)
(* kmain's loop (and snake's) empties it with kb_read and translates the   *)
(* key.  drivers/src/keyboard.c, kernel/src/layout.c.                      *)
(*                                                                         *)
(* The gate of vector 33 is an interrupt gate (idt.c, 0x8E), so a handler  *)
(* runs to its end without being interrupted, between any two loads or     *)
(* stores of the loop.  kb_read is therefore cut at its memory accesses.   *)
(* `buff.buff[buff.tail++]' leaves the compiler the order of the load of   *)
(* the slot and the store of the tail, the ring not being volatile: both   *)
(* orders are modelled, gcc -O2 takes the store first.                     *)
(***************************************************************************)
EXTENDS Integers, Sequences

CONSTANTS N,     \* slots of the ring, 256: head and tail are u8 and wrap there
          Keys,  \* key codes of keys other than the shifts and caps lock
          NoKey  \* 0x00

ASSUME RingAssumption ==
  /\ N \in Nat /\ N >= 2
  /\ NoKey \notin Keys

Slots == 0 .. N - 1

VARIABLES buff, head, tail,  \* the Ring
          shift, caps,       \* layout.c: set by the handler, read by translate
          pc,                \* where the loop is in kb_read and translate
          slot,              \* the slot kb_read is taking the key from
          key,               \* kb_read's result, once the slot is loaded
          seen,              \* translate's load of shift
          asked              \* history: what shift # caps was at any moment since

ring == <<buff, head, tail>>
mods == <<shift, caps>>
vars == <<buff, head, tail, shift, caps, pc, slot, key, seen, asked>>

\* A defect the code does not have: the index is wider than a u8.
NeverWraps(i) == i + 1
\* The wrap of a u8.
Succ(i) == IF i = N - 1 THEN 0 ELSE i + 1

Init ==
  /\ buff = [i \in Slots |-> NoKey]
  /\ head = 0
  /\ tail = 0
  /\ shift = FALSE
  /\ caps = FALSE
  /\ pc = "poll"
  /\ slot = 0
  /\ key = NoKey
  /\ seen = FALSE
  /\ asked = {}

------------------------------------------------------------------------------
(* kb_handler, the interrupt *)

\* A defect the code does not have: filling the ring to its last slot.
NeverFull == TRUE
HasRoom == Succ(head) # tail

Asks == asked' = IF pc = "caps" THEN asked \cup {shift' # caps'} ELSE asked

\* to_keycode swallows the modifiers and every release.
ShiftEvent(down) ==
  /\ shift' = down
  /\ UNCHANGED <<ring, caps, pc, slot, key, seen>>
  /\ Asks

CapsPress ==
  /\ caps' = ~caps
  /\ UNCHANGED <<ring, shift, pc, slot, key, seen>>
  /\ Asks

KeyPress(k) ==
  /\ HasRoom
  /\ buff' = [buff EXCEPT ![head] = k]
  /\ head' = Succ(head)
  /\ UNCHANGED <<tail, mods, pc, slot, key, seen, asked>>

\* A key that finds the ring full, the release of a key or of caps lock: the
\* handler changes nothing, which is a step of [Next]_vars.
kb_handler ==
  \/ \E down \in BOOLEAN : ShiftEvent(down)
  \/ CapsPress
  \/ \E k \in Keys : KeyPress(k)

------------------------------------------------------------------------------
(* kb_read and translate, in the loop *)

ReadEmpty ==
  /\ pc = "poll"
  /\ tail = head
  /\ key' = NoKey
  /\ UNCHANGED <<ring, mods, pc, slot, seen, asked>>

ReadStart ==
  /\ pc = "poll"
  /\ tail # head
  /\ slot' = tail
  /\ key' = NoKey
  /\ pc' \in {"advance", "load"}
  /\ UNCHANGED <<ring, mods, seen, asked>>

\* Defects the code does not have: the tail jumps to the head, as if the ring
\* were drained by one read; the tail stays.
SkipToHead == head
StaysPut == slot
TailAfterRead == Succ(slot)

\* The tail is stored first, the slot loaded after it.
AdvanceFirst ==
  /\ pc = "advance"
  /\ tail' = TailAfterRead
  /\ pc' = "advanced"
  /\ UNCHANGED <<buff, head, mods, slot, key, seen, asked>>

LoadLast ==
  /\ pc = "advanced"
  /\ key' = buff[slot]
  /\ pc' = "translate"
  /\ UNCHANGED <<ring, mods, slot, seen, asked>>

\* The slot is loaded first, the tail stored after it.
LoadFirst ==
  /\ pc = "load"
  /\ key' = buff[slot]
  /\ pc' = "loaded"
  /\ UNCHANGED <<ring, mods, slot, seen, asked>>

AdvanceLast ==
  /\ pc = "loaded"
  /\ tail' = TailAfterRead
  /\ pc' = "translate"
  /\ UNCHANGED <<buff, head, mods, slot, key, seen, asked>>

\* A defect the code does not have: what was loaded for the last key is kept.
KeptLoad == seen
LoadedShift == shift
\* translate loads shift and then caps, an interrupt apart.
LoadShift ==
  /\ pc = "translate"
  /\ seen' = LoadedShift
  /\ asked' = {shift # caps}
  /\ pc' = "caps"
  /\ UNCHANGED <<ring, mods, slot, key>>

\* The character: the layout's plain table when both or neither of shift and
\* caps are set, its shifted table when one is.
Big == seen # caps

Deliver ==
  /\ pc = "caps"
  /\ pc' = "poll"
  /\ key' = NoKey
  /\ asked' = {}
  /\ UNCHANGED <<ring, mods, slot, seen>>

Loop ==
  \/ ReadEmpty \/ ReadStart
  \/ AdvanceFirst \/ LoadLast
  \/ LoadFirst \/ AdvanceLast
  \/ LoadShift \/ Deliver

Next == kb_handler \/ Loop

Spec == Init /\ [][Next]_vars

\* The loop polls without pause: the commands it runs between two keys return.
\* Nothing is assumed of the keyboard.
FairSpec == Spec /\ WF_vars(Loop)

------------------------------------------------------------------------------
(* Properties *)

TypeOK ==
  /\ buff \in [Slots -> Keys \cup {NoKey}]
  /\ head \in Slots /\ tail \in Slots /\ slot \in Slots
  /\ shift \in BOOLEAN /\ caps \in BOOLEAN /\ seen \in BOOLEAN
  /\ asked \subseteq BOOLEAN
  /\ pc \in {"poll", "advance", "advanced", "load", "loaded", "translate", "caps"}
  /\ key \in Keys \cup {NoKey}

\* How many slots from tail to head hold keys, and the slot of the i-th.
Count == IF head >= tail THEN head - tail ELSE N + head - tail
SlotOf(i) == IF tail + i - 1 < N THEN tail + i - 1 ELSE tail + i - 1 - N

Occupied(i) ==
  IF tail <= head THEN tail <= i /\ i < head ELSE tail <= i \/ i < head

\* While kb_read still has to load a slot whose index it has already given
\* back, the interrupt never stores into it: this is what the one slot the
\* ring never fills is for.
SlotIsNotReused ==
  [][pc = "advanced" => buff'[slot] = buff[slot]]_vars

\* A key that was accepted stays in its slot, and the slot counts as occupied,
\* until the reader takes it as the oldest.
AcceptedKeysStay ==
  [][\A i \in Slots : Occupied(i) =>
       buff'[i] = buff[i] /\ (i = tail \/ Occupied(i)')]_vars

\* The case a character gets is the one that shift and caps lock ask for together
\* at one moment of its translation, though the two are loaded an interrupt apart
\* and either may change in between, and never a mix that was never asked for.
CaseOfOneMoment == pc = "caps" => Big \in asked

\* The loop and the interrupt together are a queue of N - 1 keys.  A key is
\* taken when the loop stores the tail, or when it loads the slot, whichever
\* comes last or first in the order the compiler chose.
Queue ==
  LET first == IF pc = "loaded" THEN 2 ELSE 1
  IN  [i \in 1 .. Count + 1 - first |-> buff[SlotOf(i + first - 1)]]
Taken == IF pc = "advanced" THEN buff[slot] ELSE key
AsQueue == INSTANCE KeyQueue WITH
  queue <- Queue, key <- Taken, Capacity <- N - 1
ImplementsKeyQueue == AsQueue!Spec

\* Every key in the ring is read eventually, however fast keys keep arriving.
EveryKeyIsRead == \A i \in Slots : Occupied(i) ~> ~Occupied(i)
==============================================================================
