------------------------------ MODULE Console ------------------------------
(***************************************************************************)
(* The text console of libk/src/print.c: a cursor, and the framebuffer as  *)
(* far as it shows text.  Down, the framebuffer is counted in pixels;      *)
(* across, in glyphs.  What is seen at a place is the row of a character's *)
(* glyph that was drawn there last.  The screen's height need not be a     *)
(* multiple of a glyph's, nor a row of the framebuffer as wide as the      *)
(* screen.                                                                 *)
(***************************************************************************)
EXTENDS Integers, Sequences

CONSTANTS Chars,       \* characters that have a glyph of their own
          Blank,       \* the space, and what a cleared place shows
          Cols,        \* vbe->width, in glyphs
          Height,      \* vbe->height, in pixels
          Pitch,       \* vbe->pitch, in glyphs
          CharHeight   \* char_height, 16

ASSUME ScreenAssumption ==
  /\ Cols \in Nat \ {0} /\ CharHeight \in Nat \ {0}
  /\ Height \in Nat /\ Height >= CharHeight
  /\ Pitch \in Nat /\ Pitch >= Cols
  /\ Blank \notin Chars

VARIABLES pos_x, pos_y, framebuffer

vars == <<pos_x, pos_y, framebuffer>>

max_rows == Height \div CharHeight
PixelRows == 0 .. Height - 1
Columns == 0 .. Cols - 1

\* The given row of a character's glyph; all rows of the blank one look alike.
Glyph(c, row) == IF c = Blank THEN <<Blank, 0>> ELSE <<c, row>>
Dark == Glyph(Blank, 0)

Init ==
  /\ pos_x = 0
  /\ pos_y = 0
  /\ framebuffer = [y \in PixelRows |-> [k \in Columns |-> Dark]]

\* The framebuffer with the glyph of c at the given place.
print_char(c, x, y) ==
  [p \in PixelRows |->
     IF p \div CharHeight = y
       THEN [framebuffer[p] EXCEPT ![x] = Glyph(c, p % CharHeight)]
       ELSE framebuffer[p]]

\* A defect the code does not have: the last line stays where it was, too.
KeepsLastLine(pixels) ==
  LET lines_to_copy == max_rows - 1
  IN  [p \in PixelRows |->
         IF p < lines_to_copy * CharHeight THEN pixels[p + CharHeight] ELSE pixels[p]]
scroll_up(pixels) ==
  LET lines_to_copy == max_rows - 1
  IN  [p \in PixelRows |->
         IF p < lines_to_copy * CharHeight THEN pixels[p + CharHeight]
         ELSE [k \in Columns |-> Dark]]

Wraps(x) == x >= Cols

\* The end of printc: the cursor wraps, then the screen scrolls.
Settle(pixels, x, y) ==
  LET down == IF Wraps(x) THEN y + 1 ELSE y
  IN  /\ pos_x' = IF Wraps(x) THEN 0 ELSE x
      /\ IF down >= max_rows
           THEN pos_y' = max_rows - 1 /\ framebuffer' = scroll_up(pixels)
           ELSE pos_y' = down /\ framebuffer' = pixels

Printable(c) == Settle(print_char(c, pos_x, pos_y), pos_x + 1, pos_y)
LineFeed == Settle(framebuffer, 0, pos_y + 1)
CarriageReturn == Settle(framebuffer, 0, pos_y)
Tabulator == Settle(framebuffer, pos_x + 4 - (pos_x % 4), pos_y)

\* At the start of a line nothing is erased.
Backspace ==
  IF pos_x > 0 THEN Settle(print_char(Blank, pos_x - 1, pos_y), pos_x - 1, pos_y)
               ELSE Settle(framebuffer, pos_x, pos_y)

printc ==
  \/ \E c \in Chars \cup {Blank} : Printable(c)
  \/ LineFeed \/ CarriageReturn \/ Tabulator \/ Backspace

\* The first height * width pixels of the framebuffer, whatever its pitch.
clear_screen ==
  /\ framebuffer' = [p \in PixelRows |-> [k \in Columns |->
       IF p * Pitch + k < Height * Cols THEN Dark ELSE framebuffer[p][k]]]
  /\ pos_x' = 0
  /\ pos_y' = 0

Next == printc \/ clear_screen

Spec == Init /\ [][Next]_vars

------------------------------------------------------------------------------
(* Properties *)

\* The character at a place, when all of its glyph and only that is there.
CharAt(line, k) ==
  LET c == framebuffer[line * CharHeight][k][1]
  IN  IF \A row \in 0 .. CharHeight - 1 :
           framebuffer[line * CharHeight + row][k] = Glyph(c, row)
        THEN c ELSE "torn"
Shown == [r \in 1 .. max_rows |-> [k \in 1 .. Cols |-> CharAt(r - 1, k - 1)]]

Place == [line |-> pos_y + 1, column |-> pos_x + 1]
AsTerminal == INSTANCE Terminal WITH
  Chars <- Chars \cup {Blank}, Rows <- max_rows, lines <- Shown, at <- Place

\* What clear_screen leaves: where rows are longer than the screen is wide, the
\* last of them as they were, and a character there perhaps cut in two.
LeavesLastRows ==
  /\ clear_screen /\ Pitch > Cols
  /\ \A r \in 1 .. max_rows :
       r * CharHeight * Pitch <= Height * Cols => Shown'[r] = AsTerminal!BlankLine

\* Pixels, wrap and scroll together are a terminal of whole characters, whose
\* cursor never leaves the screen, but for that.
ImplementsTerminal ==
  /\ AsTerminal!Init
  /\ [][AsTerminal!Next \/ LeavesLastRows]_<<Shown, Place>>
==============================================================================
