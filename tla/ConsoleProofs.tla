---------------------------- MODULE ConsoleProofs ----------------------------
(***************************************************************************)
(* The console is a terminal of whole characters, for every screen.        *)
(***************************************************************************)
EXTENDS Console, Induction

USE ScreenAssumption

Pixels == (Chars \cup {Blank}) \X Nat
Frames == [PixelRows -> [Columns -> Pixels]]

\* The cursor is on the screen: what every glyph's place rests on.
Inv ==
  /\ pos_x \in 0 .. Cols - 1
  /\ pos_y \in 0 .. max_rows - 1
  /\ framebuffer \in Frames

\* What a framebuffer shows, of which Shown is what the one of the screen does.
Seen(pixels, line, k) ==
  IF \A row \in 0 .. CharHeight - 1 :
       pixels[line * CharHeight + row][k] = Glyph(pixels[line * CharHeight][k][1], row)
    THEN pixels[line * CharHeight][k][1] ELSE "torn"
Text(pixels) == [r \in 1 .. max_rows |-> [k \in 1 .. Cols |-> Seen(pixels, r - 1, k - 1)]]

LEMMA ShownIsText == Shown = Text(framebuffer) /\ Shown' = Text(framebuffer')
BY DEF Shown, Text, CharAt, Seen

------------------------------------------------------------------------------
(* Lines and rows of pixels *)

LEMMA Lines ==
  /\ max_rows \in Nat \ {0}
  /\ max_rows * CharHeight <= Height
<1>1. /\ max_rows \in Nat /\ Height % CharHeight \in Nat
      /\ Height = CharHeight * max_rows + (Height % CharHeight)
  BY Division DEF max_rows
<1>2. max_rows # 0
  BY QuotientBelow DEF max_rows
<1>3. CharHeight * max_rows = max_rows * CharHeight
  BY <1>1
<1>4. CharHeight * max_rows \in Nat
  BY <1>1
<1> QED BY <1>1, <1>2, <1>3, <1>4

\* The rows of a line's glyphs are on the screen, and belong to that line.
LEMMA RowOfLine ==
  ASSUME NEW line \in 0 .. max_rows - 1, NEW row \in 0 .. CharHeight - 1
  PROVE  /\ line * CharHeight + row \in PixelRows
         /\ (line * CharHeight + row) \div CharHeight = line
         /\ (line * CharHeight + row) % CharHeight = row
<1>1. max_rows \in Nat /\ max_rows * CharHeight <= Height
  BY Lines
<1>2. line \in Nat /\ line + 1 <= max_rows
  BY <1>1
<1>3. (line + 1) * CharHeight <= max_rows * CharHeight
  BY <1>1, <1>2
<1>4. (line + 1) * CharHeight = line * CharHeight + CharHeight /\ line * CharHeight \in Nat
  BY <1>2
<1>5. max_rows * CharHeight \in Nat
  BY <1>1
<1> DEFINE top == line * CharHeight  most == max_rows * CharHeight
<1>6. top + row \in 0 .. Height - 1
  <2> HIDE DEF top, most, max_rows
  <2>1. top \in Nat /\ most \in Nat /\ most <= Height /\ top + CharHeight <= most
    BY <1>1, <1>3, <1>4, <1>5 DEF top, most
  <2> QED BY <2>1
<1> QED BY <1>2, <1>6, FromParts DEF PixelRows

\* Characters are known by the row of their glyph at the top.
LEMMA GlyphOf ==
  ASSUME NEW c \in Chars \cup {Blank}, NEW row \in Nat
  PROVE  Glyph(c, row) \in Pixels /\ Glyph(c, row)[1] = c
BY DEF Glyph, Pixels

LEMMA DarkIsBlank == \A row : Dark = Glyph(Blank, row)
BY DEF Dark, Glyph

LEMMA TopRow == \A line \in Nat :
  0 \in 0 .. CharHeight - 1 /\ line * CharHeight + 0 = line * CharHeight
OBVIOUS

\* A place all of whose rows are those of one character shows it.
LEMMA Whole ==
  ASSUME NEW pixels, NEW line, NEW k, NEW c \in Chars \cup {Blank},
         \A row \in 0 .. CharHeight - 1 : pixels[line * CharHeight + row][k] = Glyph(c, row),
         line \in Nat
  PROVE  Seen(pixels, line, k) = c
<1>1. pixels[line * CharHeight][k] = Glyph(c, 0)
  BY TopRow
<1>2. pixels[line * CharHeight][k][1] = c
  BY <1>1, GlyphOf
<1> QED BY <1>2 DEF Seen

------------------------------------------------------------------------------
(* What the operations do to the text *)

\* A glyph that is drawn replaces one character.
LEMMA PrintText ==
  ASSUME Inv, NEW c \in Chars \cup {Blank}, NEW x \in Columns, NEW y \in 0 .. max_rows - 1
  PROVE  /\ print_char(c, x, y) \in Frames
         /\ Text(print_char(c, x, y)) = [Text(framebuffer) EXCEPT ![y + 1][x + 1] = c]
<1> DEFINE pixels == print_char(c, x, y)
<1>1. ASSUME NEW p \in PixelRows
      PROVE  p % CharHeight \in 0 .. CharHeight - 1 /\ Glyph(c, p % CharHeight) \in Pixels
  <2>1. p \in Nat
    BY DEF PixelRows
  <2>2. p % CharHeight \in 0 .. CharHeight - 1
    BY <2>1, Division
  <2> QED BY <2>2, GlyphOf
<1>2. ASSUME NEW p \in PixelRows
      PROVE  pixels[p] \in [Columns -> Pixels]
  BY <1>1 DEF Inv, Frames, print_char
<1>3. pixels \in Frames
  BY <1>2 DEF Frames, print_char
<1>4. ASSUME NEW line \in 0 .. max_rows - 1, NEW k \in Columns
      PROVE  Seen(pixels, line, k)
               = IF line = y /\ k = x THEN c ELSE Seen(framebuffer, line, k)
  <2>1. line \in Nat
    BY Lines
  <2>2. ASSUME NEW row \in 0 .. CharHeight - 1
        PROVE  pixels[line * CharHeight + row][k]
                 = IF line = y /\ k = x THEN Glyph(c, row)
                   ELSE framebuffer[line * CharHeight + row][k]
    <3> DEFINE p == line * CharHeight + row
    <3>1. p \in PixelRows /\ p \div CharHeight = line /\ p % CharHeight = row
      BY RowOfLine
    <3>2. framebuffer[p] \in [Columns -> Pixels]
      BY <3>1 DEF Inv, Frames
    <3> HIDE DEF p
    <3>3. pixels[p][k] = IF line = y /\ k = x THEN Glyph(c, row) ELSE framebuffer[p][k]
      BY <3>1, <3>2 DEF print_char
    <3> QED BY <3>3 DEF p
  <2> HIDE DEF pixels
  <2>3. CASE line = y /\ k = x
    BY <2>1, <2>2, <2>3, Whole
  <2>4. CASE ~(line = y /\ k = x)
    <3>1. \A row \in 0 .. CharHeight - 1 :
            pixels[line * CharHeight + row][k] = framebuffer[line * CharHeight + row][k]
      BY <2>2, <2>4
    <3>2. pixels[line * CharHeight][k] = framebuffer[line * CharHeight][k]
      BY <2>1, <3>1, TopRow
    <3> QED BY <2>4, <3>1, <3>2 DEF Seen
  <2> QED BY <2>3, <2>4
<1>5. Text(pixels) = [Text(framebuffer) EXCEPT ![y + 1][x + 1] = c]
  <2> HIDE DEF pixels
  <2>1. max_rows \in Nat /\ y + 1 \in 1 .. max_rows /\ x + 1 \in 1 .. Cols
    BY Lines DEF Columns
  <2>2. ASSUME NEW r \in 1 .. max_rows, NEW k \in 1 .. Cols
        PROVE  Text(pixels)[r][k] = IF r = y + 1 /\ k = x + 1 THEN c ELSE Text(framebuffer)[r][k]
    <3>1. r - 1 \in 0 .. max_rows - 1 /\ k - 1 \in Columns
      BY <2>1 DEF Columns
    <3>2. (r - 1 = y <=> r = y + 1) /\ (k - 1 = x <=> k = x + 1)
      BY <2>1 DEF Columns
    <3>3. /\ Text(pixels)[r][k] = Seen(pixels, r - 1, k - 1)
          /\ Text(framebuffer)[r][k] = Seen(framebuffer, r - 1, k - 1)
      BY DEF Text
    <3> QED BY <1>4, <3>1, <3>2, <3>3
  <2> DEFINE text == Text(framebuffer)
  <2>3. text = [r \in 1 .. max_rows |-> text[r]]
        /\ \A r \in 1 .. max_rows : text[r] = [k \in 1 .. Cols |-> text[r][k]]
    BY DEF Text
  <2>4. Text(pixels) = [r \in 1 .. max_rows |-> [k \in 1 .. Cols |-> Text(pixels)[r][k]]]
    BY DEF Text
  <2> HIDE DEF text
  <2>5. ASSUME NEW r \in 1 .. max_rows
        PROVE  [text EXCEPT ![y + 1][x + 1] = c][r] = [k \in 1 .. Cols |-> Text(pixels)[r][k]]
    <3>1. text[r] = [k \in 1 .. Cols |-> text[r][k]] /\ DOMAIN text = 1 .. max_rows
      BY <2>3
    <3>2. [text EXCEPT ![y + 1][x + 1] = c][r]
            = IF r = y + 1 THEN [text[r] EXCEPT ![x + 1] = c] ELSE text[r]
      BY <3>1
    <3>3. \A k \in 1 .. Cols :
            Text(pixels)[r][k] = IF r = y + 1 /\ k = x + 1 THEN c ELSE text[r][k]
      BY <2>2 DEF text
    <3>4. CASE r = y + 1
      <4>1. [text[r] EXCEPT ![x + 1] = c]
              = [k \in 1 .. Cols |-> IF k = x + 1 THEN c ELSE text[r][k]]
        BY <2>1, <3>1
      <4> QED BY <3>2, <3>3, <3>4, <4>1
    <3>5. CASE r # y + 1
      BY <3>1, <3>2, <3>3, <3>5
    <3> QED BY <3>4, <3>5
  <2> QED BY <2>3, <2>4, <2>5 DEF text
<1> QED BY <1>3, <1>5

\* Scrolling takes the first line off the text and puts a blank one behind it.
LEMMA ScrollText ==
  ASSUME NEW pixels \in Frames
  PROVE  /\ scroll_up(pixels) \in Frames
         /\ Text(scroll_up(pixels)) = Append(Tail(Text(pixels)), AsTerminal!BlankLine)
<1> DEFINE scrolled == scroll_up(pixels)  copied == (max_rows - 1) * CharHeight
<1>1. max_rows \in Nat \ {0} /\ copied \in Nat /\ copied + CharHeight <= Height
  <2>1. max_rows \in Nat \ {0} /\ max_rows * CharHeight <= Height
    BY Lines
  <2>2. copied + CharHeight = max_rows * CharHeight /\ copied \in Nat
    BY <2>1
  <2> QED BY <2>1, <2>2
<1>2. ASSUME NEW p \in PixelRows
      PROVE  scrolled[p] = IF p < copied THEN pixels[p + CharHeight] ELSE [k \in Columns |-> Dark]
  BY DEF scroll_up
<1>3. scrolled \in Frames
  <2>1. ASSUME NEW p \in PixelRows, p < copied
        PROVE  p + CharHeight \in PixelRows
    <3> HIDE DEF copied
    <3> QED BY <1>1, <2>1 DEF PixelRows
  <2>2. Dark \in Pixels
    BY GlyphOf DEF Dark
  <2>3. ASSUME NEW p \in PixelRows
        PROVE  scrolled[p] \in [Columns -> Pixels]
    <3> HIDE DEF copied, scrolled
    <3> QED BY <1>2, <2>1, <2>2 DEF Frames
  <2> QED BY <2>3 DEF Frames, scroll_up
<1>4. ASSUME NEW line \in 0 .. max_rows - 1, NEW k \in Columns
      PROVE  Seen(scrolled, line, k)
               = IF line < max_rows - 1 THEN Seen(pixels, line + 1, k) ELSE Blank
  <2>1. line \in Nat
    BY <1>1
  <2>2. CASE line < max_rows - 1
    <3>1. ASSUME NEW row \in 0 .. CharHeight - 1
          PROVE  scrolled[line * CharHeight + row][k] = pixels[(line + 1) * CharHeight + row][k]
      <4> DEFINE p == line * CharHeight + row
      <4>1. p \in PixelRows
        BY RowOfLine
      <4>2. line + 1 <= max_rows - 1
        BY <1>1, <2>1, <2>2
      <4>3. (line + 1) * CharHeight <= copied
        BY <1>1, <2>1, <4>2
      <4>4. (line + 1) * CharHeight = line * CharHeight + CharHeight /\ line * CharHeight \in Nat
        BY <2>1
      <4>5. p < copied /\ p + CharHeight = (line + 1) * CharHeight + row
        <5> DEFINE top == line * CharHeight  next == (line + 1) * CharHeight
        <5>1. next <= copied /\ next = top + CharHeight /\ top \in Nat
          BY <4>3, <4>4
        <5> HIDE DEF top, next, copied
        <5> QED BY <1>1, <5>1 DEF top, next
      <4> HIDE DEF p, copied, scrolled
      <4> QED BY <1>2, <4>1, <4>5 DEF p
    <3> HIDE DEF scrolled
    <3>2. scrolled[line * CharHeight][k] = pixels[(line + 1) * CharHeight][k]
      <4>1. 0 \in 0 .. CharHeight - 1 /\ line * CharHeight + 0 = line * CharHeight
        BY <2>1, TopRow
      <4>2. (line + 1) * CharHeight + 0 = (line + 1) * CharHeight
        BY <2>1, TopRow
      <4>3. scrolled[line * CharHeight + 0][k] = pixels[(line + 1) * CharHeight + 0][k]
        BY <3>1, <4>1
      <4> QED BY <4>1, <4>2, <4>3
    <3> QED BY <2>2, <3>1, <3>2 DEF Seen
  <2>3. CASE ~(line < max_rows - 1)
    <3>1. line = max_rows - 1
      BY <1>1, <2>3
    <3>2. ASSUME NEW row \in 0 .. CharHeight - 1
          PROVE  scrolled[line * CharHeight + row][k] = Glyph(Blank, row)
      <4> DEFINE p == line * CharHeight + row
      <4>1. p \in PixelRows
        BY RowOfLine
      <4>2. ~(p < copied)
        BY <1>1, <3>1
      <4> HIDE DEF p, copied, scrolled
      <4>3. scrolled[p][k] = Dark
        BY <1>2, <4>1, <4>2
      <4> QED BY <4>3, DarkIsBlank DEF p
    <3> HIDE DEF scrolled
    <3> QED BY <2>1, <2>3, <3>2, Whole
  <2> QED BY <2>2, <2>3
<1>5. Text(scrolled) = Append(Tail(Text(pixels)), AsTerminal!BlankLine)
  <2> HIDE DEF scrolled
  <2> DEFINE Line == [1 .. Cols -> {Seen(pixels, l, k) : l \in 0 .. max_rows - 1, k \in Columns} \cup {Blank}]
             text == Text(pixels)  blank == AsTerminal!BlankLine
  <2>1. text \in Seq(Line) /\ Len(text) = max_rows
    <3>1. ASSUME NEW r \in 1 .. max_rows
          PROVE  [k \in 1 .. Cols |-> Seen(pixels, r - 1, k - 1)] \in Line
      <4>1. \A k \in 1 .. Cols : k - 1 \in Columns
        BY DEF Columns
      <4>2. r - 1 \in 0 .. max_rows - 1
        BY <1>1
      <4> QED BY <4>1, <4>2
    <3> HIDE DEF Line
    <3> QED BY <1>1, <3>1 DEF Text
  <2>2. blank \in Line
    BY DEF AsTerminal!BlankLine
  <2>3. /\ Append(Tail(text), blank) \in Seq(Line)
        /\ Len(Append(Tail(text), blank)) = max_rows
        /\ \A r \in 1 .. max_rows :
             Append(Tail(text), blank)[r] = IF r < max_rows THEN text[r + 1] ELSE blank
    <3> HIDE DEF Line, text, blank
    <3>1. Tail(text) \in Seq(Line) /\ Len(Tail(text)) = max_rows - 1
      BY <1>1, <2>1
    <3> QED BY <1>1, <2>1, <2>2, <3>1
  <2>4. ASSUME NEW r \in 1 .. max_rows
        PROVE  Text(scrolled)[r] = IF r < max_rows THEN text[r + 1] ELSE blank
    <3>1. r - 1 \in 0 .. max_rows - 1 /\ (r - 1 < max_rows - 1 <=> r < max_rows)
      BY <1>1
    <3>2. \A k \in 1 .. Cols : k - 1 \in Columns
      BY DEF Columns
    <3>3. \A k \in 1 .. Cols :
            Seen(scrolled, r - 1, k - 1)
              = IF r < max_rows THEN Seen(pixels, (r - 1) + 1, k - 1) ELSE Blank
      BY <1>4, <3>1, <3>2
    <3>4. Text(scrolled)[r] = [k \in 1 .. Cols |-> Seen(scrolled, r - 1, k - 1)]
      BY DEF Text
    <3>5. CASE r < max_rows
      <4>1. r + 1 \in 1 .. max_rows /\ (r - 1) + 1 = (r + 1) - 1
        BY <1>1, <3>5
      <4>2. text[r + 1] = [k \in 1 .. Cols |-> Seen(pixels, (r + 1) - 1, k - 1)]
        BY <4>1 DEF Text
      <4> QED BY <3>3, <3>4, <3>5, <4>1, <4>2
    <3>6. CASE ~(r < max_rows)
      BY <3>3, <3>4, <3>6 DEF AsTerminal!BlankLine
    <3> QED BY <3>5, <3>6
  <2>5. Text(scrolled) = [r \in 1 .. max_rows |-> Text(scrolled)[r]]
    BY DEF Text
  <2>6. Append(Tail(text), blank) = [r \in 1 .. max_rows |-> Append(Tail(text), blank)[r]]
    <3> DEFINE after == Append(Tail(text), blank)
    <3>1. after \in Seq(Line) /\ Len(after) = max_rows
      BY <2>3
    <3> HIDE DEF Line, after
    <3>2. after = [r \in 1 .. max_rows |-> after[r]]
      BY <3>1
    <3> QED BY <3>2 DEF after
  <2> HIDE DEF text, blank
  <2>7. \A r \in 1 .. max_rows : Text(scrolled)[r] = Append(Tail(text), blank)[r]
    BY <2>3, <2>4
  <2> QED BY <2>5, <2>6, <2>7 DEF text, blank
<1> QED BY <1>3, <1>5

\* The end of printc is how the terminal goes on, whatever the place it is given.
LEMMA SettleGoesOn ==
  ASSUME NEW pixels \in Frames, NEW x \in Nat, NEW y \in 0 .. max_rows, Settle(pixels, x, y),
         x >= Cols => y < max_rows
  PROVE  Inv' /\ AsTerminal!GoOn(Text(pixels), y + 1, x + 1)
<1> DEFINE down == IF Wraps(x) THEN y + 1 ELSE y
<1>1. max_rows \in Nat \ {0}
  BY Lines
<1>2. Wraps(x) <=> x + 1 > Cols
  BY DEF Wraps
<1>3. down \in 0 .. max_rows /\ (down >= max_rows <=> down + 1 > max_rows)
  BY <1>1, <1>2
<1>4. /\ pos_x' = IF Wraps(x) THEN 0 ELSE x
      /\ pos_y' = IF down >= max_rows THEN max_rows - 1 ELSE down
      /\ framebuffer' = IF down >= max_rows THEN scroll_up(pixels) ELSE pixels
  BY DEF Settle
<1>5. Inv'
  BY <1>1, <1>2, <1>3, <1>4, ScrollText DEF Inv
<1>6. Shown' = IF down >= max_rows THEN Append(Tail(Text(pixels)), AsTerminal!BlankLine)
               ELSE Text(pixels)
  BY <1>4, ScrollText, ShownIsText
<1>7. Place' = [line   |-> IF down >= max_rows THEN max_rows ELSE down + 1,
                column |-> IF Wraps(x) THEN 1 ELSE x + 1]
  BY <1>1, <1>4 DEF Place
<1>8. (IF x + 1 > Cols THEN (y + 1) + 1 ELSE y + 1) = down + 1
  BY <1>1, <1>2
<1> HIDE DEF down
<1> QED BY <1>2, <1>3, <1>5, <1>6, <1>7, <1>8 DEF AsTerminal!GoOn

------------------------------------------------------------------------------
(* The refinement *)

LEMMA InitHolds == Init => Inv /\ AsTerminal!Init
<1> SUFFICES ASSUME Init PROVE Inv /\ AsTerminal!Init
  OBVIOUS
<1>1. max_rows \in Nat \ {0}
  BY Lines
<1>2. Dark \in Pixels
  BY GlyphOf DEF Dark
<1>3. Inv
  BY <1>1, <1>2 DEF Init, Inv, Frames
<1>4. ASSUME NEW r \in 1 .. max_rows, NEW k \in 1 .. Cols
      PROVE  Seen(framebuffer, r - 1, k - 1) = Blank
  <2>1. r - 1 \in 0 .. max_rows - 1 /\ r - 1 \in Nat /\ k - 1 \in Columns
    BY <1>1 DEF Columns
  <2>2. \A row \in 0 .. CharHeight - 1 :
          framebuffer[(r - 1) * CharHeight + row][k - 1] = Glyph(Blank, row)
    BY <2>1, RowOfLine, DarkIsBlank DEF Init
  <2> QED BY <2>1, <2>2, Whole
<1>5. Shown = [r \in 1 .. max_rows |-> AsTerminal!BlankLine]
  BY <1>4, ShownIsText DEF Text, AsTerminal!BlankLine
<1>6. Place = [line |-> 1, column |-> 1]
  BY DEF Init, Place
<1> QED BY <1>3, <1>5, <1>6 DEF AsTerminal!Init

\* The first line that is not cleared as a whole begins behind Height * Cols.
LEMMA ClearStep ==
  ASSUME Inv, clear_screen
  PROVE  Inv' /\ (AsTerminal!Clear \/ LeavesLastRows)
<1> DEFINE Cleared(p, k) == p * Pitch + k < Height * Cols
<1>1. max_rows \in Nat \ {0} /\ max_rows * CharHeight <= Height
  BY Lines
<1>2. Dark \in Pixels
  BY GlyphOf DEF Dark
<1>3. Inv'
  <2>1. framebuffer' \in Frames
    BY <1>2 DEF Inv, Frames, clear_screen
  <2> QED BY <1>1, <2>1 DEF Inv, clear_screen
<1>4. Place' = [line |-> 1, column |-> 1]
  BY DEF clear_screen, Place
<1>5. ASSUME NEW r \in 1 .. max_rows,
             \A row \in 0 .. CharHeight - 1 : \A k \in Columns :
               Cleared((r - 1) * CharHeight + row, k)
      PROVE  Shown'[r] = AsTerminal!BlankLine
  <2>1. r - 1 \in 0 .. max_rows - 1 /\ r - 1 \in Nat
    BY <1>1
  <2>2. ASSUME NEW k \in 1 .. Cols
        PROVE  Seen(framebuffer', r - 1, k - 1) = Blank
    <3>1. k - 1 \in Columns
      BY DEF Columns
    <3>2. ASSUME NEW row \in 0 .. CharHeight - 1
          PROVE  framebuffer'[(r - 1) * CharHeight + row][k - 1] = Glyph(Blank, row)
      <4> DEFINE p == (r - 1) * CharHeight + row
      <4>1. p \in PixelRows
        BY <2>1, RowOfLine
      <4>2. Cleared(p, k - 1)
        BY <1>5, <3>1
      <4> HIDE DEF p
      <4>3. framebuffer'[p][k - 1] = Dark
        BY <3>1, <4>1, <4>2 DEF clear_screen
      <4> QED BY <4>3, DarkIsBlank DEF p
    <3> QED BY <2>1, <3>2, Whole
  <2>3. Text(framebuffer')[r] = [k \in 1 .. Cols |-> Seen(framebuffer', r - 1, k - 1)]
    BY DEF Text
  <2> QED BY <2>2, <2>3, ShownIsText DEF AsTerminal!BlankLine
<1>6. CASE Pitch = Cols
  <2>1. ASSUME NEW p \in PixelRows, NEW k \in Columns
        PROVE  Cleared(p, k)
    <3>1. p \in Nat /\ p + 1 <= Height /\ k \in Nat /\ k < Cols
      BY DEF PixelRows, Columns
    <3>2. (p + 1) * Cols <= Height * Cols
      BY <3>1
    <3>3. (p + 1) * Cols = p * Cols + Cols /\ p * Cols \in Nat /\ Height * Cols \in Nat
      BY <3>1
    <3> QED BY <1>6, <3>1, <3>2, <3>3
  <2>2. \A r \in 1 .. max_rows, row \in 0 .. CharHeight - 1 :
          (r - 1) * CharHeight + row \in PixelRows
    <3> TAKE r \in 1 .. max_rows, row \in 0 .. CharHeight - 1
    <3>1. r - 1 \in 0 .. max_rows - 1
      BY <1>1
    <3> QED BY <3>1, RowOfLine
  <2>3. \A r \in 1 .. max_rows : Shown'[r] = AsTerminal!BlankLine
    BY <1>5, <2>1, <2>2
  <2>4. Shown' = [r \in 1 .. max_rows |-> AsTerminal!BlankLine]
    BY <2>3 DEF Shown
  <2> QED BY <1>3, <1>4, <2>4 DEF AsTerminal!Clear
<1>7. CASE Pitch > Cols
  <2>1. ASSUME NEW r \in 1 .. max_rows, r * CharHeight * Pitch <= Height * Cols,
               NEW row \in 0 .. CharHeight - 1, NEW k \in Columns
        PROVE  Cleared((r - 1) * CharHeight + row, k)
    <3> DEFINE p == (r - 1) * CharHeight + row  q == r * CharHeight
    <3>1. r \in Nat /\ r - 1 \in Nat /\ k \in Nat /\ k < Pitch /\ row + 1 <= CharHeight
      BY <1>1, <1>7 DEF Columns
    <3>2. p \in Nat /\ q \in Nat /\ p + 1 <= q
      BY <3>1
    <3>3. q * Pitch <= Height * Cols
      BY <2>1
    <3> HIDE DEF p, q
    <3>4. (p + 1) * Pitch <= q * Pitch
      BY <3>2
    <3>5. (p + 1) * Pitch = p * Pitch + Pitch /\ p * Pitch \in Nat /\ q * Pitch \in Nat
      BY <3>2
    <3>6. p * Pitch + k < q * Pitch
      BY <3>1, <3>4, <3>5
    <3>7. Height * Cols \in Nat
      OBVIOUS
    <3>8. p * Pitch + k < Height * Cols
      BY <3>1, <3>3, <3>5, <3>6, <3>7
    <3> QED BY <3>8 DEF p
  <2> QED BY <1>3, <1>5, <1>7, <2>1 DEF LeavesLastRows
<1> QED BY <1>6, <1>7

LEMMA PrintStep ==
  ASSUME Inv, printc
  PROVE  Inv' /\ (AsTerminal!Next \/ UNCHANGED <<Shown, Place>>)
<1>1. max_rows \in Nat \ {0} /\ pos_x \in Columns /\ pos_x \in Nat /\ pos_y \in 0 .. max_rows - 1
  BY Lines DEF Inv, Columns
<1>2. Place.line = pos_y + 1 /\ Place.column = pos_x + 1 /\ framebuffer \in Frames
  BY DEF Place, Inv
<1>3. Shown = Text(framebuffer)
  BY ShownIsText
<1>4. ASSUME NEW c \in Chars \cup {Blank}, Printable(c)
      PROVE  Inv' /\ AsTerminal!Put(c)
  <2>1. /\ print_char(c, pos_x, pos_y) \in Frames
        /\ Text(print_char(c, pos_x, pos_y)) = [Shown EXCEPT ![Place.line][Place.column] = c]
    BY <1>1, <1>2, <1>3, PrintText
  <2>2. Inv' /\ AsTerminal!GoOn(Text(print_char(c, pos_x, pos_y)), pos_y + 1, (pos_x + 1) + 1)
    <3>1. pos_x + 1 \in Nat /\ pos_y \in 0 .. max_rows /\ pos_y < max_rows
      BY <1>1
    <3> QED BY <1>4, <2>1, <3>1, SettleGoesOn DEF Printable
  <2> QED BY <1>2, <2>1, <2>2 DEF AsTerminal!Put
<1>5. ASSUME LineFeed
      PROVE  Inv' /\ AsTerminal!NewLine
  <2>1. Inv' /\ AsTerminal!GoOn(Text(framebuffer), (pos_y + 1) + 1, 0 + 1)
    BY <1>1, <1>2, <1>5, SettleGoesOn DEF LineFeed
  <2> QED BY <1>2, <1>3, <2>1 DEF AsTerminal!NewLine
<1>6. ASSUME CarriageReturn
      PROVE  Inv' /\ AsTerminal!Return
  <2>1. Inv' /\ AsTerminal!GoOn(Text(framebuffer), pos_y + 1, 0 + 1)
    BY <1>1, <1>2, <1>6, SettleGoesOn DEF CarriageReturn
  <2> QED BY <1>2, <1>3, <2>1 DEF AsTerminal!Return
<1>7. ASSUME Tabulator
      PROVE  Inv' /\ AsTerminal!Tab
  <2> DEFINE stop == pos_x + 4 - (pos_x % 4)
  <2>1. stop \in Nat /\ stop + 1 = 4 * (pos_x \div 4) + 5 /\ (pos_x + 1) - 1 = pos_x
    <3>1. pos_x \div 4 \in Nat /\ pos_x % 4 \in 0 .. 3 /\ pos_x = 4 * (pos_x \div 4) + (pos_x % 4)
      BY <1>1, Division
    <3> QED BY <1>1, <3>1
  <2>2. Settle(framebuffer, stop, pos_y)
    BY <1>7 DEF Tabulator
  <2> HIDE DEF stop
  <2>3. Inv' /\ AsTerminal!GoOn(Text(framebuffer), pos_y + 1, stop + 1)
    BY <1>1, <1>2, <2>1, <2>2, SettleGoesOn
  <2> QED BY <1>2, <1>3, <2>1, <2>3 DEF AsTerminal!Tab
<1>8. ASSUME Backspace
      PROVE  Inv' /\ (AsTerminal!Erase \/ UNCHANGED <<Shown, Place>>)
  <2>1. CASE pos_x > 0
    <3>1. pos_x - 1 \in Columns /\ pos_x - 1 \in Nat /\ (pos_x - 1) + 1 = (pos_x + 1) - 1
      BY <1>1, <2>1 DEF Columns
    <3>2. /\ print_char(Blank, pos_x - 1, pos_y) \in Frames
          /\ Text(print_char(Blank, pos_x - 1, pos_y))
               = [Shown EXCEPT ![Place.line][Place.column - 1] = Blank]
      BY <1>1, <1>2, <1>3, <3>1, PrintText
    <3>3. /\ Inv'
          /\ AsTerminal!GoOn(Text(print_char(Blank, pos_x - 1, pos_y)), pos_y + 1, (pos_x - 1) + 1)
      BY <1>1, <1>8, <2>1, <3>1, <3>2, SettleGoesOn DEF Backspace
    <3>4. Place.column > 1
      BY <1>1, <1>2, <2>1
    <3> QED BY <1>2, <3>1, <3>2, <3>3, <3>4 DEF AsTerminal!Erase
  <2>2. CASE ~(pos_x > 0)
    <3>1. Settle(framebuffer, pos_x, pos_y)
      BY <1>8, <2>2 DEF Backspace
    <3>2. ~Wraps(pos_x) /\ ~(pos_y >= max_rows)
      BY <1>1 DEF Wraps, Columns
    <3>3. pos_x' = pos_x /\ pos_y' = pos_y /\ framebuffer' = framebuffer
      BY <3>1, <3>2 DEF Settle
    <3> QED BY <1>3, <3>3, ShownIsText DEF Inv, Place
  <2> QED BY <2>1, <2>2
<1> QED BY <1>4, <1>5, <1>6, <1>7, <1>8 DEF printc, AsTerminal!Next

\* On every screen, whatever its height, its width and the length of its rows.
THEOREM ConsoleIsTerminal == Spec => ImplementsTerminal
<1>1. ASSUME Inv, [Next]_vars
      PROVE  Inv' /\ [AsTerminal!Next \/ LeavesLastRows]_<<Shown, Place>>
  <2>1. CASE printc
    BY <1>1, <2>1, PrintStep
  <2>2. CASE clear_screen
    BY <1>1, <2>2, ClearStep DEF AsTerminal!Next
  <2>3. CASE UNCHANGED vars
    <3>1. Inv'
      BY <1>1, <2>3 DEF Inv, vars
    <3>2. Shown' = Shown /\ Place' = Place
      BY <2>3, ShownIsText DEF vars, Place
    <3> QED BY <3>1, <3>2
  <2> QED BY <1>1, <2>1, <2>2, <2>3 DEF Next
<1> QED BY <1>1, InitHolds, PTL DEF Spec, ImplementsTerminal
=============================================================================
