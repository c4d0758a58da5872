------------------------------ MODULE Painter ------------------------------
(***************************************************************************)
(* Drawing: class Painter of kernel/graphics/graphics.cpp, as the graphics *)
(* system calls on windows and the frame of the focused window use it. A   *)
(* pixel is a pair <<x, y>>; colours are left out, but for what of the     *)
(* buffer is written. Coordinates are signed in the code, loop counters    *)
(* unsigned: WORD is the number of values of either.                       *)
(***************************************************************************)
EXTENDS Integers, Sequences, FiniteSets, FiniteSetsExt

CONSTANTS m_width, m_height,   \* of the buffer; m_pitch is m_width
          WORD,                \* 2^32
          CHAR_WIDTH, CHAR_HEIGHT, ADVANCE, LINE_HEIGHT,   \* of the font
          Clips,               \* arguments of set_clipping(): records [x_min, y_min, x_max, y_max]
          Coord, Extent,       \* bound: positions and sizes the callers pass
          Texts                \* bound: the texts, sequences of "glyph", "space" and "newline"

\* Bound: the numbers that are passed, so that no sum of two of them overflows.
Number == -(WORD \div 4) .. WORD \div 4
Clipping == [x_min : Number, y_min : Number, x_max : Number, y_max : Number]

\* The buffer and the font; m_width and m_height are passed on as signed numbers.
ASSUME BufferAssumption ==
  /\ m_width \in Nat \ {0} /\ m_height \in Nat \ {0} /\ WORD \in Nat
  /\ m_width < WORD \div 2 /\ m_height < WORD \div 2
  /\ {CHAR_WIDTH, CHAR_HEIGHT, ADVANCE, LINE_HEIGHT} \subseteq Nat

\* The arguments; what draw_line() multiplies does not overflow either.
ASSUME ArgumentAssumption ==
  /\ Clips \subseteq Clipping /\ Texts \subseteq Seq({"glyph", "space", "newline"})
  /\ Coord \subseteq Number /\ Extent \subseteq Number
  /\ \A a, b, c, d \in Coord : (b - a) * (d - c) < WORD \div 2

VARIABLES m_clipping,
          paint_call,   \* the call under way: a record with the field op
          painted       \* the pixels of the buffer it has written

paintVars == <<m_clipping, paint_call, painted>>

idle == [op |-> "none"]
Box(x_min, y_min, x_max, y_max) == [x_min |-> x_min, y_min |-> y_min, x_max |-> x_max, y_max |-> y_max]
WholeBuffer == Box(0, 0, m_width - 1, m_height - 1)

\* create(): the clipping is reverted.
PaintInit == m_clipping = WholeBuffer /\ paint_call = idle /\ painted = {}

\* Mutant of draw_pixel: the last row and column count as outside.
draw_pixel_short(S) ==
  {p \in S : /\ m_clipping.x_min <= p[1] /\ p[1] < m_clipping.x_max
             /\ m_clipping.y_min <= p[2] /\ p[2] < m_clipping.y_max}

\* draw_pixel() for the pixels of a set: what the clipping leaves of it.
draw_pixel(S) ==
  {p \in S : /\ m_clipping.x_min <= p[1] /\ p[1] <= m_clipping.x_max
             /\ m_clipping.y_min <= p[2] /\ p[2] <= m_clipping.y_max}
-----------------------------------------------------------------------------
magnitude_of(n) == IF n < 0 THEN -n ELSE n

\* Division as in the code, towards zero.
quotient(a, b) == LET q == magnitude_of(a) \div magnitude_of(b) IN IF (a < 0) = (b < 0) THEN q ELSE -q

\* draw_line(): a pixel for each step along the longer side. The differences are those from before
\* the ends are swapped.
draw_line(x1, y1, x2, y2) ==
  LET dx == x2 - x1
      dy == y2 - y1
      left == IF x1 > x2 THEN <<x2, y2>> ELSE <<x1, y1>>
      top == IF y1 > y2 THEN <<x2, y2>> ELSE <<x1, y1>>
  IN draw_pixel(
       IF dx = 0 /\ dy = 0 THEN {<<x1, y1>>}
       ELSE IF magnitude_of(dx) > magnitude_of(dy)
       THEN {<<x, quotient(dy * (x - left[1]), dx) + left[2]>> : x \in Min({x1, x2}) .. Max({x1, x2})}
       ELSE {<<quotient(dx * (y - top[2]), dy) + top[1], y>> : y \in Min({y1, y2}) .. Max({y1, y2})})

\* draw_rect(): its four edges.
draw_rect(x, y, w, h) ==
  draw_line(x, y, x + w - 1, y) \cup draw_line(x, y + h - 1, x + w - 1, y + h - 1)
    \cup draw_line(x, y, x, y + h - 1) \cup draw_line(x + w - 1, y, x + w - 1, y + h - 1)

\* draw_rect() with a width of the line: rectangles in each other.
draw_frame_rect(x, y, w, h, line_width) ==
  UNION {draw_rect(x + k, y + k, w - 2 * k, h - 2 * k) : k \in 0 .. line_width - 1}

\* The values of a loop counter that is unsigned and runs from a to below b; those that are negative
\* as coordinates are always clipped.
counter(a, b) == {i \in a .. (b % WORD) - 1 : i < WORD \div 2}

\* fill_rect(): "early clipping" moves the left and the upper edge into the clipping and bounds the
\* size by the clipping's; the right and the lower edge move along.
fill_rect(x, y, w, h) ==
  LET left == Max({m_clipping.x_min, x})
      top == Max({m_clipping.y_min, y})
      width == Min({m_clipping.x_max - m_clipping.x_min + 1, w})
      height == Min({m_clipping.y_max - m_clipping.y_min + 1, h})
  IN draw_pixel(counter(left, left + width) \X counter(top, top + height))

\* draw_alpha_map(): the cell of a glyph.
draw_alpha_map(x, y) == draw_pixel((x .. x + CHAR_WIDTH - 1) \X (y .. y + CHAR_HEIGHT - 1))

\* draw_text(): one iteration of its loop. No caller gives a width to wrap the lines at. A glyph right
\* of the clipping is skipped, and below of it the loop ends.
text_step(s, ch, x) ==
  LET skipped == ch = "glyph" /\ s.x > m_clipping.x_max
      next_x == IF ch = "newline" THEN x ELSE IF skipped THEN s.x ELSE s.x + ADVANCE
      next_y == IF ch = "newline" THEN s.y + LINE_HEIGHT ELSE s.y
  IN IF s.done THEN s
     ELSE [x |-> next_x, y |-> next_y, done |-> ~skipped /\ next_y > m_clipping.y_max,
           pixels |-> IF ch = "glyph" /\ ~skipped THEN s.pixels \cup draw_alpha_map(s.x, s.y) ELSE s.pixels]

draw_text(x, y, text) ==
  LET state[i \in 0 .. Len(text)] ==
        IF i = 0 THEN [x |-> x, y |-> y, done |-> FALSE, pixels |-> {}] ELSE text_step(state[i - 1], text[i], x)
  IN state[Len(text)].pixels

\* blit(): no clipping; the pixel at an index of the buffer. What lies behind its end is not a pixel.
blit(x, y, w, h) ==
  {<<i % m_width, i \div m_width>> : i \in {(x + a) + m_width * (y + b) : a \in 0 .. w - 1, b \in 0 .. h - 1}}

\* clear(): the whole buffer, whatever the clipping.
clear_pixels == (0 .. m_width - 1) \X (0 .. m_height - 1)
-----------------------------------------------------------------------------
\* set_clipping(): within the buffer.
set_clipping(c) ==
  Box(Max({0, c.x_min}), Max({0, c.y_min}), Min({m_width - 1, c.x_max}), Min({m_height - 1, c.y_max}))

SetClipping(c) ==
  /\ paint_call = idle
  /\ m_clipping' = set_clipping(c)
  /\ UNCHANGED <<paint_call, painted>>

RevertClipping ==
  /\ paint_call = idle
  /\ m_clipping' = WholeBuffer
  /\ UNCHANGED <<paint_call, painted>>

\* A call, and its return.
Paint(call, pixels) ==
  /\ paint_call = idle
  /\ paint_call' = call /\ painted' = pixels
  /\ UNCHANGED m_clipping

PaintReturn ==
  /\ paint_call # idle
  /\ paint_call' = idle /\ painted' = {}
  /\ UNCHANGED m_clipping

Args(op, x, y, w, h) == [op |-> op, x |-> x, y |-> y, w |-> w, h |-> h]

\* SYS_GFX_DRAW_LINE, SYS_GFX_DRAW_RECT, ...: the arguments are unpacked and passed on.
DrawLine(x1, y1, x2, y2) ==
  Paint([op |-> "line", x1 |-> x1, y1 |-> y1, x2 |-> x2, y2 |-> y2], draw_line(x1, y1, x2, y2))
DrawRect(x, y, w, h) == Paint(Args("rect", x, y, w, h), draw_rect(x, y, w, h))
DrawFrame(x, y, w, h) == Paint(Args("frame", x, y, w, h), draw_frame_rect(x, y, w, h, 2))
FillRect(x, y, w, h) == Paint(Args("fill", x, y, w, h), fill_rect(x, y, w, h))
Blit(x, y, w, h) == Paint(Args("blit", x, y, w, h), blit(x, y, w, h))
DrawText(x, y, text) == Paint([op |-> "text", x |-> x, y |-> y, text |-> text], draw_text(x, y, text))
ClearBuffer == Paint([op |-> "clear"], clear_pixels)

PaintNext ==
  \/ \E c \in Clips : SetClipping(c)
  \/ RevertClipping
  \/ \E x, y, x2, y2 \in Coord : DrawLine(x, y, x2, y2)
  \/ \E x, y \in Coord, w, h \in Extent : DrawRect(x, y, w, h) \/ FillRect(x, y, w, h) \/ DrawFrame(x, y, w, h)
  \/ \E x, y \in Coord \cap Nat, w, h \in Extent \cap Nat : Blit(x, y, w, h)
  \/ \E x, y \in Coord, text \in Texts : DrawText(x, y, text)
  \/ ClearBuffer
  \/ PaintReturn

PaintSpec == PaintInit /\ [][PaintNext]_paintVars
-----------------------------------------------------------------------------
\* What a call must paint, stated without the loops.
ClipArea == (m_clipping.x_min .. m_clipping.x_max) \X (m_clipping.y_min .. m_clipping.y_max)
Rectangle(x, y, w, h) == (x .. x + w - 1) \X (y .. y + h - 1)
Border(x, y, w, h) == Rectangle(x, y, w, h) \ Rectangle(x + 1, y + 1, w - 2, h - 2)

\* The pixels less than one pixel away from the line c, measured across its longer side.
NearLine(c) ==
  LET dx == c.x2 - c.x1
      dy == c.y2 - c.y1
      box == (Min({c.x1, c.x2}) .. Max({c.x1, c.x2})) \X (Min({c.y1, c.y2}) .. Max({c.y1, c.y2}))
  IN {p \in box : magnitude_of(dx * (p[2] - c.y1) - dy * (p[1] - c.x1))
                    < Max({1, magnitude_of(dx), magnitude_of(dy)})}

\* The line is drawn from end to end, with one pixel for each step along its longer side.
LineIsDrawn(c) ==
  LET long == IF magnitude_of(c.x2 - c.x1) > magnitude_of(c.y2 - c.y1) THEN 1 ELSE 2
  IN /\ painted \subseteq NearLine(c)
     /\ {<<c.x1, c.y1>>, <<c.x2, c.y2>>} \cap ClipArea \subseteq painted
     /\ \A q \in NearLine(c) :
          LET step == {p \in NearLine(c) : p[long] = q[long]}
          IN step \subseteq ClipArea => Cardinality(step \cap painted) = 1

\* The cells of the glyphs of a text, line by line.
Cells(c) ==
  LET newlines(i) == {j \in 1 .. i : c.text[j] = "newline"}
      begin(i) == IF newlines(i) = {} THEN 0 ELSE Max(newlines(i))
  IN UNION {Rectangle(c.x + ADVANCE * (i - 1 - begin(i)), c.y + LINE_HEIGHT * Cardinality(newlines(i)),
                      CHAR_WIDTH, CHAR_HEIGHT) : i \in {j \in DOMAIN c.text : c.text[j] = "glyph"}}

\* Every call paints exactly what it is asked for and the clipping leaves of it, never outside the
\* buffer, for lines of every slope and for clippings that are empty or reach over the buffer
\* (graphics.cpp). Not promised: fill_rect() of a rectangle that begins left of or above the
\* clipping, or has a negative size; draw_rect() without an inside; blit() over an edge.
PaintsWhatIsAsked ==
  LET c == paint_call
      fits == c.x >= m_clipping.x_min /\ c.y >= m_clipping.y_min /\ c.w >= 0 /\ c.h >= 0
  IN /\ c.op \notin {"blit", "clear"} => painted \subseteq ClipArea \cap Rectangle(0, 0, m_width, m_height)
     /\ c.op = "line" => LineIsDrawn(c)
     /\ c.op = "rect" /\ c.w > 0 /\ c.h > 0 => painted = ClipArea \cap Border(c.x, c.y, c.w, c.h)
     /\ c.op = "frame" /\ c.w > 2 /\ c.h > 2 =>
          painted = ClipArea \cap (Border(c.x, c.y, c.w, c.h) \cup Border(c.x + 1, c.y + 1, c.w - 2, c.h - 2))
     /\ c.op = "fill" => (fits => painted = ClipArea \cap Rectangle(c.x, c.y, c.w, c.h))
     /\ c.op = "text" => painted = ClipArea \cap Cells(c)
     /\ c.op = "blit" /\ c.x + c.w <= m_width /\ c.y + c.h <= m_height => painted = Rectangle(c.x, c.y, c.w, c.h)
     /\ c.op = "clear" => painted = Rectangle(0, 0, m_width, m_height)
=============================================================================
