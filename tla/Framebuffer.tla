---------------------------- MODULE Framebuffer -----------------------------
(***************************************************************************)
(* Drawing, src/gui/framebuffer.c, and the picture that redraw in          *)
(* src/gui/gui.c makes of the line.  A picture maps each word of the       *)
(* framebuffer to a colour.  A row takes FB_WIDTH words, so that a point   *)
(* beyond the right edge, if it were drawn, would be in the next row.      *)
(***************************************************************************)
EXTENDS Integers, Sequences

CONSTANTS
  FB_WIDTH, FB_HEIGHT,  \* 1024 and 768 in the code
  GLYPH,                \* width and height of a character, 8 in the code
  font8x8_basic         \* the points <<row, col>> set in each character

Printable == 32..127
CellPoint == 0..(GLYPH - 1)

ASSUME FramebufferAssumption ==
  /\ {FB_WIDTH, FB_HEIGHT, GLYPH} \subseteq Nat \ {0}
  /\ font8x8_basic \in [Printable -> SUBSET (CellPoint \X CellPoint)]

White == "white"
Black == "black"

FbWord == 0..(FB_WIDTH * FB_HEIGHT - 1)
WordAt(x, y) == y * FB_WIDTH + x

fb_clear(color) == [w \in FbWord |-> color]

OnScreen(x, y) == x \in 0..(FB_WIDTH - 1) /\ y \in 0..(FB_HEIGHT - 1)

(* fb_draw_pixel for each of a set of points; those off the screen are     *)
(* passed over.                                                            *)
fb_draw_pixel(fb, points, color) ==
  LET drawn == {WordAt(p[1], p[2]) : p \in {q \in points : OnScreen(q[1], q[2])}}
  IN  [w \in FbWord |-> IF w \in drawn THEN color ELSE fb[w]]

fb_draw_rect(fb, x, y, w, h, color) ==
  fb_draw_pixel(fb, (x..(x + w - 1)) \X (y..(y + h - 1)), color)

GlyphAt(c, x, y) == {<<x + bit[2], y + bit[1]>> : bit \in font8x8_basic[c]}

baseline == (FB_HEIGHT * 2) \div 3

start_x(line) == (FB_WIDTH \div 2) - (Len(line) * GLYPH) \div 2

(* Fault: only the characters are drawn, over what was there. *)
redraw_NotCleared(fb, line) ==
  fb_draw_pixel(fb,
    UNION {GlyphAt(line[i], start_x(line) + (i - 1) * GLYPH, baseline - GLYPH) :
             i \in 1..Len(line)},
    Black)

(* Clear, clear the band of the line once more, and draw its characters.   *)
redraw(fb, line) ==
  fb_draw_pixel(
    fb_draw_rect(fb_clear(White), 0, baseline - GLYPH, FB_WIDTH, 2 * GLYPH, White),
    UNION {GlyphAt(line[i], start_x(line) + (i - 1) * GLYPH, baseline - GLYPH) :
             i \in 1..Len(line)},
    Black)
=============================================================================
