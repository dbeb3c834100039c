---------------------------- MODULE KernelProofs ----------------------------
(***************************************************************************)
(* Proofs about Kernel: the line of text that the GUI task keeps, and the  *)
(* picture it draws, for every keyboard table, font, screen and buffer.    *)
(***************************************************************************)
EXTENDS Kernel, SequenceTheorems, TLAPS

(* Quotient and remainder. *)
LEMMA DivMod ==
  ASSUME NEW n \in Int, NEW d \in Nat \ {0}
  PROVE  n \div d \in Int /\ n % d \in 0..(d - 1) /\ n = (n \div d) * d + (n % d)
  OBVIOUS

LEMMA DivModUnique ==
  ASSUME NEW q \in Int, NEW r \in Int, NEW d \in Nat \ {0}, 0 <= r, r < d
  PROVE  (q * d + r) \div d = q /\ (q * d + r) % d = r
  OBVIOUS

(* No two points of the screen share a word of the framebuffer. *)
LEMMA WordsDiffer ==
  ASSUME NEW x \in 0..(FB_WIDTH - 1), NEW u \in 0..(FB_WIDTH - 1),
         NEW y \in 0..(FB_HEIGHT - 1), NEW v \in 0..(FB_HEIGHT - 1),
         WordAt(x, y) = WordAt(u, v)
  PROVE  x = u /\ y = v
<1> DEFINE W == FB_WIDTH
<1>1. /\ W \in Nat /\ x \in Int /\ u \in Int /\ y \in Int /\ v \in Int
      /\ 0 <= x /\ x < W /\ 0 <= u /\ u < W /\ y * W + x = v * W + u
  BY FramebufferAssumption DEF WordAt
<1> HIDE DEF W
<1>2. (y - v) * W = u - x /\ (v - y) * W = x - u
  BY <1>1
<1>3. ASSUME y - v >= 1 PROVE FALSE
  <2>1. (y - v) * W >= W
    BY <1>1, <1>3
  <2> QED
    BY <1>1, <1>2, <2>1
<1>4. ASSUME v - y >= 1 PROVE FALSE
  <2>1. (v - y) * W >= W
    BY <1>1, <1>4
  <2> QED
    BY <1>1, <1>2, <2>1
<1>5. y = v
  BY <1>1, <1>3, <1>4
<1> QED
  BY <1>1, <1>5

LEMMA WordInBuffer ==
  ASSUME NEW x \in 0..(FB_WIDTH - 1), NEW y \in 0..(FB_HEIGHT - 1)
  PROVE  WordAt(x, y) \in FbWord
<1> DEFINE W == FB_WIDTH
           H == FB_HEIGHT
<1>1. W \in Nat /\ H \in Nat /\ x \in Int /\ y \in Int /\ 0 <= x /\ x < W /\ 0 <= y /\ y < H
  BY FramebufferAssumption
<1> HIDE DEF W, H
<1>2. (H - 1 - y) * W >= 0 /\ y * W >= 0
  BY <1>1
<1>3. (H - 1 - y) * W = W * H - W - y * W
  BY <1>1
<1>4. y * W + x \in 0..(W * H - 1)
  BY <1>1, <1>2, <1>3
<1> QED
  BY <1>4 DEF WordAt, FbWord, W, H
-----------------------------------------------------------------------------
(* The picture of a line.                                                  *)

Points(line) ==
  UNION {GlyphAt(line[i], start_x(line) + (i - 1) * GLYPH, baseline - GLYPH) : i \in 1..Len(line)}

CellOf(line, x) == (x - start_x(line)) \div GLYPH + 1
ColumnOf(line, x) == (x - start_x(line)) % GLYPH

LEMMA Geometry ==
  ASSUME NEW line \in Seq(Printable), Len(line) * GLYPH <= FB_WIDTH
  PROVE  LET left == start_x(line)
             right == FB_WIDTH - left - GLYPH * Len(line)
         IN  left \in 0..FB_WIDTH /\ right >= 0 /\ left - right \in -1..1
<1> DEFINE W == FB_WIDTH
           P == Len(line) * GLYPH
           a == W % 2
           b == P % 2
<1>1. W \in Nat /\ P \in Nat /\ P <= W /\ GLYPH * Len(line) = P
  BY FramebufferAssumption
<1> HIDE DEF P
<1>2. start_x(line) = (W \div 2) - (P \div 2)
  BY DEF start_x, P
<1> HIDE DEF W
<1>3. /\ W \div 2 \in Int /\ P \div 2 \in Int /\ a \in 0..1 /\ b \in 0..1
      /\ W = (W \div 2) * 2 + a /\ P = (P \div 2) * 2 + b
  BY <1>1
<1> HIDE DEF a, b
<1>4. /\ start_x(line) \in 0..W
      /\ W - start_x(line) - P >= 0
      /\ start_x(line) - (W - start_x(line) - P) \in -1..1
  BY <1>1, <1>2, <1>3
<1> QED
  BY <1>1, <1>4 DEF W

(* A point is drawn when it is set in the character of its cell. *)
LEMMA PointsFacts ==
  ASSUME NEW line \in Seq(Printable), NEW x \in Int, NEW y \in Int
  PROVE  <<x, y>> \in Points(line) <=>
           /\ CellOf(line, x) \in 1..Len(line)
           /\ <<y - (baseline - GLYPH), ColumnOf(line, x)>> \in font8x8_basic[line[CellOf(line, x)]]
<1> DEFINE G == GLYPH
           left == start_x(line)
           top == baseline - GLYPH
<1>1. G \in Nat \ {0} /\ Len(line) \in Nat /\ left \in Int /\ top \in Int
  <2>1. FB_WIDTH \in Nat /\ FB_HEIGHT \in Nat /\ GLYPH \in Nat \ {0} /\ Len(line) \in Nat
    BY FramebufferAssumption
  <2>2. Len(line) * GLYPH \in Nat
    BY <2>1
  <2> QED
    BY <2>1, <2>2 DEF start_x, baseline
<1>2. /\ CellOf(line, x) = (x - left) \div G + 1
      /\ ColumnOf(line, x) = (x - left) % G
  BY DEF CellOf, ColumnOf
<1>3. Points(line) = UNION {GlyphAt(line[i], left + (i - 1) * G, top) : i \in 1..Len(line)}
  BY DEF Points
<1> HIDE DEF G, left, top
<1>4. \A i \in 1..Len(line) : \A bit \in font8x8_basic[line[i]] :
        bit[1] \in Int /\ bit[2] \in Int /\ 0 <= bit[2] /\ bit[2] < G /\ bit = <<bit[1], bit[2]>>
  <2> SUFFICES ASSUME NEW i \in 1..Len(line), NEW bit \in font8x8_basic[line[i]]
               PROVE  bit[1] \in Int /\ bit[2] \in Int /\ 0 <= bit[2] /\ bit[2] < G
                      /\ bit = <<bit[1], bit[2]>>
    OBVIOUS
  <2>1. line[i] \in Printable
    OBVIOUS
  <2>2. bit \in CellPoint \X CellPoint
    BY <2>1, FramebufferAssumption
  <2>3. bit[1] \in CellPoint /\ bit[2] \in CellPoint /\ bit = <<bit[1], bit[2]>>
    BY <2>2
  <2> QED
    BY <1>1, <2>3 DEF CellPoint, G
<1>5. ASSUME <<x, y>> \in Points(line)
      PROVE  /\ CellOf(line, x) \in 1..Len(line)
             /\ <<y - top, ColumnOf(line, x)>> \in font8x8_basic[line[CellOf(line, x)]]
  <2>1. PICK i \in 1..Len(line) : <<x, y>> \in GlyphAt(line[i], left + (i - 1) * G, top)
    BY <1>3, <1>5
  <2>2. PICK bit \in font8x8_basic[line[i]] :
          <<x, y>> = <<left + (i - 1) * G + bit[2], top + bit[1]>>
    BY <2>1 DEF GlyphAt
  <2>3. /\ bit[1] \in Int /\ bit[2] \in Int /\ 0 <= bit[2] /\ bit[2] < G
        /\ bit = <<bit[1], bit[2]>>
        /\ x = left + (i - 1) * G + bit[2] /\ y = top + bit[1]
    BY <1>4, <2>2
  <2>4. i - 1 \in Int /\ (i - 1) * G \in Int
    BY <1>1
  <2>5. x - left = (i - 1) * G + bit[2] /\ y - top = bit[1]
    <3> DEFINE m == (i - 1) * G
               c == bit[2]
               r == bit[1]
    <3>1. m \in Int /\ c \in Int /\ r \in Int /\ x = left + m + c /\ y = top + r
      BY <2>3, <2>4
    <3> HIDE DEF m, c, r
    <3>2. x - left = m + c /\ y - top = r
      BY <1>1, <3>1
    <3> QED
      BY <3>2 DEF m, c, r
  <2>6. (x - left) \div G = i - 1 /\ (x - left) % G = bit[2]
    <3> DEFINE q == i - 1
               c == bit[2]
    <3>1. q \in Int /\ c \in Int /\ 0 <= c /\ c < G /\ x - left = q * G + c
      BY <2>3, <2>4, <2>5
    <3> HIDE DEF q, c
    <3>2. (q * G + c) \div G = q /\ (q * G + c) % G = c
      BY <1>1, <3>1, DivModUnique
    <3>3. (x - left) \div G = q /\ (x - left) % G = c
      BY <3>1, <3>2
    <3> QED
      BY <3>3 DEF q, c
  <2>7. CellOf(line, x) = i /\ ColumnOf(line, x) = bit[2]
    BY <1>2, <2>6
  <2> QED
    BY <2>2, <2>3, <2>5, <2>7
<1>6. ASSUME CellOf(line, x) \in 1..Len(line),
             <<y - top, ColumnOf(line, x)>> \in font8x8_basic[line[CellOf(line, x)]]
      PROVE  <<x, y>> \in Points(line)
  <2> DEFINE i == CellOf(line, x)
             bit == <<y - top, ColumnOf(line, x)>>
  <2>1. /\ (x - left) \div G \in Int /\ (x - left) % G \in Int
        /\ x - left = ((x - left) \div G) * G + ((x - left) % G)
    <3>1. x - left \in Int
      BY <1>1
    <3> QED
      BY <1>1, <3>1, DivMod
  <2>2. i - 1 = (x - left) \div G /\ bit[2] = (x - left) % G /\ bit[1] = y - top
    BY <1>2, <2>1
  <2>3. i \in 1..Len(line) /\ bit \in font8x8_basic[line[i]]
    BY <1>6
  <2> HIDE DEF i, bit
  <2>4. x - left = (i - 1) * G + bit[2]
    BY <2>1, <2>2
  <2>5. x = left + (i - 1) * G + bit[2] /\ y = top + bit[1]
    <3> DEFINE m == (i - 1) * G
               c == bit[2]
               r == bit[1]
    <3>1. m \in Int /\ c \in Int /\ x - left = m + c /\ r = y - top
      BY <1>1, <2>1, <2>2, <2>4
    <3> HIDE DEF m, c, r
    <3>2. x = left + m + c /\ y = top + r
      BY <1>1, <3>1
    <3> QED
      BY <3>2 DEF m, c, r
  <2>6. <<x, y>> \in GlyphAt(line[i], left + (i - 1) * G, top)
    BY <2>3, <2>5 DEF GlyphAt
  <2> QED
    BY <1>3, <2>3, <2>6
<1> QED
  BY <1>5, <1>6 DEF top

(* What redraw leaves at a point of the screen. *)
LEMMA RedrawFacts ==
  ASSUME NEW pic, NEW line \in Seq(Printable),
         NEW x \in 0..(FB_WIDTH - 1), NEW y \in 0..(FB_HEIGHT - 1)
  PROVE  redraw(pic, line)[WordAt(x, y)] = Black <=> <<x, y>> \in Points(line)
<1> DEFINE blank == fb_draw_rect(fb_clear(White), 0, baseline - GLYPH, FB_WIDTH, 2 * GLYPH, White)
           w == WordAt(x, y)
           drawn == {WordAt(p[1], p[2]) : p \in {q \in Points(line) : OnScreen(q[1], q[2])}}
<1>1. w \in FbWord
  BY WordInBuffer
<1>2. blank[w] = White
  BY <1>1 DEF fb_draw_rect, fb_draw_pixel, fb_clear
<1>3. redraw(pic, line) = [v \in FbWord |-> IF v \in drawn THEN Black ELSE blank[v]]
  BY DEF redraw, fb_draw_pixel, Points
<1>4. w \in drawn <=> <<x, y>> \in Points(line)
  <2>1. ASSUME <<x, y>> \in Points(line) PROVE w \in drawn
    <3>1. OnScreen(<<x, y>>[1], <<x, y>>[2])
      BY DEF OnScreen
    <3>2. <<x, y>> \in {q \in Points(line) : OnScreen(q[1], q[2])}
      BY <2>1, <3>1
    <3> QED
      BY <3>2
  <2>2. ASSUME w \in drawn PROVE <<x, y>> \in Points(line)
    <3>1. PICK p \in Points(line) : OnScreen(p[1], p[2]) /\ w = WordAt(p[1], p[2])
      BY <2>2
    <3>2. p[1] = x /\ p[2] = y
      BY <3>1, WordsDiffer DEF OnScreen
    <3>3. p = <<p[1], p[2]>>
      <4>1. PICK i \in 1..Len(line) :
              p \in GlyphAt(line[i], start_x(line) + (i - 1) * GLYPH, baseline - GLYPH)
        BY DEF Points
      <4> QED
        BY <4>1 DEF GlyphAt
    <3> QED
      BY <3>2, <3>3
  <2> QED
    BY <2>1, <2>2
<1> HIDE DEF w, drawn, blank
<1>5. redraw(pic, line)[w] = IF w \in drawn THEN Black ELSE White
  BY <1>1, <1>2, <1>3
<1>6. White # Black
  BY DEF White, Black
<1> QED
  BY <1>4, <1>5, <1>6 DEF w
-----------------------------------------------------------------------------
(* What a byte of the keyboard does to the line.                           *)

CharOf(e0, b) ==
  IF b = Prefix THEN NoChar ELSE IF e0 THEN handle_extended(b) ELSE handle_plain(b)

AfterByte(line, e0, b) ==
  IF CharOf(e0, b) = NoChar THEN line ELSE gui_handle_key(line, CharOf(e0, b))

Line == {line \in Seq(Printable) : Len(line) <= GUI_BUF_SIZE - 1}

(* The codes of the keys that have no character are negative. *)
LEMMA KeyCodes ==
  /\ {KEY_UP, KEY_DOWN, KEY_LEFT, KEY_RIGHT, KEY_F1, KEY_F2, KEY_F3, KEY_F4,
      KEY_CTRL, KEY_ALT_R, KEY_FN} \subseteq (-128)..(-1)
  /\ Prefix = 224 /\ NoChar = 0 /\ Backspace = 8
  BY DEF KEY_UP, KEY_DOWN, KEY_LEFT, KEY_RIGHT, KEY_F1, KEY_F2, KEY_F3, KEY_F4,
         KEY_CTRL, KEY_ALT_R, KEY_FN, SignedChar, Prefix, NoChar, Backspace

LEMMA ExtendedFacts ==
  ASSUME NEW b \in Byte
  PROVE  /\ handle_extended(b) \in Int /\ handle_extended(b) <= 0
         /\ b >= 128 => handle_extended(b) = NoChar
<1>1. b \in Int
  BY DEF Byte
<1> QED
  BY <1>1 DEF handle_extended, KEY_UP, KEY_DOWN, KEY_LEFT, KEY_RIGHT,
     KEY_ALT_R, KEY_FN, SignedChar, NoChar

LEMMA PlainFacts ==
  ASSUME NEW b \in Byte
  PROVE  /\ b >= 128 => handle_plain(b) = NoChar
         /\ b < 128 /\ b \in {29, 56, 59, 60, 61, 62} =>
              handle_plain(b) \in Int /\ handle_plain(b) < 0
         /\ b < 128 /\ b \notin {29, 56, 59, 60, 61, 62} => handle_plain(b) = scancode_ascii[b]
         /\ b < 128 => scancode_ascii[b] \in 0..127
         /\ handle_plain(b) \in Int /\ handle_plain(b) <= 127
<1>1. b \in Int /\ b >= 0
  BY DEF Byte
<1>2. b < 128 => scancode_ascii[b] \in 0..127
  BY <1>1, KeyboardAssumption
<1>3. b >= 128 => handle_plain(b) = NoChar
  BY <1>1 DEF handle_plain
<1>4. b < 128 /\ b \in {29, 56, 59, 60, 61, 62} =>
        handle_plain(b) \in Int /\ handle_plain(b) < 0
  BY <1>1 DEF handle_plain, KEY_F1, KEY_F2, KEY_F3, KEY_F4, KEY_CTRL, KEY_ALT_R, SignedChar
<1>5. b < 128 /\ b \notin {29, 56, 59, 60, 61, 62} => handle_plain(b) = scancode_ascii[b]
  BY <1>1 DEF handle_plain
<1>6. handle_plain(b) \in Int /\ handle_plain(b) <= 127
  BY <1>1, <1>2, <1>3, <1>4, <1>5 DEF NoChar
<1> QED
  BY <1>2, <1>3, <1>4, <1>5, <1>6

LEMMA CharFacts ==
  ASSUME NEW b \in Byte, NEW e0 \in BOOLEAN
  PROVE  CharOf(e0, b) \in Int /\ CharOf(e0, b) <= 127
  BY ExtendedFacts, PlainFacts DEF CharOf, NoChar

LEMMA ShorterLine ==
  ASSUME NEW line \in Line, line # <<>>
  PROVE  SubSeq(line, 1, Len(line) - 1) \in Line
<1> DEFINE n == Len(line)
<1>1. line \in Seq(Printable) /\ n \in Nat /\ n <= GUI_BUF_SIZE - 1 /\ n > 0 /\ GUI_BUF_SIZE \in Nat
  BY KernelAssumption, EmptySeq DEF Line
<1>2. \A i \in 1..(n - 1) : line[i] \in Printable
  <2> SUFFICES ASSUME NEW i \in 1..(n - 1) PROVE line[i] \in Printable
    OBVIOUS
  <2>1. i \in 1..n
    BY <1>1
  <2> QED
    BY <1>1, <2>1
<1>3. n - 1 \in Int /\ 1 \in Int
  BY <1>1
<1>4. /\ SubSeq(line, 1, n - 1) \in Seq(Printable)
      /\ Len(SubSeq(line, 1, n - 1)) = IF 1 <= n - 1 THEN (n - 1) - 1 + 1 ELSE 0
  BY <1>2, <1>3, SubSeqProperties
<1>5. Len(SubSeq(line, 1, n - 1)) <= GUI_BUF_SIZE - 1
  BY <1>1, <1>4
<1> QED
  BY <1>4, <1>5 DEF Line

LEMMA LongerLine ==
  ASSUME NEW line \in Line, NEW c \in Printable, Len(line) < GUI_BUF_SIZE - 1
  PROVE  Append(line, c) \in Line
<1>1. line \in Seq(Printable) /\ Len(line) \in Nat /\ GUI_BUF_SIZE \in Nat
  BY KernelAssumption DEF Line
<1>2. Append(line, c) \in Seq(Printable) /\ Len(Append(line, c)) = Len(line) + 1
  BY <1>1, AppendProperties
<1>3. Len(Append(line, c)) <= GUI_BUF_SIZE - 1
  BY <1>1, <1>2
<1> QED
  BY <1>2, <1>3 DEF Line

(* The GUI does with a character what its user expects. *)
LEMMA HandleKeyFacts ==
  ASSUME NEW line \in Line, NEW c \in Int, c <= 127
  PROVE  /\ gui_handle_key(line, c) = TypeOn(line, c)
         /\ TypeOn(line, c) \in Line
         /\ c < 32 /\ c # Backspace => TypeOn(line, c) = line
<1>1. c \in Printable <=> c >= 32
  BY DEF Printable
<1>2. Backspace \notin Printable
  BY DEF Backspace, Printable
<1>3. CASE c = Backspace
  <2>1. TypeOn(line, c) = IF line = <<>> THEN line ELSE SubSeq(line, 1, Len(line) - 1)
    BY <1>2, <1>3 DEF TypeOn
  <2>2. gui_handle_key(line, c) = TypeOn(line, c)
    BY <1>3, <2>1 DEF gui_handle_key
  <2> QED
    BY <1>3, <2>1, <2>2, ShorterLine
<1>4. CASE c \in Printable
  <2>1. c # Backspace /\ ~(c < 32)
    BY <1>1, <1>2, <1>4
  <2>2. TypeOn(line, c) = IF Len(line) < GUI_BUF_SIZE - 1 THEN Append(line, c) ELSE line
    BY <1>4, <2>1 DEF TypeOn
  <2>3. gui_handle_key(line, c) = TypeOn(line, c)
    BY <1>1, <1>4, <2>1, <2>2 DEF gui_handle_key
  <2> QED
    BY <1>4, <2>1, <2>2, <2>3, LongerLine
<1>5. CASE c # Backspace /\ c \notin Printable
  <2>1. TypeOn(line, c) = line
    BY <1>5 DEF TypeOn
  <2>2. gui_handle_key(line, c) = line
    BY <1>1, <1>5 DEF gui_handle_key
  <2> QED
    BY <2>1, <2>2
<1> QED
  BY <1>3, <1>4, <1>5

LEMMA AfterByteFacts ==
  ASSUME NEW line \in Line, NEW e0 \in BOOLEAN, NEW b \in Byte
  PROVE  AfterByte(line, e0, b) \in Line
  BY CharFacts, HandleKeyFacts DEF AfterByte

(* The bytes of a key leave on the line what the user expects of it, and   *)
(* the bytes of its release leave the line alone.                          *)
LEMMA PlainKey ==
  ASSUME NEW line \in Line, NEW k \in Key, NEW sc \in (0..127) \ {96}, Make[k] = <<sc>>
  PROVE  /\ AfterByte(line, FALSE, sc) = TypeOn(line, Meaning(k))
         /\ sc \in Byte /\ sc # Prefix
<1>1. sc \in Int /\ 0 <= sc /\ sc < 128
  OBVIOUS
<1>2. sc \in Byte /\ sc # Prefix
  BY <1>1 DEF Byte, Prefix
<1>3. Make[k][1] = sc /\ Len(Make[k]) = 1
  OBVIOUS
<1>4. CharOf(FALSE, sc) = handle_plain(sc)
  BY <1>2 DEF CharOf
<1>5. TypeOn(line, NoChar) = line
  BY HandleKeyFacts DEF NoChar, Backspace
<1>6. CASE sc \in {29, 56, 59, 60, 61, 62}
  <2>1. Meaning(k) = NoChar
    BY <1>3, <1>6 DEF Meaning
  <2>2. handle_plain(sc) \in Int /\ handle_plain(sc) < 0
    BY <1>1, <1>2, <1>6, PlainFacts
  <2>3. gui_handle_key(line, handle_plain(sc)) = line
    <3>1. handle_plain(sc) <= 127 /\ handle_plain(sc) < 32 /\ handle_plain(sc) # Backspace
      BY <2>2 DEF Backspace
    <3> QED
      BY <2>2, <3>1, HandleKeyFacts
  <2> QED
    BY <1>2, <1>4, <1>5, <2>1, <2>3 DEF AfterByte
<1>7. CASE sc \notin {29, 56, 59, 60, 61, 62}
  <2> DEFINE c == scancode_ascii[sc]
  <2>1. handle_plain(sc) = c /\ c \in 0..127
    BY <1>1, <1>2, <1>7, PlainFacts
  <2>2. Meaning(k) = IF c \in Printable \cup {Backspace} THEN c ELSE NoChar
    BY <1>3, <1>7 DEF Meaning
  <2> HIDE DEF c
  <2>3. c \in Int /\ c <= 127
    BY <2>1
  <2>4. gui_handle_key(line, c) = TypeOn(line, c)
    BY <2>3, HandleKeyFacts
  <2>5. CASE c \in Printable \cup {Backspace}
    <3>1. c # NoChar
      BY <2>5 DEF Printable, Backspace, NoChar
    <3> QED
      BY <1>2, <1>4, <2>1, <2>2, <2>4, <2>5, <3>1 DEF AfterByte
  <2>6. CASE c \notin Printable \cup {Backspace}
    <3>1. c < 32 /\ c # Backspace
      BY <2>3, <2>6 DEF Printable
    <3>2. TypeOn(line, c) = line
      BY <2>3, <3>1, HandleKeyFacts
    <3> QED
      BY <1>2, <1>4, <1>5, <2>1, <2>2, <2>4, <2>6, <3>2 DEF AfterByte
  <2> QED
    BY <2>5, <2>6
<1> QED
  BY <1>2, <1>6, <1>7

LEMMA PrefixedKey ==
  ASSUME NEW line \in Line, NEW k \in Key, NEW sc \in (0..127) \ {96}, Make[k] = <<Prefix, sc>>
  PROVE  /\ AfterByte(line, FALSE, Prefix) = line /\ AfterByte(line, TRUE, sc) = line
         /\ TypeOn(line, Meaning(k)) = line
         /\ Prefix \in Byte /\ sc \in Byte /\ sc # Prefix
<1>1. sc \in Byte /\ sc # Prefix /\ Prefix \in Byte
  BY DEF Byte, Prefix
<1>2. AfterByte(line, FALSE, Prefix) = line
  BY DEF AfterByte, CharOf
<1>3. Meaning(k) = NoChar
  <2>1. Len(Make[k]) # 1
    OBVIOUS
  <2> QED
    BY <2>1 DEF Meaning
<1>4. TypeOn(line, NoChar) = line
  BY HandleKeyFacts DEF NoChar, Backspace
<1>5. AfterByte(line, TRUE, sc) = line
  <2> DEFINE c == handle_extended(sc)
  <2>1. CharOf(TRUE, sc) = c /\ c \in Int /\ c <= 0
    BY <1>1, ExtendedFacts DEF CharOf
  <2> HIDE DEF c
  <2>2. c <= 127 /\ c < 32 /\ c # Backspace
    BY <2>1 DEF Backspace
  <2>3. gui_handle_key(line, c) = line
    BY <2>1, <2>2, HandleKeyFacts
  <2> QED
    BY <2>1, <2>3 DEF AfterByte
<1> QED
  BY <1>1, <1>2, <1>3, <1>4, <1>5

LEMMA Released ==
  ASSUME NEW line \in Line, NEW e0 \in BOOLEAN, NEW sc \in (0..127) \ {96}
  PROVE  /\ AfterByte(line, e0, sc + 128) = line
         /\ sc + 128 \in Byte /\ sc + 128 # Prefix
<1>1. sc + 128 \in Byte /\ sc + 128 # Prefix /\ sc + 128 >= 128
  BY DEF Byte, Prefix
<1>2. CharOf(e0, sc + 128) = NoChar
  BY <1>1, ExtendedFacts, PlainFacts DEF CharOf
<1> QED
  BY <1>1, <1>2 DEF AfterByte
-----------------------------------------------------------------------------
(* The bytes that wait in the controller, as a run of the driver and the   *)
(* line over them: it starts at `line' with the flag e0 and ends at `last' *)
(* with the flag `flag'.                                                   *)

FlagBefore(e0, bytes, i) == IF i = 1 THEN e0 ELSE bytes[i - 1] = Prefix

Decodes(line, e0, bytes, last, flag) ==
  /\ \E lines \in [0..Len(bytes) -> Line] :
       /\ lines[0] = line
       /\ lines[Len(bytes)] = last
       /\ \A i \in 1..Len(bytes) :
            lines[i] = AfterByte(lines[i - 1], FlagBefore(e0, bytes, i), bytes[i])
  /\ flag = FlagBefore(e0, bytes, Len(bytes) + 1)

LEMMA DecodeEmpty ==
  ASSUME NEW line \in Line, NEW e0 \in BOOLEAN
  PROVE  Decodes(line, e0, <<>>, line, e0)
<1> DEFINE lines == [i \in 0..0 |-> line]
<1>1. Len(<<>>) = 0
  BY EmptySeq
<1>2. lines \in [0..Len(<<>>) -> Line] /\ lines[0] = line /\ lines[Len(<<>>)] = line
  BY <1>1
<1>3. \A i \in 1..Len(<<>>) : FALSE
  BY <1>1
<1>4. e0 = FlagBefore(e0, <<>>, Len(<<>>) + 1)
  BY <1>1 DEF FlagBefore
<1> HIDE DEF lines
<1> QED
  BY <1>2, <1>3, <1>4 DEF Decodes

(* A byte joins the end. *)
LEMMA DecodeAppend ==
  ASSUME NEW line, NEW e0 \in BOOLEAN, NEW bytes \in Seq(Byte), NEW last, NEW flag,
         NEW b \in Byte, Decodes(line, e0, bytes, last, flag)
  PROVE  /\ Decodes(line, e0, Append(bytes, b), AfterByte(last, flag, b), b = Prefix)
         /\ last \in Line /\ flag \in BOOLEAN
<1> DEFINE n == Len(bytes)
           more == Append(bytes, b)
<1>1. n \in Nat /\ Len(more) = n + 1 /\ more[n + 1] = b /\ \A i \in 1..n : more[i] = bytes[i]
  BY AppendProperties
<1>2. PICK lines \in [0..n -> Line] :
        /\ lines[0] = line /\ lines[n] = last
        /\ \A i \in 1..n : lines[i] = AfterByte(lines[i - 1], FlagBefore(e0, bytes, i), bytes[i])
  BY DEF Decodes
<1>3. flag = FlagBefore(e0, bytes, n + 1) /\ flag \in BOOLEAN
  BY DEF Decodes, FlagBefore
<1>4. last \in Line
  BY <1>1, <1>2
<1> DEFINE new == [i \in 0..(n + 1) |-> IF i = n + 1 THEN AfterByte(last, flag, b) ELSE lines[i]]
<1> HIDE DEF more, n
<1>5. AfterByte(last, flag, b) \in Line
  BY <1>3, <1>4, AfterByteFacts
<1>6. new \in [0..(n + 1) -> Line]
  <2>1. \A i \in 0..(n + 1) : i = n + 1 \/ i \in 0..n
    BY <1>1
  <2> QED
    BY <1>2, <1>5, <2>1
<1>7. new[n + 1] = AfterByte(last, flag, b) /\ \A i \in 0..n : new[i] = lines[i]
  BY <1>1
<1> HIDE DEF new
<1>8. new[0] = line
  BY <1>1, <1>2, <1>7
<1>9. \A i \in 1..(n + 1) : FlagBefore(e0, more, i) = FlagBefore(e0, bytes, i)
  <2> SUFFICES ASSUME NEW i \in 1..(n + 1), i # 1 PROVE more[i - 1] = bytes[i - 1]
    BY DEF FlagBefore
  <2>1. i - 1 \in 1..n
    BY <1>1
  <2> QED
    BY <1>1, <2>1
<1>10. ASSUME NEW i \in 1..(n + 1)
       PROVE  new[i] = AfterByte(new[i - 1], FlagBefore(e0, more, i), more[i])
  <2>1. CASE i = n + 1
    <3>1. i - 1 = n /\ n \in 0..n
      BY <1>1, <2>1
    <3>2. new[i - 1] = last /\ FlagBefore(e0, more, i) = flag /\ more[i] = b
      BY <1>1, <1>2, <1>3, <1>7, <1>9, <2>1, <3>1 DEF n
    <3> QED
      BY <1>7, <2>1, <3>2
  <2>2. CASE i # n + 1
    <3>1. i \in 1..n /\ i \in 0..n /\ i - 1 \in 0..n
      BY <1>1, <2>2
    <3>2. new[i - 1] = lines[i - 1] /\ new[i] = lines[i] /\ more[i] = bytes[i]
      BY <1>1, <1>7, <3>1
    <3> QED
      BY <1>2, <1>9, <3>1, <3>2
  <2> QED
    BY <2>1, <2>2
<1>11. (b = Prefix) = FlagBefore(e0, more, Len(more) + 1)
  <2>1. Len(more) + 1 # 1 /\ (Len(more) + 1) - 1 = n + 1
    BY <1>1
  <2> QED
    BY <1>1, <2>1 DEF FlagBefore
<1>12. Decodes(line, e0, more, AfterByte(last, flag, b), b = Prefix)
  BY <1>1, <1>6, <1>7, <1>8, <1>10, <1>11 DEF Decodes
<1> QED
  BY <1>3, <1>4, <1>12 DEF more

(* The driver takes the first byte. *)
LEMMA DecodeHead ==
  ASSUME NEW line, NEW e0 \in BOOLEAN, NEW bytes \in Seq(Byte), bytes # <<>>, NEW last, NEW flag,
         Decodes(line, e0, bytes, last, flag)
  PROVE  Decodes(AfterByte(line, e0, Head(bytes)), Head(bytes) = Prefix, Tail(bytes), last, flag)
<1> DEFINE n == Len(bytes)
           rest == Tail(bytes)
<1>1. /\ n \in Nat /\ n > 0 /\ Len(rest) = n - 1 /\ Head(bytes) = bytes[1]
      /\ \A i \in 1..(n - 1) : rest[i] = bytes[i + 1]
  BY EmptySeq, HeadTailProperties
<1>2. PICK lines \in [0..n -> Line] :
        /\ lines[0] = line /\ lines[n] = last
        /\ \A i \in 1..n : lines[i] = AfterByte(lines[i - 1], FlagBefore(e0, bytes, i), bytes[i])
  BY DEF Decodes
<1>3. flag = FlagBefore(e0, bytes, n + 1)
  BY DEF Decodes
<1> DEFINE new == [i \in 0..(n - 1) |-> lines[i + 1]]
           f0 == bytes[1] = Prefix
<1> HIDE DEF n, rest
<1>4. \A i \in 0..(n - 1) : i + 1 \in 0..n /\ i + 1 \in 1..n
  BY <1>1
<1>5. new \in [0..(n - 1) -> Line] /\ \A i \in 0..(n - 1) : new[i] = lines[i + 1]
  BY <1>2, <1>4
<1> HIDE DEF new
<1>6. lines[1] = AfterByte(line, e0, bytes[1])
  <2>1. 1 \in 1..n /\ 1 - 1 = 0
    BY <1>1
  <2>2. lines[1] = AfterByte(lines[1 - 1], FlagBefore(e0, bytes, 1), bytes[1])
    BY <1>2, <2>1
  <2> QED
    BY <1>2, <2>1, <2>2 DEF FlagBefore
<1>7. new[0] = AfterByte(line, e0, bytes[1]) /\ new[n - 1] = last
  <2>1. 0 \in 0..(n - 1) /\ n - 1 \in 0..(n - 1) /\ 0 + 1 = 1 /\ (n - 1) + 1 = n
    BY <1>1
  <2>2. new[0] = lines[0 + 1] /\ new[n - 1] = lines[(n - 1) + 1]
    BY <1>5, <2>1
  <2> QED
    BY <1>2, <1>6, <2>1, <2>2
<1>8. \A i \in 1..n : FlagBefore(f0, rest, i) = FlagBefore(e0, bytes, i + 1)
  <2> SUFFICES ASSUME NEW i \in 1..n
               PROVE  FlagBefore(f0, rest, i) = FlagBefore(e0, bytes, i + 1)
    OBVIOUS
  <2>1. i + 1 # 1 /\ (i + 1) - 1 = i
    BY <1>1
  <2>2. CASE i = 1
    BY <2>1, <2>2 DEF FlagBefore
  <2>3. CASE i # 1
    <3>1. i - 1 \in 1..(n - 1) /\ (i - 1) + 1 = i
      BY <1>1, <2>3
    <3>2. rest[i - 1] = bytes[i]
      BY <1>1, <3>1
    <3> QED
      BY <2>1, <2>3, <3>2 DEF FlagBefore
  <2> QED
    BY <2>2, <2>3
<1>9. ASSUME NEW i \in 1..(n - 1)
      PROVE  new[i] = AfterByte(new[i - 1], FlagBefore(f0, rest, i), rest[i])
  <2>1. /\ i \in 1..n /\ i + 1 \in 1..n /\ i \in 0..(n - 1) /\ i - 1 \in 0..(n - 1)
        /\ (i - 1) + 1 = i /\ (i + 1) - 1 = i
    BY <1>1
  <2>2. lines[i + 1] = AfterByte(lines[(i + 1) - 1], FlagBefore(e0, bytes, i + 1), bytes[i + 1])
    BY <1>2, <2>1
  <2>3. new[i] = lines[i + 1] /\ new[i - 1] = lines[(i - 1) + 1]
    BY <1>5, <2>1
  <2> QED
    BY <1>1, <1>8, <2>1, <2>2, <2>3
<1>10. flag = FlagBefore(f0, rest, Len(rest) + 1)
  <2>1. Len(rest) + 1 = n /\ n \in 1..n
    BY <1>1
  <2> QED
    BY <1>3, <1>8, <2>1 DEF n
<1>11. Decodes(AfterByte(line, e0, bytes[1]), f0, rest, last, flag)
  <2> HIDE DEF f0
  <2> QED
    BY <1>1, <1>5, <1>7, <1>9, <1>10 DEF Decodes
<1> QED
  BY <1>1, <1>11 DEF rest
-----------------------------------------------------------------------------
TaskName == {"idle", "shell", "gui"}

LEMMA TaskFacts == Len(Tasks) = 3 /\ \A i \in 1..3 : Tasks[i] \in TaskName
<1>1. Tasks[1] = "idle" /\ Tasks[2] = "shell" /\ Tasks[3] = "gui"
  BY DEF Tasks
<1>2. \A i \in 1..3 : i = 1 \/ i = 2 \/ i = 3
  OBVIOUS
<1>3. Len(Tasks) = 3
  BY DEF Tasks
<1> QED
  BY <1>1, <1>2, <1>3 DEF TaskName

(* The inductive invariant: the bytes that the controller still holds lead *)
(* from the line the GUI has to the line the user expects, and the picture *)
(* is that of the line.                                                    *)
IInv ==
  /\ TypeOK
  /\ ready \in Seq(TaskName)
  /\ text \in Line /\ typed \in Line
  /\ fb = redraw(fb_clear(White), text)
  /\ Decodes(text, have_e0, kbd, typed, FALSE)

LEMMA InitInv == Init => IInv
<1> SUFFICES ASSUME Init PROVE IInv
  OBVIOUS
<1>1. /\ kbd = <<>> /\ have_e0 = FALSE /\ ready = <<>> /\ turn = 0 /\ text = <<>>
      /\ fb = redraw(fb_clear(White), <<>>) /\ pressed = <<>> /\ typed = <<>> /\ held = {}
  BY DEF Init, CPU!Init
<1>2. GUI_BUF_SIZE \in Nat \ {0} /\ KBD_SIZE \in Nat
  BY KernelAssumption
<1>3. Len(<<>>) = 0 /\ <<>> \in Seq(Printable) /\ <<>> \in Seq(Byte) /\ <<>> \in Seq(TaskName) /\ <<>> \in Seq(Key)
  OBVIOUS
<1>4. <<>> \in Line
  BY <1>2, <1>3 DEF Line
<1>5. Decodes(<<>>, FALSE, <<>>, <<>>, FALSE)
  BY <1>4, DecodeEmpty
<1>6. TypeOK
  <2>1. kbd \in Seq(Byte) /\ Len(kbd) <= KBD_SIZE
    BY <1>1, <1>2, <1>3
  <2>2. have_e0 \in BOOLEAN
    BY <1>1, Zenon
  <2>3. turn \in 0..Len(ready) /\ Len(ready) <= Len(Tasks)
    BY <1>1, <1>3, TaskFacts
  <2>4. text \in Seq(Printable) /\ Len(text) <= GUI_BUF_SIZE - 1
    BY <1>1, <1>2, <1>3
  <2>5. typed \in Seq(Printable) /\ pressed \in Seq(Key) /\ held \subseteq Key
    BY <1>1, <1>3
  <2> QED
    BY <2>1, <2>2, <2>3, <2>4, <2>5 DEF TypeOK
<1> QED
  BY <1>1, <1>3, <1>4, <1>5, <1>6 DEF IInv

(* The run queue and the turn. *)
LEMMA PassFacts ==
  ASSUME IInv, CPU!Pass
  PROVE  /\ ready' \in Seq(TaskName) /\ Len(ready') <= Len(Tasks)
         /\ turn' \in 0..Len(ready')
<1>1. ready' = ready /\ turn' = IF turn = Len(ready) THEN 1 ELSE turn + 1
  BY DEF CPU!Pass
<1>2. ready \in Seq(TaskName) /\ Len(ready) \in Nat /\ turn \in 0..Len(ready) /\ turn # 0
  BY DEF IInv, TypeOK, CPU!Pass
<1>3. turn' \in 0..Len(ready)
  BY <1>1, <1>2
<1> QED
  BY <1>1, <1>2, <1>3 DEF IInv, TypeOK

LEMMA MainInv == IInv /\ kmain => IInv'
<1> SUFFICES ASSUME IInv, kmain PROVE IInv'
  OBVIOUS
<1> DEFINE n == Len(ready)
<1>1. ready \in Seq(TaskName) /\ n \in Nat /\ n <= 3 /\ turn = 0 /\ Len(Tasks) = 3
  BY TaskFacts DEF IInv, TypeOK, kmain
<1>2. /\ ready' \in Seq(TaskName) /\ Len(ready') <= Len(Tasks)
      /\ turn' \in 0..Len(ready')
  <2>1. CASE n < Len(Tasks) /\ ready' = Append(ready, Tasks[n + 1]) /\ UNCHANGED turn
    <3>1. n + 1 \in 1..3
      BY <1>1, <2>1
    <3>2. Tasks[n + 1] \in TaskName
      BY <3>1, TaskFacts
    <3>3. ready' \in Seq(TaskName) /\ Len(ready') = n + 1
      BY <1>1, <2>1, <3>2, AppendProperties
    <3>4. turn' = 0 /\ n + 1 <= 3
      BY <1>1, <2>1
    <3> QED
      BY <1>1, <3>3, <3>4
  <2>2. CASE n = Len(Tasks) /\ CPU!Begin
    <3>1. ready' = ready /\ turn' = 1
      BY <2>2 DEF CPU!Begin
    <3>2. n = 3 /\ 1 \in 0..n
      BY <1>1, <2>2
    <3>3. turn' \in 0..Len(ready') /\ Len(ready') <= Len(Tasks)
      BY <1>1, <3>1, <3>2
    <3> QED
      BY <1>1, <3>1, <3>3
  <2> QED
    BY <2>1, <2>2 DEF kmain
<1>3. UNCHANGED <<kbd, have_e0, text, fb, pressed, typed, held>>
  BY DEF kmain, guiVars
<1>4. TypeOK'
  BY <1>2, <1>3 DEF IInv, TypeOK
<1> QED
  BY <1>2, <1>3, <1>4 DEF IInv

LEMMA IdleInv == IInv /\ (idle_task \/ shell_task) => IInv'
<1> SUFFICES ASSUME IInv, idle_task \/ shell_task PROVE IInv'
  OBVIOUS
<1>1. CPU!Pass /\ UNCHANGED <<kbd, have_e0, text, fb, pressed, typed, held>>
  BY DEF idle_task, shell_task, guiVars
<1>2. /\ ready' \in Seq(TaskName) /\ Len(ready') <= Len(Tasks)
      /\ turn' \in 0..Len(ready')
  BY <1>1, PassFacts
<1>3. TypeOK'
  BY <1>1, <1>2 DEF IInv, TypeOK
<1> QED
  BY <1>1, <1>2, <1>3 DEF IInv

LEMMA GuiInv == IInv /\ gui_task => IInv'
<1> SUFFICES ASSUME IInv, gui_task PROVE IInv'
  OBVIOUS
<1>1. CPU!Pass /\ UNCHANGED <<pressed, typed, held>>
  BY DEF gui_task
<1>2. /\ ready' \in Seq(TaskName) /\ Len(ready') <= Len(Tasks)
      /\ turn' \in 0..Len(ready')
  BY <1>1, PassFacts
<1>3. kbd \in Seq(Byte) /\ Len(kbd) <= KBD_SIZE /\ KBD_SIZE \in Nat /\ have_e0 \in BOOLEAN /\ text \in Line
  BY KernelAssumption DEF IInv, TypeOK
<1>4. CASE kbd = <<>>
  <2>1. UNCHANGED <<kbd, have_e0>>
    BY <1>4 DEF gui_task, keyboard_read_char
  <2>2. UNCHANGED <<text, fb>>
    BY <1>4 DEF gui_task, CharRead, guiVars
  <2>3. TypeOK'
    BY <1>1, <1>2, <2>1, <2>2 DEF IInv, TypeOK
  <2> QED
    BY <1>1, <1>2, <2>1, <2>2, <2>3 DEF IInv
<1>5. CASE kbd # <<>>
  <2>1. kbd' = Tail(kbd) /\ have_e0' = (Head(kbd) = Prefix)
    BY <1>5 DEF gui_task, keyboard_read_char
  <2>2. /\ Head(kbd) \in Byte /\ Tail(kbd) \in Seq(Byte) /\ Len(kbd) \in Nat
        /\ Len(Tail(kbd)) = Len(kbd) - 1
    BY <1>3, <1>5, HeadTailProperties
  <2>3. CharRead = CharOf(have_e0, Head(kbd))
    BY <1>5 DEF CharRead, CharOf
  <2>4. text' = AfterByte(text, have_e0, Head(kbd))
    BY <2>3 DEF gui_task, guiVars, AfterByte
  <2>5. fb' = redraw(fb_clear(White), text')
    <3>1. CASE UNCHANGED guiVars
      BY <3>1 DEF IInv, guiVars
    <3>2. CASE fb' = redraw(fb, text')
      BY <3>2 DEF redraw
    <3> QED
      BY <3>1, <3>2 DEF gui_task
  <2>6. text' \in Line
    BY <1>3, <2>2, <2>4, AfterByteFacts
  <2>7. Decodes(text', have_e0', kbd', typed', FALSE)
    <3>1. Decodes(text, have_e0, kbd, typed, FALSE)
      BY DEF IInv
    <3> QED
      BY <1>1, <1>3, <1>5, <2>1, <2>4, <3>1, DecodeHead
  <2>8. kbd' \in Seq(Byte) /\ Len(kbd') <= KBD_SIZE /\ have_e0' \in BOOLEAN
    BY <1>3, <2>1, <2>2
  <2>9. text' \in Seq(Printable) /\ Len(text') <= GUI_BUF_SIZE - 1
    BY <2>6 DEF Line
  <2>10. TypeOK'
    BY <1>1, <1>2, <2>8, <2>9 DEF IInv, TypeOK
  <2>11. typed' \in Line
    BY <1>1 DEF IInv
  <2> QED
    BY <1>2, <2>5, <2>6, <2>7, <2>10, <2>11 DEF IInv
<1> QED
  BY <1>4, <1>5

(* One byte or two join the end of what the controller holds. *)
LEMMA ByteJoins ==
  ASSUME NEW bytes \in Seq(Byte), NEW b \in Byte
  PROVE  bytes \o <<b>> = Append(bytes, b) /\ Append(bytes, b) \in Seq(Byte)
  BY AppendIsConcat, AppendProperties

LEMMA TwoBytesJoin ==
  ASSUME NEW bytes \in Seq(Byte), NEW a \in Byte, NEW b \in Byte
  PROVE  bytes \o <<a, b>> = Append(Append(bytes, a), b)
<1>1. <<a>> \in Seq(Byte) /\ <<b>> \in Seq(Byte)
  OBVIOUS
<1>2. <<a, b>> = <<a>> \o <<b>>
  <2>1. <<a>> \o <<b>> = Append(<<a>>, b)
    BY <1>1, ByteJoins
  <2>2. Append(<<a>>, b) \in Seq(Byte) /\ <<a, b>> \in Seq(Byte)
    BY <1>1, AppendProperties
  <2>3. /\ Len(Append(<<a>>, b)) = 2 /\ Append(<<a>>, b)[1] = a /\ Append(<<a>>, b)[2] = b
        /\ Len(<<a, b>>) = 2 /\ <<a, b>>[1] = a /\ <<a, b>>[2] = b
    BY <1>1, AppendProperties
  <2>4. \A i \in 1..2 : Append(<<a>>, b)[i] = <<a, b>>[i]
    <3>1. \A i \in 1..2 : i = 1 \/ i = 2
      OBVIOUS
    <3> QED
      BY <2>3, <3>1
  <2>5. <<a, b>> = Append(<<a>>, b)
    BY <2>2, <2>3, <2>4, SeqEqual
  <2> QED
    BY <2>1, <2>5
<1>3. (bytes \o <<a>>) \o <<b>> = bytes \o (<<a>> \o <<b>>)
  BY <1>1, ConcatAssociative
<1>4. bytes \o <<a>> = Append(bytes, a) /\ Append(bytes, a) \in Seq(Byte)
  BY ByteJoins
<1>5. Append(bytes, a) \o <<b>> = Append(Append(bytes, a), b)
  BY <1>4, ByteJoins
<1> QED
  BY <1>2, <1>3, <1>4, <1>5

(* A byte that is not the prefix, and the prefix, join the end. *)
LEMMA DecodeCode ==
  ASSUME NEW line, NEW e0 \in BOOLEAN, NEW bytes \in Seq(Byte), NEW last, NEW flag,
         NEW b \in Byte, b # Prefix, Decodes(line, e0, bytes, last, flag),
         NEW new, new = AfterByte(last, flag, b)
  PROVE  Decodes(line, e0, Append(bytes, b), new, FALSE)
<1>1. Decodes(line, e0, Append(bytes, b), AfterByte(last, flag, b), b = Prefix)
  BY DecodeAppend
<1>2. (b = Prefix) = FALSE
  OBVIOUS
<1>3. Decodes(line, e0, Append(bytes, b), AfterByte(last, flag, b), FALSE)
  BY <1>1, <1>2, Zenon
<1> QED
  BY <1>3, Zenon

LEMMA DecodePrefix ==
  ASSUME NEW line, NEW e0 \in BOOLEAN, NEW bytes \in Seq(Byte), NEW last,
         Decodes(line, e0, bytes, last, FALSE)
  PROVE  /\ Decodes(line, e0, Append(bytes, Prefix), last, TRUE)
         /\ Append(bytes, Prefix) \in Seq(Byte)
         /\ Len(Append(bytes, Prefix)) = Len(bytes) + 1
<1>1. Prefix \in Byte /\ AfterByte(last, FALSE, Prefix) = last
  BY DEF Prefix, Byte, AfterByte, CharOf
<1>2. Decodes(line, e0, Append(bytes, Prefix), AfterByte(last, FALSE, Prefix), Prefix = Prefix)
  BY <1>1, DecodeAppend
<1>3. (Prefix = Prefix) = TRUE
  OBVIOUS
<1>4. Decodes(line, e0, Append(bytes, Prefix), AfterByte(last, FALSE, Prefix), TRUE)
  BY <1>2, <1>3, Zenon
<1>5. Decodes(line, e0, Append(bytes, Prefix), last, TRUE)
  BY <1>1, <1>4, Zenon
<1> QED
  BY <1>1, <1>5, AppendProperties

(* A key that is pressed or released. *)
LEMMA MakeDecodes ==
  ASSUME NEW line, NEW e0 \in BOOLEAN, NEW bytes \in Seq(Byte), NEW last \in Line, NEW k \in Key,
         Decodes(line, e0, bytes, last, FALSE)
  PROVE  /\ Decodes(line, e0, bytes \o Make[k], TypeOn(last, Meaning(k)), FALSE)
         /\ bytes \o Make[k] \in Seq(Byte) /\ Len(bytes \o Make[k]) = Len(bytes) + Len(Make[k])
         /\ TypeOn(last, Meaning(k)) \in Line
<1>1. PICK sc \in (0..127) \ {96} : Make[k] = <<sc>> \/ Make[k] = <<Prefix, sc>>
  BY KernelAssumption
<1>2. CASE Make[k] = <<sc>>
  <2>1. AfterByte(last, FALSE, sc) = TypeOn(last, Meaning(k)) /\ sc \in Byte /\ sc # Prefix
    BY <1>2, PlainKey
  <2>2. Decodes(line, e0, Append(bytes, sc), TypeOn(last, Meaning(k)), FALSE)
    BY <2>1, DecodeCode
  <2>3. TypeOn(last, Meaning(k)) \in Line
    BY <2>1, AfterByteFacts
  <2>4. bytes \o Make[k] = Append(bytes, sc) /\ Append(bytes, sc) \in Seq(Byte)
    BY <1>2, <2>1, ByteJoins
  <2>5. Len(Append(bytes, sc)) = Len(bytes) + Len(Make[k])
    BY <1>2, <2>1, AppendProperties
  <2> QED
    BY <2>2, <2>3, <2>4, <2>5
<1>3. CASE Make[k] = <<Prefix, sc>>
  <2>1. /\ AfterByte(last, FALSE, Prefix) = last /\ AfterByte(last, TRUE, sc) = last
        /\ TypeOn(last, Meaning(k)) = last
        /\ Prefix \in Byte /\ sc \in Byte /\ sc # Prefix
    BY <1>3, PrefixedKey
  <2> DEFINE more == Append(bytes, Prefix)
  <2>2. Decodes(line, e0, more, last, TRUE) /\ more \in Seq(Byte) /\ Len(more) = Len(bytes) + 1
    BY DecodePrefix
  <2>3. bytes \o Make[k] = Append(more, sc)
    BY <1>3, <2>1, TwoBytesJoin
  <2> HIDE DEF more
  <2>4. Decodes(line, e0, Append(more, sc), last, FALSE)
    BY <2>1, <2>2, DecodeCode
  <2>5. Append(more, sc) \in Seq(Byte) /\ Len(Append(more, sc)) = Len(more) + 1
    BY <2>1, <2>2, AppendProperties
  <2>6. Len(Make[k]) = 2 /\ Len(bytes) \in Nat
    BY <1>3
  <2>7. Len(Append(more, sc)) = Len(bytes) + Len(Make[k])
    BY <2>2, <2>5, <2>6
  <2>8. Decodes(line, e0, bytes \o Make[k], TypeOn(last, Meaning(k)), FALSE)
    BY <2>1, <2>3, <2>4, Zenon
  <2> QED
    BY <2>1, <2>3, <2>5, <2>7, <2>8
<1> QED
  BY <1>1, <1>2, <1>3

LEMMA BreakDecodes ==
  ASSUME NEW line, NEW e0 \in BOOLEAN, NEW bytes \in Seq(Byte), NEW last \in Line, NEW k \in Key,
         Decodes(line, e0, bytes, last, FALSE)
  PROVE  /\ Decodes(line, e0, bytes \o Break[k], last, FALSE)
         /\ bytes \o Break[k] \in Seq(Byte) /\ Len(bytes \o Break[k]) = Len(bytes) + Len(Break[k])
<1>1. PICK sc \in (0..127) \ {96} : Break[k] = <<sc + 128>> \/ Break[k] = <<Prefix, sc + 128>>
  BY KernelAssumption
<1> DEFINE up == sc + 128
<1>2. AfterByte(last, FALSE, up) = last /\ AfterByte(last, TRUE, up) = last /\ up \in Byte /\ up # Prefix
  BY Released
<1> HIDE DEF up
<1>4. CASE Break[k] = <<up>>
  <2>1. Decodes(line, e0, Append(bytes, up), last, FALSE)
    BY <1>2, DecodeCode
  <2>2. bytes \o Break[k] = Append(bytes, up) /\ Append(bytes, up) \in Seq(Byte)
    BY <1>2, <1>4, ByteJoins
  <2>3. Len(Append(bytes, up)) = Len(bytes) + Len(Break[k])
    BY <1>2, <1>4, AppendProperties
  <2> QED
    BY <2>1, <2>2, <2>3
<1>5. CASE Break[k] = <<Prefix, up>>
  <2> DEFINE more == Append(bytes, Prefix)
  <2>1. Decodes(line, e0, more, last, TRUE) /\ more \in Seq(Byte) /\ Len(more) = Len(bytes) + 1
    BY DecodePrefix
  <2>2. bytes \o Break[k] = Append(more, up)
    <3>1. Prefix \in Byte
      BY DEF Prefix, Byte
    <3> QED
      BY <1>2, <1>5, <3>1, TwoBytesJoin
  <2> HIDE DEF more
  <2>3. Decodes(line, e0, Append(more, up), last, FALSE)
    BY <1>2, <2>1, DecodeCode
  <2>4. Append(more, up) \in Seq(Byte) /\ Len(Append(more, up)) = Len(more) + 1
    BY <1>2, <2>1, AppendProperties
  <2>5. Len(Break[k]) = 2 /\ Len(bytes) \in Nat
    BY <1>5
  <2>6. Len(Append(more, up)) = Len(bytes) + Len(Break[k])
    BY <2>1, <2>4, <2>5
  <2>7. Decodes(line, e0, bytes \o Break[k], last, FALSE)
    BY <2>2, <2>3, Zenon
  <2> QED
    BY <2>2, <2>4, <2>6, <2>7
<1> QED
  BY <1>1, <1>4, <1>5 DEF up

LEMMA PressInv ==
  ASSUME IInv, NEW k \in Key, PressKey(k)
  PROVE  IInv'
<1>1. /\ kbd' = kbd \o Make[k] /\ Len(kbd) + Len(Make[k]) <= KBD_SIZE
      /\ pressed' = Append(pressed, k) /\ typed' = TypeOn(typed, Meaning(k))
      /\ held' = held \cup {k} /\ UNCHANGED <<have_e0, ready, turn, text, fb>>
  BY DEF PressKey, guiVars
<1>2. /\ kbd \in Seq(Byte) /\ have_e0 \in BOOLEAN /\ typed \in Line
      /\ Decodes(text, have_e0, kbd, typed, FALSE)
  BY DEF IInv, TypeOK
<1>3. /\ Decodes(text, have_e0, kbd', typed', FALSE) /\ kbd' \in Seq(Byte)
      /\ Len(kbd') <= KBD_SIZE /\ typed' \in Line
  <2>1. /\ Decodes(text, have_e0, kbd \o Make[k], TypeOn(typed, Meaning(k)), FALSE)
        /\ kbd \o Make[k] \in Seq(Byte) /\ Len(kbd \o Make[k]) = Len(kbd) + Len(Make[k])
        /\ TypeOn(typed, Meaning(k)) \in Line
    BY <1>2, MakeDecodes
  <2> QED
    BY <1>1, <2>1
<1>4. pressed' \in Seq(Key)
  BY <1>1, AppendProperties DEF IInv, TypeOK
<1>5. typed' \in Seq(Printable)
  BY <1>3 DEF Line
<1>6. TypeOK'
  BY <1>1, <1>3, <1>4, <1>5 DEF IInv, TypeOK
<1> QED
  BY <1>1, <1>3, <1>6 DEF IInv

LEMMA ReleaseInv ==
  ASSUME IInv, NEW k \in Key, ReleaseKey(k)
  PROVE  IInv'
<1>1. /\ kbd' = kbd \o Break[k] /\ Len(kbd) + Len(Break[k]) <= KBD_SIZE
      /\ held' = held \ {k} /\ UNCHANGED <<have_e0, ready, turn, text, fb, pressed, typed>>
  BY DEF ReleaseKey, guiVars
<1>2. /\ kbd \in Seq(Byte) /\ have_e0 \in BOOLEAN /\ typed \in Line
      /\ Decodes(text, have_e0, kbd, typed, FALSE)
  BY DEF IInv, TypeOK
<1>3. /\ Decodes(text, have_e0, kbd', typed, FALSE) /\ kbd' \in Seq(Byte)
      /\ Len(kbd') <= KBD_SIZE
  BY <1>1, <1>2, BreakDecodes
<1>4. TypeOK'
  BY <1>1, <1>3 DEF IInv, TypeOK
<1> QED
  BY <1>1, <1>3, <1>4 DEF IInv

THEOREM Invariance == Spec => []IInv
<1>1. Init => IInv
  BY InitInv
<1>2. IInv /\ [Next]_vars => IInv'
  <2> SUFFICES ASSUME IInv, [Next]_vars PROVE IInv'
    OBVIOUS
  <2>1. CASE CPUStep
    BY <2>1, MainInv, IdleInv, GuiInv DEF CPUStep
  <2>2. CASE \E k \in Key : PressKey(k) \/ ReleaseKey(k)
    BY <2>2, PressInv, ReleaseInv
  <2>3. CASE UNCHANGED vars
    <3>1. UNCHANGED <<kbd, have_e0, ready, turn, text, fb, pressed, typed, held>>
      BY <2>3 DEF vars, guiVars
    <3>2. TypeOK'
      BY <3>1 DEF IInv, TypeOK
    <3> QED
      BY <3>1, <3>2 DEF IInv
  <2> QED
    BY <2>1, <2>2, <2>3 DEF Next
<1> QED
  BY <1>1, <1>2, PTL DEF Spec

(* Type correctness: the controller's bytes, the queue and the line stay   *)
(* within their bounds, whatever is typed.                                 *)
THEOREM Types == Spec => []TypeOK
<1>1. IInv => TypeOK
  BY DEF IInv
<1> QED
  BY <1>1, Invariance, PTL

(* Whenever every byte of the keyboard has been read, the GUI's line is    *)
(* what the keys pressed so far should leave, in whatever order presses,   *)
(* releases and polls came (keyboard_read_char, gui_handle_key).           *)
THEOREM LineTyped == Spec => []LineIsWhatWasTyped
<1>1. IInv => LineIsWhatWasTyped
  <2> SUFFICES ASSUME IInv, kbd = <<>> PROVE text = typed
    BY DEF LineIsWhatWasTyped
  <2>1. Len(kbd) = 0 /\ Decodes(text, have_e0, kbd, typed, FALSE)
    BY EmptySeq DEF IInv
  <2> QED
    BY <2>1 DEF Decodes
<1> QED
  BY <1>1, Invariance, PTL

(* The picture is always that of the line: within the screen, centred,     *)
(* one cell for each character and no trace of an earlier line (redraw,    *)
(* fb_draw_char), for every font and every size of screen and buffer.      *)
THEOREM Picture == Spec => []PictureShowsLine
<1>1. IInv => PictureShowsLine
  <2> SUFFICES ASSUME IInv PROVE PictureShowsLine
    OBVIOUS
  <2> DEFINE left == start_x(text)
             right == FB_WIDTH - left - GLYPH * Len(text)
  <2>1. text \in Seq(Printable) /\ Len(text) <= GUI_BUF_SIZE - 1 /\ fb = redraw(fb_clear(White), text)
    BY DEF IInv, TypeOK
  <2>2. Len(text) * GLYPH <= FB_WIDTH
    <3> DEFINE n == Len(text)
               m == GUI_BUF_SIZE - 1
    <3>1. n \in Nat /\ m \in Nat /\ n <= m /\ GLYPH \in Nat /\ FB_WIDTH \in Nat /\ m * GLYPH <= FB_WIDTH
      BY <2>1, KernelAssumption, FramebufferAssumption
    <3> HIDE DEF n, m
    <3>2. (m - n) * GLYPH >= 0 /\ (m - n) * GLYPH = m * GLYPH - n * GLYPH
      BY <3>1
    <3>3. n * GLYPH \in Int /\ m * GLYPH \in Int
      BY <3>1
    <3> QED
      BY <3>1, <3>2, <3>3 DEF n
  <2>3. left \in 0..FB_WIDTH /\ right >= 0 /\ left - right \in -1..1
    BY <2>1, <2>2, Geometry
  <2>4. ASSUME NEW x \in 0..(FB_WIDTH - 1), NEW y \in 0..(FB_HEIGHT - 1)
        PROVE  fb[WordAt(x, y)] = Black <=>
                 /\ CellOf(text, x) \in 1..Len(text)
                 /\ <<y - (baseline - GLYPH), ColumnOf(text, x)>> \in font8x8_basic[text[CellOf(text, x)]]
    <3>1. x \in Int /\ y \in Int
      BY FramebufferAssumption
    <3>2. fb[WordAt(x, y)] = Black <=> <<x, y>> \in Points(text)
      BY <2>1, RedrawFacts
    <3> QED
      BY <2>1, <3>1, <3>2, PointsFacts
  <2> QED
    BY <2>3, <2>4 DEF PictureShowsLine, CellOf, ColumnOf
<1> QED
  BY <1>1, Invariance, PTL
=============================================================================
