----------------------------- MODULE HmiProofs ------------------------------
(***************************************************************************)
(* Proofs about the panes and about the text interface.                    *)
(***************************************************************************)
EXTENDS Hmi, PaneCalls, SelectionProofs

(* Induction up to n over a set of numbers. *)
LEMMA UpTo ==
  ASSUME NEW n \in Nat, NEW T, 0 \in T, \A i \in 1..n : i - 1 \in T => i \in T
  PROVE  \A i \in 0..n : i \in T
<1> DEFINE Bad == {i \in 0..n : i \notin T}
<1> SUFFICES ASSUME Bad # {} PROVE FALSE
  OBVIOUS
<1>1. PICK m \in Bad : \A i \in Bad : m <= i
  <2>1. Bad \in SUBSET Nat
    OBVIOUS
  <2> HIDE DEF Bad
  <2> QED
    BY <2>1, LeastNatural
<1>2. m \in 1..n /\ m - 1 \in 0..n /\ ~(m <= m - 1)
  BY <1>1
<1>3. m - 1 \in T
  BY <1>1, <1>2
<1> QED
  BY <1>1, <1>2, <1>3

(* The bodies of loops of n rounds, in which round i takes s to g[i][s]. *)
Bodies(S, n) == [1..n -> [S -> S]]

LEMMA Rounds ==
  ASSUME NEW S, NEW s \in S, NEW n \in Nat, NEW g \in Bodies(S, n)
  PROVE  \E f \in [0..n -> S] : f[0] = s /\ \A i \in 1..n : f[i] = g[i][f[i - 1]]
<1> USE DEF Bodies
<1> DEFINE Goes(f, m) == f[0] = s /\ \A i \in 1..m : f[i] = g[i][f[i - 1]]
           T == {m \in 0..n : \E f \in [0..m -> S] : Goes(f, m)}
<1>1. 0 \in T
  <2> DEFINE f == [i \in 0..0 |-> s]
  <2>1. f \in [0..0 -> S] /\ f[0] = s /\ 1..0 = {} /\ 0 \in 0..n
    OBVIOUS
  <2> HIDE DEF f
  <2>2. Goes(f, 0)
    BY <2>1
  <2> QED
    BY <2>1, <2>2
<1>2. ASSUME NEW m \in 1..n, m - 1 \in T PROVE m \in T
  <2>1. PICK f \in [0..(m - 1) -> S] : Goes(f, m - 1)
    BY <1>2
  <2> DEFINE h == [i \in 0..m |-> IF i = m THEN g[m][f[m - 1]] ELSE f[i]]
  <2>2. /\ m - 1 \in 0..(m - 1) /\ m \in 0..m /\ 0 # m /\ 0 \in 0..m /\ 0 \in 0..(m - 1)
        /\ \A i \in 0..m : i # m => i \in 0..(m - 1)
        /\ \A i \in 1..m : i \in 0..m /\ i - 1 \in 0..m /\ i - 1 # m /\ i - 1 \in 0..(m - 1)
        /\ \A i \in 1..m : i # m => i \in 1..(m - 1) /\ i \in 0..(m - 1)
    OBVIOUS
  <2>3. g[m][f[m - 1]] \in S
    BY <2>2
  <2>4. h \in [0..m -> S]
    BY <2>2, <2>3
  <2>5. /\ h[m] = g[m][f[m - 1]] /\ h[0] = f[0]
        /\ \A i \in 0..m : i # m => h[i] = f[i]
    BY <2>2
  <2> HIDE DEF h
  <2>6. Goes(h, m)
    <3>1. ASSUME NEW i \in 1..m PROVE h[i] = g[i][h[i - 1]]
      <4>1. h[i - 1] = f[i - 1]
        BY <2>2, <2>5
      <4>2. CASE i = m
        BY <2>5, <4>1, <4>2
      <4>3. CASE i # m
        BY <2>1, <2>2, <2>5, <4>1, <4>3
      <4> QED
        BY <4>2, <4>3
    <3> QED
      BY <2>1, <2>5, <3>1
  <2>7. m \in 0..n
    OBVIOUS
  <2> QED
    BY <2>4, <2>6, <2>7
<1> HIDE DEF T
<1>3. n \in T
  <2>1. n \in 0..n
    OBVIOUS
  <2> QED
    BY <1>1, <1>2, <2>1, UpTo
<1> QED
  BY <1>3 DEF T
-----------------------------------------------------------------------------
(* Whatever is done to it, a console is a console.                         *)

Lines == [Col -> Int]

Con ==
  [screen : [Row -> Lines], vga : [Row -> Lines], scrollback : [0..(SCROLLBACK_LINES - 1) -> Lines],
   sb_start : 0..(SCROLLBACK_LINES - 1), sb_count : 0..SCROLLBACK_LINES, sb_view : 0..SCROLLBACK_LINES,
   cursor_x : Col, cursor_y : Row, hw : Int]

LEMMA Screen ==
  /\ VGA_COLS \in Nat /\ VGA_COLS >= 2 /\ VGA_ROWS \in Nat /\ VGA_ROWS >= 3
  /\ SCROLLBACK_LINES \in Nat \ {0}
  BY ConsoleAssumption

LEMMA Corner == 0 \in Col /\ 0 \in Row /\ VGA_COLS - 1 \in Col /\ VGA_ROWS - 1 \in Row
  BY Screen DEF Col, Row

LEMMA BlankTyped == Blank \in Int /\ BlankLine \in Lines
  BY DEF Lines, BlankLine, Blank, Coloured, Space

LEMMA CharTyped ==
  ASSUME NEW c \in Int
  PROVE  CharCell(c) \in Int
  BY DEF CharCell, Coloured

LEMMA UpdateTyped ==
  ASSUME NEW c \in Con
  PROVE  update_cursor(c) \in Con
<1> DEFINE h == c.cursor_y * VGA_COLS + c.cursor_x
<1>1. h \in Int
  BY Screen DEF Con, Row, Col
<1>2. update_cursor(c) = [c EXCEPT !.hw = h]
  BY DEF update_cursor
<1> HIDE DEF h
<1> QED
  BY <1>1, <1>2 DEF Con

LEMMA SlotTyped ==
  ASSUME NEW k \in Int
  PROVE  k % SCROLLBACK_LINES \in 0..(SCROLLBACK_LINES - 1)
  BY Screen

LEMMA PushTyped ==
  ASSUME NEW c \in Con, NEW line \in Lines
  PROVE  scrollback_push(c, line) \in Con
<1> DEFINE idx == (c.sb_start + c.sb_count) % SCROLLBACK_LINES
           full == c.sb_count = SCROLLBACK_LINES
           n == IF full THEN c.sb_count ELSE c.sb_count + 1
           a == IF full THEN (c.sb_start + 1) % SCROLLBACK_LINES ELSE c.sb_start
<1>1. c.sb_start \in Int /\ c.sb_count \in Int
  BY Screen DEF Con
<1>2. n \in 0..SCROLLBACK_LINES
  BY Screen DEF Con
<1>3. a \in 0..(SCROLLBACK_LINES - 1)
  <2>1. c.sb_start + 1 \in Int
    BY <1>1
  <2>2. (c.sb_start + 1) % SCROLLBACK_LINES \in 0..(SCROLLBACK_LINES - 1)
    BY <2>1, SlotTyped
  <2> QED
    BY <2>2 DEF Con
<1>4. [c.scrollback EXCEPT ![idx] = line] \in [0..(SCROLLBACK_LINES - 1) -> Lines]
  BY DEF Con
<1>5. scrollback_push(c, line) =
        [c EXCEPT !.scrollback = [c.scrollback EXCEPT ![idx] = line], !.sb_count = n, !.sb_start = a]
  BY DEF scrollback_push, Con
<1> HIDE DEF idx, full, n, a
<1> QED
  BY <1>2, <1>3, <1>4, <1>5 DEF Con

LEMMA RenderTyped ==
  ASSUME NEW c \in Con
  PROVE  render_view(c) \in Con
<1> DEFINE view == IF c.sb_view > c.sb_count THEN c.sb_count ELSE c.sb_view
           first == c.sb_count - view
           Shown(row) ==
             IF first + row < c.sb_count
             THEN Stored(c, first + row)
             ELSE IF first + row - c.sb_count < VGA_ROWS
                  THEN c.screen[first + row - c.sb_count]
                  ELSE BlankLine
           new == [row \in Row |-> Shown(row)]
<1>1. view \in 0..SCROLLBACK_LINES /\ first \in Int
  BY Screen DEF Con
<1>2. c.sb_count \in Int /\ c.sb_start \in Int
  BY Screen DEF Con
<1>3. ASSUME NEW row \in Row PROVE Shown(row) \in Lines
  <2>1. row \in Int
    BY Screen DEF Row
  <2> HIDE DEF view
  <2>2. CASE first + row < c.sb_count
    <3>1. (c.sb_start + (first + row)) % SCROLLBACK_LINES \in 0..(SCROLLBACK_LINES - 1)
      BY <1>1, <1>2, <2>1, SlotTyped
    <3> QED
      BY <2>2, <3>1 DEF Stored, Con
  <2>3. CASE ~(first + row < c.sb_count)
    <3> DEFINE y == first + row - c.sb_count
    <3>1. CASE y < VGA_ROWS
      <4>1. y \in Row
        BY <1>1, <1>2, <2>1, <2>3, <3>1, Screen DEF Row
      <4>2. c.screen[y] \in Lines
        BY <4>1 DEF Con
      <4> QED
        BY <2>3, <3>1, <4>2
    <3>2. CASE ~(y < VGA_ROWS)
      BY <2>3, <3>2, BlankTyped
    <3> QED
      BY <3>1, <3>2
  <2> QED
    BY <2>2, <2>3
<1>4. render_view(c) = update_cursor([c EXCEPT !.sb_view = view, !.vga = new])
  BY Zenon DEF render_view
<1> HIDE DEF Shown, view
<1>5. new \in [Row -> Lines]
  BY <1>3
<1> HIDE DEF new
<1>6. [c EXCEPT !.sb_view = view, !.vga = new] \in Con
  BY <1>1, <1>5 DEF Con
<1> QED
  BY <1>4, <1>6, UpdateTyped

LEMMA BottomTyped ==
  ASSUME NEW c \in Con
  PROVE  ensure_bottom(c) \in Con
<1>1. [c EXCEPT !.sb_view = 0] \in Con
  <2>1. 0 \in 0..SCROLLBACK_LINES
    BY Screen
  <2> QED
    BY <2>1 DEF Con
<1> QED
  BY <1>1, RenderTyped DEF ensure_bottom

LEMMA ScrollTyped ==
  ASSUME NEW c \in Con
  PROVE  scroll_screen(c) \in Con
<1> DEFINE p == scrollback_push(c, c.screen[0])
           new == [y \in Row |-> IF y < VGA_ROWS - 1 THEN c.screen[y + 1] ELSE BlankLine]
           d == [p EXCEPT !.screen = new]
<1>1. c.screen \in [Row -> Lines]
  BY DEF Con
<1>2. p \in Con
  BY <1>1, Corner, PushTyped
<1>3. \A y \in Row : y < VGA_ROWS - 1 => y + 1 \in Row
  BY Screen DEF Row
<1>4. new \in [Row -> Lines]
  BY <1>1, <1>3, BlankTyped
<1>5. scroll_screen(c) = IF d.sb_view = 0 THEN [d EXCEPT !.vga = d.screen] ELSE d
  BY DEF scroll_screen, Show
<1> HIDE DEF p, new
<1>6. d \in Con
  BY <1>2, <1>4 DEF Con
<1> HIDE DEF d
<1>7. [d EXCEPT !.vga = d.screen] \in Con
  BY <1>6 DEF Con
<1> QED
  BY <1>5, <1>6, <1>7

LEMMA CellTyped ==
  ASSUME NEW c \in Con, NEW x \in Col, NEW y \in Row, NEW cell \in Int
  PROVE  SetCell(c, x, y, cell) \in Con
<1> DEFINE new == [c.screen EXCEPT ![y][x] = cell]
           shown == [c.vga EXCEPT ![y][x] = cell]
           d == [c EXCEPT !.screen = new]
<1>1. c.screen \in [Row -> Lines] /\ c.vga \in [Row -> Lines]
  BY DEF Con
<1>2. new \in [Row -> Lines] /\ shown \in [Row -> Lines]
  BY <1>1 DEF Lines
<1>3. SetCell(c, x, y, cell) = IF c.sb_view = 0 THEN [d EXCEPT !.vga = shown] ELSE d
  BY DEF SetCell, Con
<1> HIDE DEF new, shown
<1>4. d \in Con
  BY <1>2 DEF Con
<1> HIDE DEF d
<1>5. [d EXCEPT !.vga = shown] \in Con
  BY <1>2, <1>4 DEF Con
<1> QED
  BY <1>3, <1>4, <1>5

LEMMA MoveTyped ==
  ASSUME NEW c \in Con, NEW x \in Col, NEW y \in Row
  PROVE  [c EXCEPT !.cursor_x = x, !.cursor_y = y] \in Con
  BY DEF Con

LEMMA NextLineTyped ==
  ASSUME NEW c \in Con
  PROVE  NextLine(c) \in Con
<1>1. CASE c.cursor_y + 1 >= VGA_ROWS
  <2>1. scroll_screen(c) \in Con
    BY ScrollTyped
  <2>2. [scroll_screen(c) EXCEPT !.cursor_x = 0, !.cursor_y = VGA_ROWS - 1] \in Con
    BY <2>1, Corner, MoveTyped
  <2> QED
    BY <1>1, <2>2 DEF NextLine
<1>2. CASE ~(c.cursor_y + 1 >= VGA_ROWS)
  <2>1. c.cursor_y + 1 \in Row
    BY <1>2, Screen DEF Row, Con
  <2>2. [c EXCEPT !.cursor_x = 0, !.cursor_y = c.cursor_y + 1] \in Con
    BY <2>1, Corner, MoveTyped
  <2>3. NextLine(c) = [c EXCEPT !.cursor_x = 0, !.cursor_y = c.cursor_y + 1]
    BY <1>2 DEF NextLine, Con
  <2> QED
    BY <2>2, <2>3
<1> QED
  BY <1>1, <1>2

LEMMA StepBackTyped ==
  ASSUME NEW c \in Con
  PROVE  StepBack(c) \in Con
<1>1. c.cursor_x > 0 => c.cursor_x - 1 \in Col
  BY Screen DEF Con, Col
<1>2. c.cursor_y > 0 => c.cursor_y - 1 \in Row
  BY Screen DEF Con, Row
<1>3. c.cursor_x \in Int /\ (c.cursor_x = 0 => ~(c.cursor_x > 0))
  BY Screen DEF Con, Col
<1> QED
  BY <1>1, <1>2, <1>3, Corner DEF StepBack, Con

LEMMA GlyphTyped ==
  ASSUME NEW c \in Con, NEW ch \in Int
  PROVE  PutGlyph(c, ch) \in Con
<1> DEFINE d == SetCell(c, c.cursor_x, c.cursor_y, CharCell(ch))
<1>1. d \in Con
  BY CharTyped, CellTyped DEF Con
<1>2. PutGlyph(c, ch) = IF c.cursor_x + 1 >= VGA_COLS THEN NextLine(d) ELSE [d EXCEPT !.cursor_x = @ + 1]
  BY DEF PutGlyph
<1>3. d.cursor_x = c.cursor_x
  BY DEF SetCell, Con
<1> HIDE DEF d
<1>4. ~(c.cursor_x + 1 >= VGA_COLS) => d.cursor_x + 1 \in Col
  BY <1>1, <1>3, Screen DEF Con, Col
<1>5. ~(c.cursor_x + 1 >= VGA_COLS) => [d EXCEPT !.cursor_x = @ + 1] \in Con
  BY <1>1, <1>4 DEF Con
<1> QED
  BY <1>1, <1>2, <1>5, NextLineTyped

LEMMA PutcIs == \A c, ch : console_putc(c, ch) = PutLive(ensure_bottom(c), ch)
  BY DEF console_putc, Then

LEMMA PutcTyped ==
  ASSUME NEW c \in Con, NEW ch \in Int
  PROVE  console_putc(c, ch) \in Con
<1> DEFINE e == ensure_bottom(c)
           d == CASE ch = Newline   -> NextLine(e)
                  [] ch = Backspace -> EraseAt(StepBack(e))
                  [] OTHER          -> PutGlyph(e, ch)
<1>1. e \in Con
  BY BottomTyped
<1>2. console_putc(c, ch) = IF d.sb_view = 0 THEN update_cursor(d) ELSE d
  BY PutcIs DEF PutLive
<1> HIDE DEF e
<1>3. EraseAt(StepBack(e)) \in Con
  <2>1. StepBack(e) \in Con
    BY <1>1, StepBackTyped
  <2> QED
    BY <2>1, CellTyped, BlankTyped DEF EraseAt, Con
<1>4. d \in Con
  <2>1. NextLine(e) \in Con /\ PutGlyph(e, ch) \in Con
    BY <1>1, NextLineTyped, GlyphTyped
  <2> QED
    BY <1>3, <2>1
<1> HIDE DEF d
<1> QED
  BY <1>2, <1>4, UpdateTyped

LEMMA SetCursorTyped ==
  ASSUME NEW c \in Con, NEW x \in Nat, NEW y \in Nat
  PROVE  console_set_cursor(c, x, y) \in Con
<1> DEFINE nx == IF x < VGA_COLS THEN x ELSE c.cursor_x
           ny == IF y < VGA_ROWS THEN y ELSE c.cursor_y
<1>1. nx \in Col /\ ny \in Row
  BY Screen DEF Con, Col, Row
<1>2. console_set_cursor(c, x, y) = update_cursor([c EXCEPT !.cursor_x = nx, !.cursor_y = ny])
  BY DEF console_set_cursor, Con
<1> HIDE DEF nx, ny
<1> QED
  BY <1>1, <1>2, MoveTyped, UpdateTyped

LEMMA ClearTyped ==
  ASSUME NEW c \in Con
  PROVE  console_clear(c) \in Con
<1> DEFINE new == [y \in Row |-> BlankLine]
           d == [c EXCEPT !.screen = new, !.vga = new, !.sb_start = 0, !.sb_count = 0,
                          !.sb_view = 0, !.cursor_x = 0, !.cursor_y = 0]
<1>1. new \in [Row -> Lines]
  BY BlankTyped
<1>2. 0 \in 0..SCROLLBACK_LINES /\ 0 \in 0..(SCROLLBACK_LINES - 1)
  BY Screen
<1>3. console_clear(c) = update_cursor(d)
  BY DEF console_clear
<1> HIDE DEF new
<1>4. d \in Con
  BY <1>1, <1>2, Corner DEF Con
<1> QED
  BY <1>3, <1>4, UpdateTyped

LEMMA ScrollViewTyped ==
  ASSUME NEW c \in Con, NEW up \in BOOLEAN
  PROVE  ScrollView(c, up) \in Con
<1> DEFINE v == IF up THEN (IF c.sb_view < c.sb_count THEN c.sb_view + 1 ELSE c.sb_view)
                      ELSE (IF c.sb_view > 0 THEN c.sb_view - 1 ELSE c.sb_view)
<1>1. v \in 0..SCROLLBACK_LINES
  BY Screen DEF Con
<1>2. ScrollView(c, up) = render_view([c EXCEPT !.sb_view = v])
  BY DEF ScrollView, Con
<1> HIDE DEF v
<1>3. [c EXCEPT !.sb_view = v] \in Con
  BY <1>1 DEF Con
<1> QED
  BY <1>2, <1>3, RenderTyped

LEMMA InitTyped == console_init \in Con
<1>1. GarbageLine \in Lines
  BY DEF GarbageLine, Garbage, Lines
<1>2. 0 \in 0..SCROLLBACK_LINES /\ 0 \in 0..(SCROLLBACK_LINES - 1)
  BY Screen
<1>3. PowerOn \in Con
  BY <1>1, <1>2, Corner DEF PowerOn, Con
<1> QED
  BY <1>3, ClearTyped DEF console_init
-----------------------------------------------------------------------------
(* The loops that print: each has a console for every round.               *)

LEMMA WrittenRounds ==
  ASSUME NEW c \in Con, NEW s, Len(s) \in Nat, \A i \in 1..Len(s) : s[i] \in Int
  PROVE  /\ Written(c, s)[0] = c
         /\ \A i \in 1..Len(s) : Written(c, s)[i] = console_putc(Written(c, s)[i - 1], s[i])
         /\ \A i \in 0..Len(s) : Written(c, s)[i] \in Con
         /\ console_write(c, s) = Written(c, s)[Len(s)]
<1> DEFINE n == Len(s)
           g == [i \in 1..n |-> [d \in Con |-> console_putc(d, s[i])]]
           w == Written(c, s)
<1>1. g \in Bodies(Con, n)
  BY PutcTyped DEF Bodies
<1>2. PICK f \in [0..n -> Con] : f[0] = c /\ \A i \in 1..n : f[i] = g[i][f[i - 1]]
  <2>1. n \in Nat
    OBVIOUS
  <2> HIDE DEF g, n
  <2> QED
    BY <1>1, <2>1, Rounds
<1>3. \A i \in 1..n : i - 1 \in 0..n /\ i \in 0..n /\ i # 0
  OBVIOUS
<1>4. \A i \in 0..n : i # 0 => i \in 1..n
  OBVIOUS
<1>5. \A i \in 1..n : f[i] = console_putc(f[i - 1], s[i])
  BY <1>2, <1>3
<1> HIDE DEF g, n
<1>6. f = [i \in 0..n |-> IF i = 0 THEN c ELSE console_putc(f[i - 1], s[i])]
  <2>1. f = [i \in 0..n |-> f[i]]
    BY <1>2
  <2> QED
    BY <1>2, <1>4, <1>5, <2>1
<1>7. w = [i \in 0..n |-> IF i = 0 THEN c ELSE console_putc(w[i - 1], s[i])]
  <2>1. \E h : h = [i \in 0..n |-> IF i = 0 THEN c ELSE console_putc(h[i - 1], s[i])]
    BY <1>6
  <2> QED
    BY <2>1, Zenon DEF Written, n
<1> HIDE DEF w
<1>8. 0 \in 0..n /\ n \in Nat
  BY DEF n
<1>9. w[0] = c
  BY <1>7, <1>8, Zenon
<1>10. \A i \in 1..n : w[i] = console_putc(w[i - 1], s[i])
  BY <1>3, <1>7, Zenon
<1>11. \A i \in 0..n : w[i] \in Con
  <2> DEFINE T == {i \in 0..n : w[i] \in Con}
  <2>1. 0 \in T
    BY <1>8, <1>9
  <2>2. \A i \in 1..n : i - 1 \in T => i \in T
    BY <1>3, <1>10, PutcTyped DEF n
  <2> HIDE DEF T
  <2>3. \A i \in 0..n : i \in T
    BY <1>8, <2>1, <2>2, UpTo
  <2> QED
    BY <2>3 DEF T
<1>12. console_write(c, s) = w[n]
  BY DEF console_write, Then, w, n
<1> QED
  BY <1>9, <1>10, <1>11, <1>12 DEF w, n

LEMMA WriteTyped ==
  ASSUME NEW c \in Con, NEW s, Len(s) \in Nat, \A i \in 1..Len(s) : s[i] \in Int
  PROVE  console_write(c, s) \in Con
<1>1. Len(s) \in 0..Len(s)
  OBVIOUS
<1> QED
  BY <1>1, WrittenRounds

LEMMA DrawAtIs ==
  \A c, at, ch : DrawAt(c, at, ch) = console_putc(console_set_cursor(c, at[1], at[2]), ch)
  BY DEF DrawAt, Then

LEMMA DrawAtTyped ==
  ASSUME NEW c \in Con, NEW at \in Nat \X Nat, NEW ch \in Int
  PROVE  DrawAt(c, at, ch) \in Con
<1>1. at[1] \in Nat /\ at[2] \in Nat
  OBVIOUS
<1>2. console_set_cursor(c, at[1], at[2]) \in Con
  BY <1>1, SetCursorTyped
<1> QED
  BY <1>2, DrawAtIs, PutcTyped

LEMMA DottedRounds ==
  ASSUME NEW c \in Con, NEW s, Len(s) \in Nat, \A i \in 1..Len(s) : s[i] \in Nat \X Nat,
         NEW ch \in Int
  PROVE  /\ Dotted(c, s, ch)[0] = c
         /\ \A i \in 1..Len(s) : Dotted(c, s, ch)[i] = DrawAt(Dotted(c, s, ch)[i - 1], s[i], ch)
         /\ \A i \in 0..Len(s) : Dotted(c, s, ch)[i] \in Con
         /\ DrawPoints(c, s, ch) = Dotted(c, s, ch)[Len(s)]
<1> DEFINE n == Len(s)
           g == [i \in 1..n |-> [d \in Con |-> DrawAt(d, s[i], ch)]]
           w == Dotted(c, s, ch)
<1>1. g \in Bodies(Con, n)
  BY DrawAtTyped DEF Bodies
<1>2. PICK f \in [0..n -> Con] : f[0] = c /\ \A i \in 1..n : f[i] = g[i][f[i - 1]]
  <2>1. n \in Nat
    OBVIOUS
  <2> HIDE DEF g, n, w
  <2>2. \E f \in [0..n -> Con] : f[0] = c /\ \A i \in 1..n : f[i] = g[i][f[i - 1]]
    BY <1>1, <2>1, Rounds
  <2> QED
    BY <2>2
<1>3. \A i \in 1..n : i - 1 \in 0..n /\ i \in 0..n /\ i # 0
  OBVIOUS
<1>4. \A i \in 0..n : i # 0 => i \in 1..n
  OBVIOUS
<1>5. \A i \in 1..n : f[i] = DrawAt(f[i - 1], s[i], ch)
  BY <1>2, <1>3
<1> HIDE DEF g, n
<1>6. f = [i \in 0..n |-> IF i = 0 THEN c ELSE DrawAt(f[i - 1], s[i], ch)]
  <2>1. f = [i \in 0..n |-> f[i]]
    BY <1>2
  <2> QED
    BY <1>2, <1>4, <1>5, <2>1
<1>7. w = [i \in 0..n |-> IF i = 0 THEN c ELSE DrawAt(w[i - 1], s[i], ch)]
  <2>1. \E h : h = [i \in 0..n |-> IF i = 0 THEN c ELSE DrawAt(h[i - 1], s[i], ch)]
    BY <1>6
  <2> QED
    BY <2>1, Zenon DEF Dotted, n
<1> HIDE DEF w
<1>8. 0 \in 0..n /\ n \in Nat
  BY DEF n
<1>9. w[0] = c
  BY <1>7, <1>8, Zenon
<1>10. \A i \in 1..n : w[i] = DrawAt(w[i - 1], s[i], ch)
  BY <1>3, <1>7, Zenon
<1>11. \A i \in 0..n : w[i] \in Con
  <2> DEFINE T == {i \in 0..n : w[i] \in Con}
  <2>1. 0 \in T
    BY <1>8, <1>9
  <2>2. \A i \in 1..n : i - 1 \in T => i \in T
    BY <1>3, <1>10, DrawAtTyped DEF n
  <2> HIDE DEF T
  <2>3. \A i \in 0..n : i \in T
    BY <1>8, <2>1, <2>2, UpTo
  <2> QED
    BY <2>3 DEF T
<1>12. DrawPoints(c, s, ch) = w[n]
  BY DEF DrawPoints, Then, w, n
<1> QED
  BY <1>9, <1>10, <1>11, <1>12 DEF w, n

HorzLine == [x \in 1..VGA_COLS |-> LineHorz]

LEMMA HorzLineFacts ==
  HorzLine \in Seq(Int) /\ Len(HorzLine) = VGA_COLS /\ \A x \in 1..VGA_COLS : HorzLine[x] = LineHorz
<1>1. HorzLine \in [1..VGA_COLS -> Int]
  BY DEF HorzLine, LineHorz
<1> QED
  BY <1>1, Screen, IsASeq, LenProperties DEF HorzLine

LEMMA RowTyped ==
  ASSUME NEW c \in Con, NEW y \in Nat
  PROVE  DrawRow(c, y) \in Con
<1>1. console_set_cursor(c, 0, y) \in Con
  BY SetCursorTyped
<1>2. Len(HorzLine) \in Nat /\ \A x \in 1..Len(HorzLine) : HorzLine[x] \in Int
  BY HorzLineFacts, Screen DEF LineHorz
<1>3. DrawRow(c, y) = console_write(console_set_cursor(c, 0, y), HorzLine)
  BY DEF DrawRow, HorzLine
<1> QED
  BY <1>1, <1>2, <1>3, WriteTyped

LEMMA LinedRounds ==
  ASSUME NEW c \in Con, NEW s, Len(s) \in Nat, \A i \in 1..Len(s) : s[i] \in Nat
  PROVE  /\ Lined(c, s)[0] = c
         /\ \A i \in 1..Len(s) : Lined(c, s)[i] = DrawRow(Lined(c, s)[i - 1], s[i])
         /\ \A i \in 0..Len(s) : Lined(c, s)[i] \in Con
         /\ DrawRows(c, s) = Lined(c, s)[Len(s)]
<1> DEFINE n == Len(s)
           g == [i \in 1..n |-> [d \in Con |-> DrawRow(d, s[i])]]
           w == Lined(c, s)
<1>1. g \in Bodies(Con, n)
  BY RowTyped DEF Bodies
<1>2. PICK f \in [0..n -> Con] : f[0] = c /\ \A i \in 1..n : f[i] = g[i][f[i - 1]]
  <2>1. n \in Nat
    OBVIOUS
  <2> HIDE DEF g, n
  <2> QED
    BY <1>1, <2>1, Rounds
<1>3. \A i \in 1..n : i - 1 \in 0..n /\ i \in 0..n /\ i # 0
  OBVIOUS
<1>4. \A i \in 0..n : i # 0 => i \in 1..n
  OBVIOUS
<1>5. \A i \in 1..n : f[i] = DrawRow(f[i - 1], s[i])
  BY <1>2, <1>3
<1> HIDE DEF g, n
<1>6. f = [i \in 0..n |-> IF i = 0 THEN c ELSE DrawRow(f[i - 1], s[i])]
  <2>1. f = [i \in 0..n |-> f[i]]
    BY <1>2
  <2> QED
    BY <1>2, <1>4, <1>5, <2>1
<1>7. w = [i \in 0..n |-> IF i = 0 THEN c ELSE DrawRow(w[i - 1], s[i])]
  <2>1. \E h : h = [i \in 0..n |-> IF i = 0 THEN c ELSE DrawRow(h[i - 1], s[i])]
    BY <1>6
  <2> QED
    BY <2>1, Zenon DEF Lined, n
<1> HIDE DEF w
<1>8. 0 \in 0..n /\ n \in Nat
  BY DEF n
<1>9. w[0] = c
  BY <1>7, <1>8, Zenon
<1>10. \A i \in 1..n : w[i] = DrawRow(w[i - 1], s[i])
  BY <1>3, <1>7, Zenon
<1>11. \A i \in 0..n : w[i] \in Con
  <2> DEFINE T == {i \in 0..n : w[i] \in Con}
  <2>1. 0 \in T
    BY <1>8, <1>9
  <2>2. \A i \in 1..n : i - 1 \in T => i \in T
    BY <1>3, <1>10, RowTyped DEF n
  <2> HIDE DEF T
  <2>3. \A i \in 0..n : i \in T
    BY <1>8, <2>1, <2>2, UpTo
  <2> QED
    BY <2>3 DEF T
<1>12. DrawRows(c, s) = w[n]
  BY DEF DrawRows, Then, w, n
<1> QED
  BY <1>9, <1>10, <1>11, <1>12 DEF w, n

LEMMA SumsRounds ==
  ASSUME NEW n \in Nat, NEW s, \A i \in 0..(n - 1) : s[i] \in Nat
  PROVE  /\ Sums(s, n)[0] = 0
         /\ \A i \in 1..n : Sums(s, n)[i] = Sums(s, n)[i - 1] + s[i - 1]
         /\ \A i \in 0..n : Sums(s, n)[i] \in Nat
<1> DEFINE g == [i \in 1..n |-> [d \in Nat |-> d + s[i - 1]]]
           w == Sums(s, n)
<1>1. g \in Bodies(Nat, n)
  <2>1. \A i \in 1..n : i - 1 \in 0..(n - 1)
    OBVIOUS
  <2> QED
    BY <2>1 DEF Bodies
<1>2. PICK f \in [0..n -> Nat] : f[0] = 0 /\ \A i \in 1..n : f[i] = g[i][f[i - 1]]
  <2> DEFINE S == Nat
             zero == 0
  <2>1. zero \in S /\ g \in Bodies(S, n)
    BY <1>1
  <2> HIDE DEF g, S, zero
  <2>2. \E f \in [0..n -> S] : f[0] = zero /\ \A i \in 1..n : f[i] = g[i][f[i - 1]]
    BY <2>1, Rounds
  <2> QED
    BY <2>2 DEF S, zero
<1>3. \A i \in 1..n : i - 1 \in 0..n /\ i \in 0..n /\ i # 0 /\ i - 1 \in 0..(n - 1)
  OBVIOUS
<1>4. \A i \in 0..n : i # 0 => i \in 1..n
  OBVIOUS
<1>5. \A i \in 1..n : f[i] = f[i - 1] + s[i - 1]
  BY <1>2, <1>3
<1> HIDE DEF g
<1>6. f = [i \in 0..n |-> IF i = 0 THEN 0 ELSE f[i - 1] + s[i - 1]]
  <2>1. f = [i \in 0..n |-> f[i]]
    BY <1>2
  <2> QED
    BY <1>2, <1>4, <1>5, <2>1
<1>7. w = [i \in 0..n |-> IF i = 0 THEN 0 ELSE w[i - 1] + s[i - 1]]
  <2>1. \E h : h = [i \in 0..n |-> IF i = 0 THEN 0 ELSE h[i - 1] + s[i - 1]]
    BY <1>6
  <2> QED
    BY <2>1, Zenon DEF Sums
<1> HIDE DEF w
<1>8. 0 \in 0..n
  OBVIOUS
<1>9. w[0] = 0
  BY <1>7, <1>8, Zenon
<1>10. \A i \in 1..n : w[i] = w[i - 1] + s[i - 1]
  BY <1>3, <1>7, Zenon
<1>11. \A i \in 0..n : w[i] \in Nat
  <2> DEFINE T == {i \in 0..n : w[i] \in Nat}
  <2>1. 0 \in T
    BY <1>8, <1>9
  <2>2. ASSUME NEW i \in 1..n, i - 1 \in T PROVE i \in T
    <3>1. w[i - 1] \in Nat /\ s[i - 1] \in Nat
      BY <1>3, <2>2
    <3>2. w[i] \in Nat
      BY <1>10, <3>1
    <3> QED
      BY <1>3, <3>2
  <2> HIDE DEF T
  <2>3. \A i \in 0..n : i \in T
    BY <1>8, <2>1, <2>2, UpTo
  <2> QED
    BY <2>3 DEF T
<1> QED
  BY <1>9, <1>10, <1>11 DEF w

-----------------------------------------------------------------------------
(* The layout.                                                             *)

LEMMA Division ==
  ASSUME NEW x \in Nat, NEW d \in Nat, d > 0
  PROVE  /\ x \div d \in Nat /\ x % d \in 0..(d - 1)
         /\ x = d * (x \div d) + (x % d)
  OBVIOUS

(* Sums of spans that are all at least w grow by w at every step. *)
LEMMA SumsGrow ==
  ASSUME NEW n \in Nat, NEW s, NEW w \in Nat, \A i \in 0..(n - 1) : s[i] \in Nat /\ s[i] >= w
  PROVE  \A i, k \in 0..n : i < k => Sums(s, n)[i] + w <= Sums(s, n)[k]
<1> DEFINE f == Sums(s, n)
           T == {k \in 0..n : \A i \in 0..n : i < k => f[i] + w <= f[k]}
<1>1. /\ f[0] = 0
      /\ \A i \in 1..n : f[i] = f[i - 1] + s[i - 1]
      /\ \A i \in 0..n : f[i] \in Nat
  BY SumsRounds
<1> HIDE DEF f
<1>2. 0 \in T
  OBVIOUS
<1>3. ASSUME NEW k \in 1..n, k - 1 \in T PROVE k \in T
  <2>1. k - 1 \in 0..(n - 1) /\ k - 1 \in 0..n /\ k \in 0..n
    OBVIOUS
  <2>2. f[k] = f[k - 1] + s[k - 1] /\ s[k - 1] \in Nat /\ s[k - 1] >= w /\ f[k - 1] \in Nat
    BY <1>1, <2>1
  <2>3. ASSUME NEW i \in 0..n, i < k PROVE f[i] + w <= f[k]
    <3>1. f[i] \in Nat
      BY <1>1
    <3>2. CASE i = k - 1
      BY <2>2, <3>2
    <3>3. CASE i < k - 1
      <4>1. f[i] + w <= f[k - 1]
        BY <1>3, <3>3
      <4> QED
        BY <2>2, <3>1, <4>1
    <3> QED
      BY <2>3, <3>2, <3>3
  <2> QED
    BY <2>1, <2>3
<1> HIDE DEF T
<1>4. \A k \in 0..n : k \in T
  BY <1>2, <1>3, UpTo
<1> QED
  BY <1>4 DEF T, f

(* One of n spans is half, the others normal, and the last has rest more. *)
Spans(n, active, half, normal, rest) ==
  [i \in 0..(n - 1) |-> (IF i = active THEN half ELSE normal) + (IF i = n - 1 THEN rest ELSE 0)]

LEMMA SumsOfSpans ==
  ASSUME NEW n \in Nat, n > 1, NEW active \in 0..(n - 1),
         NEW half \in Nat, NEW normal \in Nat, NEW rest \in Nat
  PROVE  Sums(Spans(n, active, half, normal, rest), n)[n] = half + (n - 1) * normal + rest
<1> DEFINE s == Spans(n, active, half, normal, rest)
           f == Sums(s, n)
           Sum(m) == (IF m <= active THEN m * normal ELSE (m - 1) * normal + half)
                     + (IF m = n THEN rest ELSE 0)
           T == {m \in 0..n : f[m] = Sum(m)}
<1>1. \A i \in 0..(n - 1) : /\ s[i] = (IF i = active THEN half ELSE normal) + (IF i = n - 1 THEN rest ELSE 0)
                            /\ s[i] \in Nat
  BY DEF Spans
<1> HIDE DEF s
<1>2. f[0] = 0 /\ \A i \in 1..n : f[i] = f[i - 1] + s[i - 1]
  BY <1>1, SumsRounds
<1> HIDE DEF f
<1>3. 0 \in T
  <2>1. 0 <= active /\ 0 # n /\ 0 * normal = 0
    OBVIOUS
  <2> QED
    BY <1>2, <2>1
<1>4. ASSUME NEW m \in 1..n, m - 1 \in T PROVE m \in T
  <2>1. m - 1 \in 0..(n - 1) /\ m \in 0..n /\ m - 1 # n /\ m \in Nat /\ active \in Nat
    OBVIOUS
  <2>2. f[m] = Sum(m - 1) + s[m - 1]
    BY <1>2, <1>4
  <2>3. s[m - 1] = (IF m - 1 = active THEN half ELSE normal) + (IF m = n THEN rest ELSE 0)
    BY <1>1, <2>1
  <2>4. m * normal = (m - 1) * normal + normal /\ (m - 1) * normal = (m - 1 - 1) * normal + normal
    BY <2>1
  <2>5. m * normal \in Int /\ (m - 1) * normal \in Int /\ (m - 1 - 1) * normal \in Int
    BY <2>1
  <2> DEFINE a == m * normal
             b == (m - 1) * normal
             c == (m - 1 - 1) * normal
  <2>6. Sum(m) = (IF m <= active THEN a ELSE b + half) + (IF m = n THEN rest ELSE 0)
    OBVIOUS
  <2>7. Sum(m - 1) = IF m - 1 <= active THEN b ELSE c + half
    BY <2>1
  <2> HIDE DEF Sum, a, b, c
  <2>8. CASE m <= active
    BY <2>1, <2>2, <2>3, <2>4, <2>5, <2>6, <2>7, <2>8 DEF a, b, c
  <2>9. CASE m - 1 = active
    BY <2>1, <2>2, <2>3, <2>4, <2>5, <2>6, <2>7, <2>9 DEF a, b, c
  <2>10. CASE m - 1 > active
    BY <2>1, <2>2, <2>3, <2>4, <2>5, <2>6, <2>7, <2>10 DEF a, b, c
  <2>11. f[m] = Sum(m)
    BY <2>1, <2>8, <2>9, <2>10
  <2> QED
    BY <2>1, <2>11
<1> HIDE DEF T
<1>5. n \in T
  <2>1. n \in 0..n
    OBVIOUS
  <2> QED
    BY <1>3, <1>4, <2>1, UpTo
<1>6. f[n] = (n - 1) * normal + half + rest /\ (n - 1) * normal \in Nat
  BY <1>5 DEF T
<1> QED
  BY <1>6 DEF f, s

LEMMA WordSize == WORD \in Nat /\ WORD > 0 /\ MAX_GRID \in Nat /\ MAX_GRID >= 2
  BY PaneAssumption, Screen

(* Every layout, whatever its size, consists of natural numbers. *)
LEMMA LayoutTyped ==
  ASSUME NEW n \in Nat, n > 0, NEW active, NEW total \in Nat, NEW junk \in Nat
  PROVE  LET s == compute_layout(n, active, total, junk)
         IN  /\ s \in [0..(n - 1) -> Nat]
             /\ \A i \in 0..n : Sums(s, n)[i] \in Nat
<1> DEFINE half == total \div 2
           normal == IF n > 1 THEN (total - half) \div (n - 1) ELSE total
           share == Shares(n, active, total, junk)
           sum == Sums(share, n)[n] % WORD
           s == compute_layout(n, active, total, junk)
<1>1. half \in Nat /\ total - half \in Nat
  OBVIOUS
<1>2. normal \in Nat
  <2>1. CASE n > 1
    <3>1. n - 1 \in Nat /\ n - 1 > 0
      BY <2>1
    <3> HIDE DEF half
    <3> QED
      BY <1>1, <2>1, <3>1, Division
  <2>2. CASE ~(n > 1)
    BY <2>2
  <2> QED
    BY <2>1, <2>2
<1> HIDE DEF half, normal
<1>3. share = [i \in 0..(n - 1) |-> CASE i # active          -> normal
                                      [] i = active /\ n > 1  -> half
                                      [] i = active /\ n <= 1 -> junk]
  BY DEF Shares, half, normal
<1>4. share \in [0..(n - 1) -> Nat]
  <2>1. n > 1 \/ n <= 1
    OBVIOUS
  <2>2. ASSUME NEW i \in 0..(n - 1) PROVE share[i] \in Nat
    BY <1>1, <1>2, <1>3, <2>1
  <2> QED
    BY <1>3, <2>2
<1> HIDE DEF share
<1>5. \A i \in 0..n : Sums(share, n)[i] \in Nat
  BY <1>4, SumsRounds
<1>6. n \in 0..n /\ n - 1 \in 0..(n - 1)
  OBVIOUS
<1>7. sum \in Int
  BY <1>5, <1>6, WordSize
<1>8. s = [share EXCEPT ![n - 1] = (share[n - 1] + total - sum) % WORD]
  BY <1>4, <1>6 DEF compute_layout, share
<1> HIDE DEF sum, s
<1>9. (share[n - 1] + total - sum) % WORD \in Nat
  <2>1. share[n - 1] + total - sum \in Int
    BY <1>4, <1>6, <1>7
  <2> QED
    BY <2>1, WordSize
<1>10. s \in [0..(n - 1) -> Nat]
  BY <1>4, <1>8, <1>9
<1>11. \A i \in 0..n : Sums(s, n)[i] \in Nat
  BY <1>10, SumsRounds
<1> QED
  BY <1>10, <1>11 DEF s

(* One column (row) is the whole screen: its garbage cancels out. *)
LEMMA OneSpan ==
  ASSUME NEW total \in Nat, total < WORD, NEW junk \in 0..(WORD - 1)
  PROVE  LET s == compute_layout(1, 0, total, junk)
         IN  s = [i \in 0..0 |-> total] /\ Sums(s, 1)[1] = total
<1> DEFINE share == Shares(1, 0, total, junk)
           s == compute_layout(1, 0, total, junk)
<1>1. 1 - 1 = 0 /\ ~(1 > 1) /\ 1 <= 1 /\ 0..0 = {0} /\ junk \in Nat
  BY WordSize
<1>2. share = [i \in 0..0 |-> junk]
  <2>1. share = [i \in 0..(1 - 1) |-> CASE i # 0           -> IF 1 > 1 THEN (total - total \div 2) \div (1 - 1) ELSE total
                                      [] i = 0 /\ 1 > 1  -> total \div 2
                                      [] i = 0 /\ 1 <= 1 -> junk]
    BY DEF Shares
  <2> QED
    BY <1>1, <2>1
<1> HIDE DEF share
<1>3. Sums(share, 1)[1] = junk
  <2>1. \A i \in 0..(1 - 1) : share[i] \in Nat
    BY <1>1, <1>2
  <2>2. /\ Sums(share, 1)[0] = 0
        /\ \A i \in 1..1 : Sums(share, 1)[i] = Sums(share, 1)[i - 1] + share[i - 1]
    BY <2>1, SumsRounds
  <2>3. 1 \in 1..1 /\ 1 - 1 = 0 /\ 0 \in 0..0
    OBVIOUS
  <2>4. Sums(share, 1)[1] = Sums(share, 1)[0] + share[0]
    BY <2>2, <2>3
  <2> QED
    BY <1>1, <1>2, <2>2, <2>4
<1>4. junk % WORD = junk
  BY WordSize
<1>5. (junk + total - junk) % WORD = total
  <2>1. junk + total - junk = total
    BY <1>1
  <2> QED
    BY <2>1, WordSize
<1>6. s = [share EXCEPT ![0] = (share[0] + total - junk) % WORD]
  BY <1>1, <1>3, <1>4 DEF compute_layout, share
<1>7. s = [i \in 0..0 |-> total]
  BY <1>1, <1>2, <1>5, <1>6
<1> HIDE DEF s
<1>8. Sums(s, 1)[1] = total
  <2>1. \A i \in 0..(1 - 1) : s[i] \in Nat
    BY <1>1, <1>7
  <2>2. /\ Sums(s, 1)[0] = 0
        /\ \A i \in 1..1 : Sums(s, 1)[i] = Sums(s, 1)[i - 1] + s[i - 1]
    BY <2>1, SumsRounds
  <2>3. 1 \in 1..1 /\ 1 - 1 = 0 /\ 0 \in 0..0
    OBVIOUS
  <2>4. Sums(s, 1)[1] = Sums(s, 1)[0] + s[0]
    BY <2>2, <2>3
  <2> QED
    BY <1>7, <2>2, <2>3, <2>4
<1> QED
  BY <1>7, <1>8 DEF s

Half(total) == total \div 2
Normal(n, total) == (total - Half(total)) \div (n - 1)
Rest(n, total) == (total - Half(total)) % (n - 1)

LEMMA ShareSizes ==
  ASSUME NEW n \in 2..MAX_GRID, NEW total \in Nat, Roomy(total)
  PROVE  /\ Half(total) \in Nat /\ Half(total) >= 2
         /\ Normal(n, total) \in Nat /\ Normal(n, total) >= 2
         /\ Rest(n, total) \in 0..(MAX_GRID - 2)
         /\ total = Half(total) + (n - 1) * Normal(n, total) + Rest(n, total)
         /\ (n - 1) * Normal(n, total) \in Nat
<1> DEFINE x == total - Half(total)
           d == n - 1
<1>1. Half(total) \in Nat /\ Half(total) >= 2 /\ x \in Nat /\ x >= 2 * (MAX_GRID - 1)
  BY WordSize DEF Half, Roomy
<1>2. d \in Nat /\ d > 0 /\ d <= MAX_GRID - 1
  BY WordSize
<1>3. x >= 2 * d
  BY <1>1, <1>2, WordSize
<1> HIDE DEF x, d
<1>4. x \div d \in Nat /\ x % d \in 0..(d - 1) /\ x = d * (x \div d) + (x % d)
  BY <1>1, <1>2, Division
<1>5. x \div d >= 2
  BY <1>1, <1>2, <1>3
<1>6. Normal(n, total) = x \div d /\ Rest(n, total) = x % d
  BY DEF Normal, Rest, x, d
<1>7. total = Half(total) + x
  BY <1>1 DEF x
<1>8. x % d \in 0..(MAX_GRID - 2)
  BY <1>2, <1>4, WordSize
<1>9. d * (x \div d) \in Nat
  BY <1>2, <1>4
<1> DEFINE y == d * (x \div d)
           r == x % d
<1>10. x = y + r /\ y \in Nat /\ r \in Nat
  BY <1>4, <1>9
<1> HIDE DEF y, r
<1>11. total = Half(total) + y + r
  BY <1>1, <1>7, <1>10
<1>12. y = (n - 1) * Normal(n, total)
  BY <1>6 DEF y, d
<1> QED
  BY <1>1, <1>5, <1>4, <1>6, <1>8, <1>10, <1>11, <1>12 DEF r

LEMMA ManySpans ==
  ASSUME NEW n \in 2..MAX_GRID, NEW active \in 0..(n - 1), NEW total \in Nat, Roomy(total), NEW junk
  PROVE  compute_layout(n, active, total, junk) =
           Spans(n, active, Half(total), Normal(n, total), Rest(n, total))
<1> DEFINE h == Half(total)
           q == Normal(n, total)
           r == Rest(n, total)
           share == Shares(n, active, total, junk)
<1>1. n \in Nat /\ n > 1 /\ ~(n <= 1) /\ n - 1 \in 0..(n - 1)
  BY WordSize
<1>2. /\ h \in Nat /\ q \in Nat /\ r \in Nat /\ total = h + (n - 1) * q + r /\ (n - 1) * q \in Nat
      /\ total < WORD
  BY ShareSizes, WordSize DEF Roomy
<1>3. share = [i \in 0..(n - 1) |-> CASE i # active          -> q
                                      [] i = active /\ n > 1  -> h
                                      [] i = active /\ n <= 1 -> junk]
  BY <1>1 DEF Shares, Half, Normal
<1> HIDE DEF h, q, r
<1>4. ASSUME NEW i \in 0..(n - 1)
      PROVE  (IF i = active THEN h ELSE q) + (IF i = n - 1 THEN 0 ELSE 0) = IF i = active THEN h ELSE q
  BY <1>2
<1>5. share = Spans(n, active, h, q, 0)
  BY <1>1, <1>3, <1>4 DEF Spans
<1> HIDE DEF share
<1>6. Sums(share, n)[n] = h + (n - 1) * q + 0
  <2>1. 0 \in Nat
    OBVIOUS
  <2>2. Sums(Spans(n, active, h, q, 0), n)[n] = h + (n - 1) * q + 0
    BY <1>1, <1>2, <2>1, SumsOfSpans
  <2> QED
    BY <1>5, <2>2, Zenon
<1> DEFINE y == (n - 1) * q
<1>7. Sums(share, n)[n] = h + y /\ h + y \in 0..(WORD - 1) /\ y \in Nat /\ total = h + y + r
  BY <1>2, <1>6, WordSize
<1> HIDE DEF y
<1>8. (h + y) % WORD = h + y
  BY <1>7, WordSize
<1> DEFINE last == share[n - 1]
<1>9. last = (IF n - 1 = active THEN h ELSE q) /\ last \in Nat
  BY <1>1, <1>2, <1>5, <1>4 DEF Spans
<1>10. last <= h + y
  <2>1. q <= y
    BY <1>1, <1>2 DEF y
  <2> QED
    BY <1>2, <1>7, <1>9, <2>1
<1>11. compute_layout(n, active, total, junk) = [share EXCEPT ![n - 1] = (last + total - (h + y)) % WORD]
  BY <1>7, <1>8 DEF compute_layout, share
<1> HIDE DEF last
<1>12. (last + total - (h + y)) % WORD = last + r
  <2>1. last + total - (h + y) = last + r /\ last + r \in 0..(WORD - 1)
    BY <1>2, <1>7, <1>9, <1>10, WordSize
  <2> QED
    BY <2>1, WordSize
<1>13. [share EXCEPT ![n - 1] = last + r] = Spans(n, active, h, q, r)
  <2>1. ASSUME NEW i \in 0..(n - 1)
        PROVE  [share EXCEPT ![n - 1] = last + r][i] = Spans(n, active, h, q, r)[i]
    <3>1. CASE i = n - 1
      BY <1>1, <1>2, <1>5, <1>9, <3>1 DEF Spans
    <3>2. CASE i # n - 1
      BY <1>1, <1>2, <1>5, <3>2 DEF Spans
    <3> QED
      BY <3>1, <3>2
  <2> QED
    BY <1>5, <2>1 DEF Spans
<1> QED
  BY <1>11, <1>12, <1>13 DEF h, q, r

(* The layout of a screen that is large enough: no garbage in it, spans    *)
(* that fill the screen, and dividers with room on both sides.             *)
LEMMA LayoutFacts ==
  ASSUME NEW n \in 1..MAX_GRID, NEW active \in 0..(n - 1), NEW total \in Nat, Roomy(total),
         NEW junk \in 0..(WORD - 1)
  PROVE  LET s == compute_layout(n, active, total, junk)
         IN  /\ s = compute_layout(n, active, total, 0)
             /\ Fills(s, n, active, total)
             /\ n = 1 => s[active] = total
             /\ \A i \in 1..(n - 1) : Sums(s, n)[i] \in 2..(total - 2)
             /\ Sums(s, n)[active] \in Nat /\ Sums(s, n)[active] + s[active] <= total
<1> DEFINE s == compute_layout(n, active, total, junk)
<1>1. n \in Nat /\ active \in Nat /\ total < WORD /\ total >= 4 /\ 0 \in 0..(WORD - 1)
  BY WordSize DEF Roomy
<1>2. CASE n = 1
  <2>1. active = 0 /\ 0..0 = {0} /\ 1..(n - 1) = {} /\ 0..(n - 1) = {0}
    BY <1>2
  <2>2. s = [i \in 0..0 |-> total] /\ Sums(s, 1)[1] = total
    BY <1>1, <1>2, <2>1, OneSpan
  <2>3. s = compute_layout(n, active, total, 0)
    BY <1>1, <1>2, <2>1, <2>2, OneSpan
  <2> HIDE DEF s
  <2>4. s[0] = total /\ \A i \in 0..(n - 1) : s[i] \in Nat
    BY <2>1, <2>2
  <2>5. Sums(s, n)[0] = 0
    BY <1>1, <2>4, SumsRounds
  <2>6. Fills(s, n, active, total)
    BY <1>1, <1>2, <2>1, <2>2, <2>4 DEF Fills
  <2> QED
    BY <1>1, <1>2, <2>1, <2>3, <2>4, <2>5, <2>6 DEF s
<1>3. CASE n # 1
  <2> DEFINE h == Half(total)
             q == Normal(n, total)
             r == Rest(n, total)
             y == (n - 1) * q
             f == Sums(s, n)
  <2>1. n \in 2..MAX_GRID /\ n > 1
    BY <1>1, <1>3, WordSize
  <2>2. s = Spans(n, active, h, q, r) /\ compute_layout(n, active, total, 0) = Spans(n, active, h, q, r)
    BY <1>1, <2>1, ManySpans
  <2>3. /\ h \in Nat /\ h >= 2 /\ q \in Nat /\ q >= 2 /\ r \in 0..(MAX_GRID - 2) /\ r \in Nat
        /\ total = h + y + r /\ y \in Nat
    BY <2>1, ShareSizes, WordSize
  <2> HIDE DEF s, h, q, r
  <2>4. f[n] = h + (n - 1) * q + r
    <3>1. Sums(Spans(n, active, h, q, r), n)[n] = h + (n - 1) * q + r
      BY <1>1, <2>1, <2>3, SumsOfSpans
    <3> QED
      BY <2>2, <3>1, Zenon
  <2>5. f[n] = total
    BY <2>3, <2>4
  <2>6. \A i \in 0..(n - 1) : s[i] = (IF i = active THEN h ELSE q) + (IF i = n - 1 THEN r ELSE 0)
    BY <2>2 DEF Spans
  <2> HIDE DEF y
  <2>7. \A i \in 0..(n - 1) : s[i] \in Nat /\ s[i] >= 2
    BY <2>3, <2>6
  <2>8. /\ f[0] = 0 /\ \A i \in 0..n : f[i] \in Nat
        /\ \A i \in 1..n : f[i] = f[i - 1] + s[i - 1]
        /\ \A i, k \in 0..n : i < k => f[i] + 2 <= f[k]
    BY <1>1, <2>7, SumsRounds, SumsGrow
  <2> HIDE DEF f
  <2>9. ASSUME NEW i \in 0..(n - 1) PROVE f[i] \in Nat /\ f[i] + s[i] <= total
    <3>1. i + 1 \in 1..n /\ i + 1 \in 0..n /\ i \in 0..n /\ n \in 0..n /\ i + 1 - 1 = i
      BY <1>1
    <3>2. f[i + 1] = f[i] + s[i]
      BY <2>8, <3>1
    <3>3. i + 1 = n \/ i + 1 < n
      BY <1>1
    <3>4. f[i + 1] <= total
      BY <2>5, <2>8, <3>1, <3>3
    <3> QED
      BY <2>8, <3>1, <3>2, <3>4
  <2>10. ASSUME NEW i \in 1..(n - 1) PROVE f[i] \in 2..(total - 2)
    <3>1. i \in 0..n /\ 0 \in 0..n /\ n \in 0..n /\ 0 < i /\ i < n
      BY <1>1
    <3>2. f[0] + 2 <= f[i] /\ f[i] + 2 <= f[n] /\ f[i] \in Nat
      BY <2>8, <3>1
    <3> QED
      BY <1>1, <2>5, <2>8, <3>2
  <2>11. \A i \in 0..(n - 1) : s[i] \in 2..total
    <3>1. ASSUME NEW i \in 0..(n - 1) PROVE s[i] \in 2..total
      BY <1>1, <2>7, <2>9
    <3> QED
      BY <3>1
  <2>12. s[active] \in h..(h + MAX_GRID - 2)
    BY <2>3, <2>6, WordSize
  <2>13. Fills(s, n, active, total)
    BY <2>5, <2>11, <2>12 DEF Fills, f, h, Half
  <2> QED
    BY <1>3, <2>2, <2>9, <2>10, <2>13 DEF s, f
<1> QED
  BY <1>2, <1>3

-----------------------------------------------------------------------------
(* Drawing the grid.                                                       *)

(* The points p are all those of the columns xs and the rows ys. *)
AllPairs(p, xs, ys) ==
  /\ Len(p) \in Nat
  /\ \A k \in 1..Len(p) : \E i \in 1..Len(xs), j \in 1..Len(ys) : p[k] = <<xs[i], ys[j]>>
  /\ \A i \in 1..Len(xs), j \in 1..Len(ys) : \E k \in 1..Len(p) : p[k] = <<xs[i], ys[j]>>

LEMMA PointsFacts ==
  ASSUME NEW S, NEW R, NEW xs \in Seq(S), NEW ys \in Seq(R)
  PROVE  AllPairs(Points(xs, ys), xs, ys)
<1> DEFINE m == Len(xs)
           r == Len(ys)
           q == m * r
           p == Points(xs, ys)
<1>1. m \in Nat /\ r \in Nat /\ q \in Nat
  OBVIOUS
<1>2. /\ \A k \in 1..q : p[k] = <<xs[((k - 1) \div r) + 1], ys[((k - 1) % r) + 1]>>
      /\ DOMAIN p = 1..q
  BY DEF Points
<1>3. Len(p) = q
  <2>1. p \in [1..q -> {p[k] : k \in 1..q}]
    BY <1>2 DEF Points
  <2> HIDE DEF p, q
  <2> QED
    BY <1>1, <2>1, IsASeq, LenProperties
<1> HIDE DEF p
<1>4. ASSUME NEW k \in 1..q
      PROVE  \E i \in 1..m, j \in 1..r : p[k] = <<xs[i], ys[j]>>
  <2> HIDE DEF m, r
  <2> DEFINE i == (k - 1) \div r
             j == (k - 1) % r
  <2>1. k - 1 \in 0..(q - 1) /\ k - 1 \in Nat
    BY <1>1
  <2>2. r > 0
    <3>1. r = 0 => q = 0
      BY <1>1
    <3> QED
      BY <1>1, <2>1, <3>1
  <2>3. i \in Nat /\ j \in 0..(r - 1) /\ k - 1 = r * i + j
    BY <1>1, <2>1, <2>2, Division
  <2>4. i < m
    BY <1>1, <2>1, <2>2
  <2>5. i + 1 \in 1..m /\ j + 1 \in 1..r /\ p[k] = <<xs[i + 1], ys[j + 1]>>
    <3>1. p[k] = <<xs[i + 1], ys[j + 1]>>
      BY <1>2
    <3> HIDE DEF i, j
    <3> QED
      BY <1>1, <2>3, <2>4, <3>1
  <2> HIDE DEF i, j
  <2> QED
    BY <2>5
<1>5. ASSUME NEW i \in 1..m, NEW j \in 1..r
      PROVE  \E k \in 1..q : p[k] = <<xs[i], ys[j]>>
  <2> HIDE DEF m, r
  <2> DEFINE a == i - 1
             b == j - 1
             t == a * r + b
             u == t + 1
  <2>1. a \in Nat /\ a < m /\ b \in 0..(r - 1) /\ b \in Nat /\ b < r /\ r > 0 /\ a + 1 = i /\ b + 1 = j
    BY <1>1
  <2> HIDE DEF a, b
  <2>2. t \in Nat
    BY <1>1, <2>1
  <2>3. t < q
    BY <1>1, <2>1
  <2>4. t \div r = a /\ t % r = b
    BY <1>1, <2>1
  <2> HIDE DEF t, q
  <2>5. u \in 1..q /\ u - 1 = t
    BY <1>1, <2>2, <2>3
  <2> HIDE DEF u
  <2>6. p[u] = <<xs[i], ys[j]>>
    <3>1. p[u] = <<xs[((u - 1) \div r) + 1], ys[((u - 1) % r) + 1]>>
      BY <1>2, <2>5, Zenon
    <3>2. (u - 1) \div r = a /\ (u - 1) % r = b
      BY <2>4, <2>5
    <3> QED
      BY <2>1, <3>1, <3>2
  <2> QED
    BY <2>5, <2>6
<1>6. /\ Len(p) \in Nat
      /\ \A k \in 1..Len(p) : \E i \in 1..m, j \in 1..r : p[k] = <<xs[i], ys[j]>>
      /\ \A i \in 1..m, j \in 1..r : \E k \in 1..Len(p) : p[k] = <<xs[i], ys[j]>>
  <2> HIDE DEF m, r, q
  <2> QED
    BY <1>1, <1>3, <1>4, <1>5
<1>7. AllPairs(p, xs, ys)
  BY <1>6, Zenon DEF AllPairs
<1> QED
  BY <1>7 DEF p

(* A cleared console that has not scrolled since. *)
Flat(c) == c \in Con /\ c.sb_view = 0 /\ c.sb_count = 0 /\ c.vga = c.screen

(* One cell of a screen changed. *)
Changed(screen, x, y, v) == [screen EXCEPT ![y][x] = v]

LEMMA FlatPutc ==
  ASSUME NEW c, Flat(c), NEW ch \in Int, ch \notin {Newline, Backspace},
         c.cursor_x + 1 < VGA_COLS \/ c.cursor_y + 1 < VGA_ROWS
  PROVE  LET d == console_putc(c, ch)
         IN  /\ Flat(d)
             /\ d.screen = Changed(c.screen, c.cursor_x, c.cursor_y, CharCell(ch))
             /\ c.cursor_x + 1 < VGA_COLS => d.cursor_x = c.cursor_x + 1 /\ d.cursor_y = c.cursor_y
<1> DEFINE x == c.cursor_x
           y == c.cursor_y
           new == [c.screen EXCEPT ![y][x] = CharCell(ch)]
           e == SetCell(c, x, y, CharCell(ch))
           d == console_putc(c, ch)
<1>1. c \in Con /\ x \in Col /\ y \in Row /\ x \in Int /\ y \in Int /\ CharCell(ch) \in Int
  <2>1. c \in Con /\ x \in Col /\ y \in Row
    BY DEF Flat, Con
  <2> QED
    BY <2>1, Screen, CharTyped DEF Col, Row
<1>2. ensure_bottom(c) = c
  BY DEF ensure_bottom, Flat
<1>3. e \in Con
  BY <1>1, CellTyped
<1>4. e = [[c EXCEPT !.screen = new] EXCEPT !.vga = new]
  BY DEF SetCell, Flat, Con
<1>5. e.screen = new /\ e.vga = new /\ e.sb_view = 0 /\ e.sb_count = 0 /\ e.cursor_x = x /\ e.cursor_y = y
  BY <1>4 DEF Flat, Con
<1>6. d = LET g == PutGlyph(c, ch) IN IF g.sb_view = 0 THEN update_cursor(g) ELSE g
  BY <1>2, PutcIs DEF PutLive
<1>7. PutGlyph(c, ch) = IF x + 1 >= VGA_COLS THEN NextLine(e) ELSE [e EXCEPT !.cursor_x = @ + 1]
  BY DEF PutGlyph
<1> HIDE DEF d, e, new
<1> DEFINE g == PutGlyph(c, ch)
<1>8. /\ g \in Con /\ g.screen = new /\ g.vga = new /\ g.sb_view = 0 /\ g.sb_count = 0
      /\ x + 1 < VGA_COLS => g.cursor_x = x + 1 /\ g.cursor_y = y
  <2>1. CASE x + 1 >= VGA_COLS
    <3>1. ~(x + 1 < VGA_COLS) /\ y + 1 < VGA_ROWS /\ ~(y + 1 >= VGA_ROWS)
      BY <1>1, <2>1, Screen
    <3>2. g = [e EXCEPT !.cursor_x = 0, !.cursor_y = y + 1]
      BY <1>3, <1>5, <1>7, <2>1, <3>1 DEF NextLine, Con
    <3>3. y + 1 \in Row
      BY <1>1, <3>1, Screen DEF Row
    <3> HIDE DEF g
    <3> QED
      BY <1>3, <1>5, <3>1, <3>2, <3>3, Corner DEF Con
  <2>2. CASE ~(x + 1 >= VGA_COLS)
    <3>1. g = [e EXCEPT !.cursor_x = x + 1] /\ x + 1 \in Col
      BY <1>1, <1>3, <1>5, <1>7, <2>2, Screen DEF Col
    <3> HIDE DEF g
    <3> QED
      BY <1>3, <1>5, <3>1 DEF Con
  <2> QED
    BY <2>1, <2>2
<1> HIDE DEF g
<1>9. d = update_cursor(g)
  BY <1>6, <1>8 DEF g
<1>10. d \in Con
  BY <1>8, <1>9, UpdateTyped
<1>11. /\ d.screen = g.screen /\ d.vga = g.vga /\ d.sb_view = g.sb_view /\ d.sb_count = g.sb_count
       /\ d.cursor_x = g.cursor_x /\ d.cursor_y = g.cursor_y
  BY <1>8, <1>9 DEF update_cursor, Con
<1> QED
  BY <1>8, <1>10, <1>11 DEF Flat, Changed, d, new

LEMMA FlatMove ==
  ASSUME NEW c, Flat(c), NEW x \in Col, NEW y \in Row
  PROVE  LET d == console_set_cursor(c, x, y)
         IN  Flat(d) /\ d.screen = c.screen /\ d.cursor_x = x /\ d.cursor_y = y
<1> DEFINE e == [c EXCEPT !.cursor_x = x, !.cursor_y = y]
           d == console_set_cursor(c, x, y)
<1>1. x \in Nat /\ x < VGA_COLS /\ y \in Nat /\ y < VGA_ROWS
  BY Screen DEF Col, Row
<1>2. d = update_cursor(e)
  BY <1>1 DEF console_set_cursor, Flat, Con
<1>3. /\ e \in Con /\ e.screen = c.screen /\ e.vga = c.vga /\ e.sb_view = c.sb_view
      /\ e.sb_count = c.sb_count /\ e.cursor_x = x /\ e.cursor_y = y
  BY DEF Flat, Con
<1> HIDE DEF e, d
<1>4. d \in Con
  BY <1>2, <1>3, UpdateTyped
<1>5. /\ d.screen = e.screen /\ d.vga = e.vga /\ d.sb_view = e.sb_view /\ d.sb_count = e.sb_count
      /\ d.cursor_x = e.cursor_x /\ d.cursor_y = e.cursor_y
  BY <1>2, <1>3 DEF update_cursor, Con
<1> QED
  BY <1>3, <1>4, <1>5 DEF Flat, d

LEMMA FlatClear ==
  ASSUME NEW c \in Con
  PROVE  LET d == console_clear(c)
         IN  Flat(d) /\ \A y \in Row, x \in Col : d.screen[y][x] = Blank
<1> DEFINE new == [y \in Row |-> BlankLine]
           e == [c EXCEPT !.screen = new, !.vga = new, !.sb_start = 0, !.sb_count = 0,
                          !.sb_view = 0, !.cursor_x = 0, !.cursor_y = 0]
           d == console_clear(c)
<1>1. d = update_cursor(e)
  BY DEF console_clear
<1>2. d \in Con
  BY ClearTyped
<1>3. \A y \in Row, x \in Col : new[y][x] = Blank
  BY DEF BlankLine
<1> HIDE DEF new
<1>4. e.screen = new /\ e.vga = new /\ e.sb_view = 0 /\ e.sb_count = 0
  BY DEF Con
<1>5. d.screen = e.screen /\ d.vga = e.vga /\ d.sb_view = e.sb_view /\ d.sb_count = e.sb_count
  BY <1>1 DEF update_cursor, Con
<1> HIDE DEF e, d
<1> QED
  BY <1>2, <1>3, <1>4, <1>5 DEF Flat, d

LEMMA DrawAtFlat ==
  ASSUME NEW c, Flat(c), NEW x \in Col, x + 1 < VGA_COLS, NEW y \in Row,
         NEW ch \in Int, ch \notin {Newline, Backspace}
  PROVE  LET d == DrawAt(c, <<x, y>>, ch)
         IN  Flat(d) /\ d.screen = Changed(c.screen, x, y, CharCell(ch))
<1> DEFINE e == console_set_cursor(c, x, y)
           d == DrawAt(c, <<x, y>>, ch)
<1>1. Flat(e) /\ e.screen = c.screen /\ e.cursor_x = x /\ e.cursor_y = y
  BY FlatMove
<1>2. d = console_putc(e, ch)
  BY DrawAtIs
<1> HIDE DEF e, d
<1>3. Flat(d) /\ d.screen = Changed(e.screen, e.cursor_x, e.cursor_y, CharCell(ch))
  BY <1>1, <1>2, FlatPutc
<1> QED
  BY <1>1, <1>3 DEF d

LEMMA CellOf ==
  ASSUME NEW screen \in [Row -> Lines], NEW x \in Col, NEW y \in Row, NEW v,
         NEW i \in Col, NEW j \in Row
  PROVE  Changed(screen, x, y, v)[j][i] = IF i = x /\ j = y THEN v ELSE screen[j][i]
<1>1. screen[y] \in Lines /\ screen[j] \in Lines
  OBVIOUS
<1> QED
  BY <1>1 DEF Lines, Changed

(* Where a character of the drawing may stand without a wrap. *)
Spots == {at \in Col \X Row : at[1] + 1 < VGA_COLS}

Spotted(s) == Len(s) \in Nat /\ \A i \in 1..Len(s) : s[i] \in Spots

(* d is c with ch at the points s. *)
Dots(c, s, ch, d) ==
  /\ Flat(d)
  /\ \A x \in Col, y \in Row :
       d.screen[y][x] = IF \E i \in 1..Len(s) : s[i] = <<x, y>>
                        THEN CharCell(ch) ELSE c.screen[y][x]

LEMMA DottedFlat ==
  ASSUME NEW c, Flat(c), NEW s, Spotted(s), NEW ch \in Int, ch \notin {Newline, Backspace}
  PROVE  Dots(c, s, ch, DrawPoints(c, s, ch))
<1> USE DEF Spotted
<1> DEFINE n == Len(s)
           w == Dotted(c, s, ch)
           Hit(x, y, m) == \E i \in 1..m : s[i] = <<x, y>>
           Done(m) == /\ Flat(w[m])
                      /\ \A x \in Col, y \in Row :
                           w[m].screen[y][x] = IF Hit(x, y, m) THEN CharCell(ch) ELSE c.screen[y][x]
           T == {m \in 0..n : Done(m)}
<1>1. /\ w[0] = c /\ \A i \in 1..n : w[i] = DrawAt(w[i - 1], s[i], ch)
      /\ DrawPoints(c, s, ch) = w[n]
  <2>1. \A i \in 1..Len(s) : s[i] \in Nat \X Nat
    BY Screen DEF Spots, Col, Row
  <2>2. c \in Con
    BY DEF Flat
  <2> QED
    BY <2>1, <2>2, DottedRounds
<1> HIDE DEF w
<1>2. 0 \in T
  <2>1. \A x, y : ~Hit(x, y, 0)
    OBVIOUS
  <2>2. Done(0)
    BY <1>1, <2>1
  <2> QED
    BY <2>2
<1>3. ASSUME NEW m \in 1..n, m - 1 \in T PROVE m \in T
  <2>1. PICK a \in Col, b \in Row : s[m] = <<a, b>> /\ a + 1 < VGA_COLS
    BY DEF Spots
  <2>2. Done(m - 1)
    BY <1>3
  <2> DEFINE e == w[m - 1]
             d == w[m]
  <2>3. d = DrawAt(e, <<a, b>>, ch) /\ Flat(e)
    BY <1>1, <2>1, <2>2
  <2> HIDE DEF d, e
  <2>4. Flat(d) /\ d.screen = Changed(e.screen, a, b, CharCell(ch)) /\ e.screen \in [Row -> Lines]
    <3>1. e.screen \in [Row -> Lines]
      BY <2>3 DEF Flat, Con
    <3>2. Flat(e) /\ a + 1 < VGA_COLS
      BY <2>1, <2>3
    <3>3. Flat(DrawAt(e, <<a, b>>, ch)) /\ DrawAt(e, <<a, b>>, ch).screen = Changed(e.screen, a, b, CharCell(ch))
      BY <3>2, DrawAtFlat
    <3> QED
      BY <2>3, <3>1, <3>3
  <2>5. ASSUME NEW x \in Col, NEW y \in Row
        PROVE  d.screen[y][x] = IF Hit(x, y, m) THEN CharCell(ch) ELSE c.screen[y][x]
    <3>1. e.screen[y][x] = IF Hit(x, y, m - 1) THEN CharCell(ch) ELSE c.screen[y][x]
      BY <2>2 DEF e
    <3>2. d.screen[y][x] = IF x = a /\ y = b THEN CharCell(ch) ELSE e.screen[y][x]
      BY <2>4, CellOf
    <3>3. Hit(x, y, m) <=> Hit(x, y, m - 1) \/ s[m] = <<x, y>>
      <4>1. \A i : i \in 1..m <=> i \in 1..(m - 1) \/ i = m
        OBVIOUS
      <4> QED
        BY <4>1
    <3>4. s[m] = <<x, y>> <=> x = a /\ y = b
      BY <2>1
    <3> HIDE DEF Hit
    <3> QED
      BY <3>1, <3>2, <3>3, <3>4
  <2> HIDE DEF Hit
  <2>6. Done(m)
    BY <2>4, <2>5 DEF d
  <2>7. m \in 0..n
    OBVIOUS
  <2> QED
    BY <2>6, <2>7
<1> HIDE DEF T
<1>4. n \in T
  <2>1. n \in 0..n
    OBVIOUS
  <2> QED
    BY <1>2, <1>3, <2>1, UpTo
<1>5. Done(n)
  BY <1>4 DEF T
<1>6. Dots(c, s, ch, w[n])
  BY <1>5, Zenon DEF Dots
<1> QED
  BY <1>1, <1>6, Zenon

(* A string that ends in its row, or fills it when there is another one    *)
(* below.                                                                  *)
LEMMA WriteFlat ==
  ASSUME NEW c, Flat(c), NEW s, Len(s) \in Nat,
         \A i \in 1..Len(s) : s[i] \in Int \ {Newline, Backspace},
         c.cursor_x + Len(s) <= VGA_COLS,
         c.cursor_x + Len(s) < VGA_COLS \/ c.cursor_y + 1 < VGA_ROWS
  PROVE  LET d == console_write(c, s)
         IN  /\ Flat(d)
             /\ \A x \in Col, y \in Row :
                  d.screen[y][x] = IF y = c.cursor_y /\ x \in c.cursor_x..(c.cursor_x + Len(s) - 1)
                                   THEN CharCell(s[x - c.cursor_x + 1]) ELSE c.screen[y][x]
             /\ c.cursor_x + Len(s) < VGA_COLS =>
                  d.cursor_x = c.cursor_x + Len(s) /\ d.cursor_y = c.cursor_y
<1> DEFINE n == Len(s)
           a == c.cursor_x
           b == c.cursor_y
           w == Written(c, s)
           In(x, y, m) == y = b /\ x \in a..(a + m - 1)
           Done(m) == /\ Flat(w[m])
                      /\ \A x \in Col, y \in Row :
                           w[m].screen[y][x] = IF In(x, y, m) THEN CharCell(s[x - a + 1]) ELSE c.screen[y][x]
                      /\ a + m < VGA_COLS => w[m].cursor_x = a + m /\ w[m].cursor_y = b
           T == {m \in 0..n : Done(m)}
<1>1. /\ w[0] = c /\ \A i \in 1..n : w[i] = console_putc(w[i - 1], s[i])
      /\ console_write(c, s) = w[n]
  <2>1. c \in Con /\ \A i \in 1..Len(s) : s[i] \in Int
    BY DEF Flat
  <2> QED
    BY <2>1, WrittenRounds
<1>2. a \in Col /\ b \in Row /\ a \in Int /\ b \in Int
  <2>1. a \in Col /\ b \in Row
    BY DEF Flat, Con
  <2> QED
    BY <2>1, Screen DEF Col, Row
<1> HIDE DEF w
<1>3. 0 \in T
  <2>1. \A x, y : ~In(x, y, 0)
    BY <1>2
  <2>2. a + 0 = a
    BY <1>2
  <2>3. Done(0)
    BY <1>1, <2>1, <2>2
  <2> QED
    BY <2>3
<1>4. ASSUME NEW m \in 1..n, m - 1 \in T PROVE m \in T
  <2> DEFINE e == w[m - 1]
             d == w[m]
             p == a + (m - 1)
  <2>1. Done(m - 1)
    BY <1>4
  <2> HIDE DEF n, a, b
  <2>2. p + 1 = a + m /\ p < VGA_COLS /\ p \in Col /\ (p + 1 < VGA_COLS \/ b + 1 < VGA_ROWS)
    <3>1. n \in Nat /\ a + n <= VGA_COLS /\ (a + n < VGA_COLS \/ b + 1 < VGA_ROWS)
      BY DEF n, a, b
    <3> QED
      BY <1>2, <3>1, Screen DEF Col
  <2>3. Flat(e) /\ e.cursor_x = p /\ e.cursor_y = b
    BY <2>1, <2>2
  <2>4. d = console_putc(e, s[m]) /\ s[m] \in Int /\ s[m] \notin {Newline, Backspace}
    BY <1>1 DEF n
  <2> HIDE DEF p, d, e
  <2>5. /\ Flat(d) /\ d.screen = Changed(e.screen, p, b, CharCell(s[m])) /\ e.screen \in [Row -> Lines]
        /\ p + 1 < VGA_COLS => d.cursor_x = p + 1 /\ d.cursor_y = b
    <3>1. e.screen \in [Row -> Lines]
      BY <2>3 DEF Flat, Con
    <3> DEFINE q == console_putc(e, s[m])
    <3>2. /\ Flat(q) /\ q.screen = Changed(e.screen, e.cursor_x, e.cursor_y, CharCell(s[m]))
          /\ e.cursor_x + 1 < VGA_COLS => q.cursor_x = e.cursor_x + 1 /\ q.cursor_y = e.cursor_y
      BY <2>2, <2>3, <2>4, FlatPutc
    <3> QED
      BY <2>3, <2>4, <3>1, <3>2
  <2>6. ASSUME NEW x \in Col, NEW y \in Row
        PROVE  d.screen[y][x] = IF In(x, y, m) THEN CharCell(s[x - a + 1]) ELSE c.screen[y][x]
    <3>1. e.screen[y][x] = IF In(x, y, m - 1) THEN CharCell(s[x - a + 1]) ELSE c.screen[y][x]
      BY <2>1 DEF e
    <3>2. d.screen[y][x] = IF x = p /\ y = b THEN CharCell(s[m]) ELSE e.screen[y][x]
      <4>1. e.screen \in [Row -> Lines] /\ p \in Col /\ b \in Row
        BY <1>2, <2>2, <2>5
      <4>2. Changed(e.screen, p, b, CharCell(s[m]))[y][x] = IF x = p /\ y = b THEN CharCell(s[m]) ELSE e.screen[y][x]
        BY <4>1, CellOf
      <4> QED
        BY <2>5, <4>2, Zenon
    <3>3. In(x, y, m) <=> In(x, y, m - 1) \/ (x = p /\ y = b)
      <4>1. x \in Int
        BY Screen DEF Col
      <4> QED
        BY <1>2, <4>1 DEF p
    <3>4. x = p => x - a + 1 = m
      BY <1>2 DEF p
    <3> HIDE DEF In
    <3> QED
      BY <3>1, <3>2, <3>3, <3>4
  <2> HIDE DEF In
  <2>7. Done(m)
    BY <2>2, <2>5, <2>6 DEF d
  <2>8. m \in 0..n
    BY DEF n
  <2> QED
    BY <2>7, <2>8
<1> HIDE DEF T
<1>5. n \in T
  <2>1. n \in 0..n
    OBVIOUS
  <2> QED
    BY <1>3, <1>4, <2>1, UpTo
<1> QED
  BY <1>1, <1>5 DEF T

(* Rows with another one below. *)
Bands == {y \in Row : y + 1 < VGA_ROWS}

LEMMA RowFlat ==
  ASSUME NEW c, Flat(c), NEW y \in Bands
  PROVE  LET d == DrawRow(c, y)
         IN  /\ Flat(d)
             /\ \A i \in Col, j \in Row :
                  d.screen[j][i] = IF j = y THEN CharCell(LineHorz) ELSE c.screen[j][i]
<1> DEFINE e == console_set_cursor(c, 0, y)
           d == DrawRow(c, y)
<1>1. y \in Row /\ y + 1 < VGA_ROWS
  BY DEF Bands
<1>2. Flat(e) /\ e.screen = c.screen /\ e.cursor_x = 0 /\ e.cursor_y = y
  BY <1>1, Corner, FlatMove
<1>3. d = console_write(e, HorzLine)
  BY DEF DrawRow, HorzLine
<1> HIDE DEF e, d
<1>4. /\ Len(HorzLine) = VGA_COLS /\ VGA_COLS \in Nat
      /\ \A i \in 1..VGA_COLS : HorzLine[i] = LineHorz /\ HorzLine[i] \in Int \ {Newline, Backspace}
  BY HorzLineFacts, Screen DEF LineHorz, Newline, Backspace
<1>5. /\ e.cursor_x + Len(HorzLine) <= VGA_COLS
      /\ e.cursor_x + Len(HorzLine) < VGA_COLS \/ e.cursor_y + 1 < VGA_ROWS
      /\ Len(HorzLine) \in Nat
      /\ \A i \in 1..Len(HorzLine) : HorzLine[i] \in Int \ {Newline, Backspace}
  BY <1>1, <1>2, <1>4
<1>6. /\ Flat(d)
      /\ \A i \in Col, j \in Row :
           d.screen[j][i] = IF j = e.cursor_y /\ i \in e.cursor_x..(e.cursor_x + Len(HorzLine) - 1)
                            THEN CharCell(HorzLine[i - e.cursor_x + 1]) ELSE e.screen[j][i]
  BY <1>2, <1>3, <1>5, WriteFlat
<1>7. \A i \in Col : i \in 0..(0 + VGA_COLS - 1) /\ HorzLine[i - 0 + 1] = LineHorz
  <2>1. \A i \in Col : i \in 0..(0 + VGA_COLS - 1) /\ i - 0 + 1 \in 1..VGA_COLS
    BY <1>4 DEF Col
  <2> QED
    BY <1>4, <2>1
<1>8. \A i \in Col, j \in Row : d.screen[j][i] = IF j = y THEN CharCell(LineHorz) ELSE c.screen[j][i]
  BY <1>2, <1>4, <1>6, <1>7
<1> QED
  BY <1>6, <1>8 DEF d

LEMMA LinedFlat ==
  ASSUME NEW c, Flat(c), NEW s, Len(s) \in Nat, \A i \in 1..Len(s) : s[i] \in Bands
  PROVE  LET d == DrawRows(c, s)
         IN  /\ Flat(d)
             /\ \A x \in Col, y \in Row :
                  d.screen[y][x] = IF \E i \in 1..Len(s) : s[i] = y
                                   THEN CharCell(LineHorz) ELSE c.screen[y][x]
<1> DEFINE n == Len(s)
           w == Lined(c, s)
           Hit(y, m) == \E i \in 1..m : s[i] = y
           Done(m) == /\ Flat(w[m])
                      /\ \A x \in Col, y \in Row :
                           w[m].screen[y][x] = IF Hit(y, m) THEN CharCell(LineHorz) ELSE c.screen[y][x]
           T == {m \in 0..n : Done(m)}
<1>1. /\ w[0] = c /\ \A i \in 1..n : w[i] = DrawRow(w[i - 1], s[i])
      /\ DrawRows(c, s) = w[n]
  <2>1. \A i \in 1..Len(s) : s[i] \in Nat
    BY Screen DEF Bands, Row
  <2>2. c \in Con
    BY DEF Flat
  <2> QED
    BY <2>1, <2>2, LinedRounds
<1> HIDE DEF w
<1>2. 0 \in T
  <2>1. \A y : ~Hit(y, 0)
    OBVIOUS
  <2>2. Done(0)
    BY <1>1, <2>1
  <2> QED
    BY <2>2
<1>3. ASSUME NEW m \in 1..n, m - 1 \in T PROVE m \in T
  <2>1. Done(m - 1)
    BY <1>3
  <2> DEFINE e == w[m - 1]
             d == w[m]
  <2>2. d = DrawRow(e, s[m]) /\ Flat(e) /\ s[m] \in Bands
    BY <1>1, <2>1
  <2> HIDE DEF d, e
  <2>3. /\ Flat(d)
        /\ \A i \in Col, j \in Row :
             d.screen[j][i] = IF j = s[m] THEN CharCell(LineHorz) ELSE e.screen[j][i]
    BY <2>2, RowFlat
  <2>4. ASSUME NEW x \in Col, NEW y \in Row
        PROVE  d.screen[y][x] = IF Hit(y, m) THEN CharCell(LineHorz) ELSE c.screen[y][x]
    <3>1. e.screen[y][x] = IF Hit(y, m - 1) THEN CharCell(LineHorz) ELSE c.screen[y][x]
      BY <2>1 DEF e
    <3>2. Hit(y, m) <=> Hit(y, m - 1) \/ s[m] = y
      <4>1. \A i : i \in 1..m <=> i \in 1..(m - 1) \/ i = m
        OBVIOUS
      <4> QED
        BY <4>1
    <3> HIDE DEF Hit
    <3> QED
      BY <2>3, <3>1, <3>2
  <2> HIDE DEF Hit
  <2>5. Done(m)
    BY <2>3, <2>4 DEF d
  <2>6. m \in 0..n
    OBVIOUS
  <2> QED
    BY <2>5, <2>6
<1> HIDE DEF T
<1>4. n \in T
  <2>1. n \in 0..n
    OBVIOUS
  <2> QED
    BY <1>2, <1>3, <2>1, UpTo
<1> QED
  BY <1>1, <1>4 DEF T

LEMMA AllRowsFacts ==
  /\ AllRows \in Seq(Row) /\ Len(AllRows) = VGA_ROWS
  /\ \A y \in Row : y + 1 \in 1..VGA_ROWS /\ AllRows[y + 1] = y
<1>1. AllRows \in [1..VGA_ROWS -> Row]
  BY Screen DEF AllRows, Row
<1>2. \A y \in Row : y + 1 \in 1..VGA_ROWS /\ y + 1 - 1 = y
  BY Screen DEF Row
<1>3. AllRows \in Seq(Row) /\ Len(AllRows) = VGA_ROWS
  <2>1. VGA_ROWS \in Nat
    BY Screen
  <2> QED
    BY <1>1, <2>1, IsASeq, LenProperties
<1>4. \A y \in Row : AllRows[y + 1] = y
  BY <1>2, Screen DEF AllRows, Row
<1> QED
  BY <1>2, <1>3, <1>4

LEMMA DividersFacts ==
  ASSUME NEW n \in Nat, n > 0, NEW S, NEW f, \A i \in 1..(n - 1) : f[i] \in S
  PROVE  LET s == Dividers(f, n)
         IN  s \in Seq(S) /\ Len(s) = n - 1 /\ \A i \in 1..(n - 1) : s[i] = f[i]
<1>1. Dividers(f, n) \in [1..(n - 1) -> S]
  BY DEF Dividers
<1> QED
  BY <1>1, IsASeq, LenProperties DEF Dividers

(* What stands in a column and row when xs and ys have dividers. *)
Ruling(x, y, xs, ys) ==
  CASE x \in xs /\ y \in ys -> CharCell(LineCross)
    [] x \in xs /\ y \notin ys -> CharCell(LineVert)
    [] x \notin xs /\ y \in ys -> CharCell(LineHorz)
    [] OTHER -> Blank

Elements(s) == {s[i] : i \in 1..Len(s)}

LEMMA Glyphs ==
  /\ LineVert \in Int /\ LineVert \notin {Newline, Backspace}
  /\ LineHorz \in Int /\ LineHorz \notin {Newline, Backspace}
  /\ LineCross \in Int /\ LineCross \notin {Newline, Backspace}
  BY DEF LineVert, LineHorz, LineCross, Newline, Backspace

Inner == {x \in Col : x + 1 < VGA_COLS}

LEMMA LinesFlat ==
  ASSUME NEW c, Flat(c), \A x \in Col, y \in Row : c.screen[y][x] = Blank,
         NEW xs \in Seq(Inner), NEW ys \in Seq(Bands)
  PROVE  LET b == DrawPoints(c, Points(xs, AllRows), LineVert)
             d == DrawPoints(DrawRows(b, ys), Points(xs, ys), LineCross)
         IN  /\ Flat(d)
             /\ \A x \in Col, y \in Row : d.screen[y][x] = Ruling(x, y, Elements(xs), Elements(ys))
<1> DEFINE p == Points(xs, AllRows)
           q == Points(xs, ys)
           b == DrawPoints(c, p, LineVert)
           e == DrawRows(b, ys)
           d == DrawPoints(e, q, LineCross)
<1>1. /\ \A i \in 1..Len(xs) : xs[i] \in Inner
      /\ \A j \in 1..Len(ys) : ys[j] \in Bands
      /\ \A j \in 1..Len(AllRows) : AllRows[j] \in Row
      /\ Len(ys) \in Nat
  BY AllRowsFacts
<1>2. \A x \in Inner, y \in Row : <<x, y>> \in Spots
  BY DEF Inner, Spots
<1>3. /\ Spotted(p)
      /\ \A x \in Col, y \in Row : (\E k \in 1..Len(p) : p[k] = <<x, y>>) <=> x \in Elements(xs)
  <2>1. AllPairs(p, xs, AllRows)
    BY AllRowsFacts, PointsFacts
  <2> HIDE DEF p
  <2>2. ASSUME NEW k \in 1..Len(p) PROVE p[k] \in Spots /\ \A x, y : p[k] = <<x, y>> => x \in Elements(xs)
    <3>1. PICK i \in 1..Len(xs), j \in 1..Len(AllRows) : p[k] = <<xs[i], AllRows[j]>>
      BY <2>1 DEF AllPairs
    <3>2. p[k] \in Spots
      BY <1>1, <1>2, <3>1
    <3>3. \A x, y : p[k] = <<x, y>> => x = xs[i]
      BY <3>1
    <3> QED
      BY <3>2, <3>3 DEF Elements
  <2>3. ASSUME NEW x \in Elements(xs), NEW y \in Row PROVE \E k \in 1..Len(p) : p[k] = <<x, y>>
    <3>1. PICK i \in 1..Len(xs) : x = xs[i]
      BY DEF Elements
    <3>2. y + 1 \in 1..Len(AllRows) /\ AllRows[y + 1] = y
      BY AllRowsFacts
    <3> QED
      BY <2>1, <3>1, <3>2 DEF AllPairs
  <2> QED
    BY <2>1, <2>2, <2>3 DEF AllPairs, Spotted
<1>4. /\ Spotted(q)
      /\ \A x \in Col, y \in Row :
           (\E k \in 1..Len(q) : q[k] = <<x, y>>) <=> x \in Elements(xs) /\ y \in Elements(ys)
  <2>1. AllPairs(q, xs, ys)
    BY PointsFacts
  <2> HIDE DEF q
  <2>2. ASSUME NEW k \in 1..Len(q)
        PROVE  q[k] \in Spots /\ \A x, y : q[k] = <<x, y>> => x \in Elements(xs) /\ y \in Elements(ys)
    <3>1. PICK i \in 1..Len(xs), j \in 1..Len(ys) : q[k] = <<xs[i], ys[j]>>
      BY <2>1 DEF AllPairs
    <3>2. q[k] \in Spots
      BY <1>1, <1>2, <3>1 DEF Bands
    <3>3. \A x, y : q[k] = <<x, y>> => x = xs[i] /\ y = ys[j]
      BY <3>1
    <3> QED
      BY <3>2, <3>3 DEF Elements
  <2>3. ASSUME NEW x \in Elements(xs), NEW y \in Elements(ys) PROVE \E k \in 1..Len(q) : q[k] = <<x, y>>
    <3>1. PICK i \in 1..Len(xs) : x = xs[i]
      BY DEF Elements
    <3>2. PICK j \in 1..Len(ys) : y = ys[j]
      BY DEF Elements
    <3> QED
      BY <2>1, <3>1, <3>2 DEF AllPairs
  <2> QED
    BY <2>1, <2>2, <2>3 DEF AllPairs, Spotted
<1> HIDE DEF p, q
<1>5. Dots(c, p, LineVert, b)
  BY <1>3, Glyphs, DottedFlat
<1> HIDE DEF b
<1>6. /\ Flat(e)
      /\ \A x \in Col, y \in Row :
           e.screen[y][x] = IF y \in Elements(ys) THEN CharCell(LineHorz) ELSE b.screen[y][x]
  <2>1. /\ Flat(e)
        /\ \A x \in Col, y \in Row :
             e.screen[y][x] = IF \E i \in 1..Len(ys) : ys[i] = y THEN CharCell(LineHorz) ELSE b.screen[y][x]
    BY <1>1, <1>5, LinedFlat DEF Dots
  <2>2. \A y : (\E i \in 1..Len(ys) : ys[i] = y) <=> y \in Elements(ys)
    BY DEF Elements
  <2> HIDE DEF e
  <2> QED
    BY <2>1, <2>2
<1> HIDE DEF e
<1>7. Dots(e, q, LineCross, d)
  BY <1>4, <1>6, Glyphs, DottedFlat
<1> HIDE DEF d
<1>8. ASSUME NEW x \in Col, NEW y \in Row
      PROVE  d.screen[y][x] = Ruling(x, y, Elements(xs), Elements(ys))
  <2> DEFINE X == x \in Elements(xs)
             Y == y \in Elements(ys)
  <2>1. d.screen[y][x] = IF X /\ Y THEN CharCell(LineCross) ELSE IF Y THEN CharCell(LineHorz)
                         ELSE IF X THEN CharCell(LineVert) ELSE Blank
    <3>1. b.screen[y][x] = IF X THEN CharCell(LineVert) ELSE Blank
      BY <1>3, <1>5 DEF Dots
    <3>2. d.screen[y][x] = IF X /\ Y THEN CharCell(LineCross) ELSE e.screen[y][x]
      BY <1>4, <1>7 DEF Dots
    <3>3. e.screen[y][x] = IF Y THEN CharCell(LineHorz) ELSE b.screen[y][x]
      BY <1>6
    <3> HIDE DEF X, Y
    <3> QED
      BY <3>1, <3>2, <3>3
  <2> QED
    BY <2>1 DEF Ruling
<1> QED
  BY <1>7, <1>8 DEF Dots, d, e, b, p, q

-----------------------------------------------------------------------------
(* The grid and its operations.                                            *)

Grids ==
  [grid_w : 1..MAX_GRID, grid_h : 1..MAX_GRID, active_x : Nat, active_y : Nat, gui_active : BOOLEAN]

Grid(p) == p \in Grids /\ p.active_x < p.grid_w /\ p.active_y < p.grid_h

LEMMA OneGrid == Grid(OnePane)
  BY WordSize DEF OnePane, Grid, Grids

LEMMA StartGrid ==
  ASSUME NEW p
  PROVE  Grid(pane_gui_start(p)) /\ Grid(pane_gui_stop(p))
<1>1. Grid(pane_gui_start(p))
  BY WordSize DEF pane_gui_start, Grid, Grids
<1> QED
  BY <1>1, OneGrid DEF pane_gui_stop

LEMMA ResizeGrid ==
  ASSUME NEW p, Grid(p), NEW delta \in {-1, 1}
  PROVE  Grid(pane_resize_width(p, delta)) /\ Grid(pane_resize_height(p, delta))
<1>1. p \in Grids /\ p.grid_w \in 1..MAX_GRID /\ p.grid_h \in 1..MAX_GRID
      /\ p.active_x \in Nat /\ p.active_y \in Nat /\ p.active_x < p.grid_w /\ p.active_y < p.grid_h
  BY DEF Grid, Grids
<1>2. ASSUME NEW a \in Nat, NEW n \in 1..MAX_GRID, a < n, n > 1
      PROVE  Shrunk(a, n) \in Nat /\ Shrunk(a, n) < n - 1 /\ n - 1 \in 1..MAX_GRID
  BY <1>2, WordSize DEF Shrunk
<1>3. Grid(pane_resize_width(p, delta))
  <2>1. CASE delta > 0 /\ p.grid_w < MAX_GRID
    <3>1. p.grid_w + 1 \in 1..MAX_GRID /\ p.active_x < p.grid_w + 1
      BY <1>1, <2>1, WordSize
    <3>2. pane_resize_width(p, delta) = [p EXCEPT !.grid_w = p.grid_w + 1]
      BY <1>1, <2>1 DEF pane_resize_width, Grids
    <3> QED
      BY <1>1, <3>1, <3>2 DEF Grid, Grids
  <2>2. CASE delta < 0 /\ p.grid_w > 1
    <3> DEFINE a == Shrunk(p.active_x, p.grid_w)
               n == p.grid_w - 1
    <3>1. a \in Nat /\ a < n /\ n \in 1..MAX_GRID
      BY <1>1, <1>2, <2>2
    <3>2. ~(delta > 0)
      BY <2>2
    <3>3. pane_resize_width(p, delta) = [p EXCEPT !.grid_w = n, !.active_x = a]
      BY <1>1, <2>2, <3>2 DEF pane_resize_width, Grids
    <3> HIDE DEF a, n
    <3> QED
      BY <1>1, <3>1, <3>3 DEF Grid, Grids
  <2>3. CASE ~(delta > 0 /\ p.grid_w < MAX_GRID) /\ ~(delta < 0 /\ p.grid_w > 1)
    BY <2>3 DEF pane_resize_width
  <2> QED
    BY <2>1, <2>2, <2>3
<1>4. Grid(pane_resize_height(p, delta))
  <2>1. CASE delta > 0 /\ p.grid_h < MAX_GRID
    <3>1. p.grid_h + 1 \in 1..MAX_GRID /\ p.active_y < p.grid_h + 1
      BY <1>1, <2>1, WordSize
    <3>2. pane_resize_height(p, delta) = [p EXCEPT !.grid_h = p.grid_h + 1]
      BY <1>1, <2>1 DEF pane_resize_height, Grids
    <3> QED
      BY <1>1, <3>1, <3>2 DEF Grid, Grids
  <2>2. CASE delta < 0 /\ p.grid_h > 1
    <3> DEFINE a == Shrunk(p.active_y, p.grid_h)
               n == p.grid_h - 1
    <3>1. a \in Nat /\ a < n /\ n \in 1..MAX_GRID
      BY <1>1, <1>2, <2>2
    <3>2. ~(delta > 0)
      BY <2>2
    <3>3. pane_resize_height(p, delta) = [p EXCEPT !.grid_h = n, !.active_y = a]
      BY <1>1, <2>2, <3>2 DEF pane_resize_height, Grids
    <3> HIDE DEF a, n
    <3> QED
      BY <1>1, <3>1, <3>3 DEF Grid, Grids
  <2>3. CASE ~(delta > 0 /\ p.grid_h < MAX_GRID) /\ ~(delta < 0 /\ p.grid_h > 1)
    BY <2>3 DEF pane_resize_height
  <2> QED
    BY <2>1, <2>2, <2>3
<1> QED
  BY <1>3, <1>4

LEMMA MoveGrid ==
  ASSUME NEW p, Grid(p)
  PROVE  /\ Grid(pane_move_left(p)) /\ Grid(pane_move_right(p))
         /\ Grid(pane_move_up(p)) /\ Grid(pane_move_down(p))
<1>1. p \in Grids /\ p.active_x \in Nat /\ p.active_y \in Nat /\ p.grid_w \in Nat /\ p.grid_h \in Nat
      /\ p.active_x < p.grid_w /\ p.active_y < p.grid_h
  BY WordSize DEF Grid, Grids
<1>2. ASSUME NEW a \in Nat, a < p.grid_w
      PROVE  Grid([p EXCEPT !.active_x = a])
  BY <1>1, <1>2 DEF Grid, Grids
<1>3. ASSUME NEW a \in Nat, a < p.grid_h
      PROVE  Grid([p EXCEPT !.active_y = a])
  BY <1>1, <1>3 DEF Grid, Grids
<1>4. Grid(pane_move_left(p))
  BY <1>1, <1>2 DEF pane_move_left, Grids
<1>5. Grid(pane_move_right(p))
  BY <1>1, <1>2 DEF pane_move_right, Grids
<1>6. Grid(pane_move_up(p))
  BY <1>1, <1>3 DEF pane_move_up, Grids
<1>7. Grid(pane_move_down(p))
  BY <1>1, <1>3 DEF pane_move_down, Grids
<1> QED
  BY <1>4, <1>5, <1>6, <1>7

LEMMA JunkTyped ==
  ASSUME NEW junk \in Junk
  PROVE  junk[1] \in 0..(WORD - 1) /\ junk[2] \in 0..(WORD - 1) /\ junk[1] \in Nat /\ junk[2] \in Nat
<1>1. junk \in (0..(WORD - 1)) \X (0..(WORD - 1))
  BY PaneAssumption
<1>2. junk[1] \in 0..(WORD - 1) /\ junk[2] \in 0..(WORD - 1)
  BY <1>1
<1> QED
  BY <1>2, WordSize

(* Where the columns and rows begin, whatever the size of the screen. *)
LEMMA StartsTyped ==
  ASSUME NEW p, Grid(p), NEW junk \in Junk
  PROVE  /\ p.grid_w \in Nat /\ p.grid_w > 0 /\ p.grid_h \in Nat /\ p.grid_h > 0
         /\ \A i \in 0..p.grid_w : xpos(p, junk)[i] \in Nat
         /\ \A i \in 0..p.grid_h : ypos(p, junk)[i] \in Nat
<1>1. p.grid_w \in Nat /\ p.grid_w > 0 /\ p.grid_h \in Nat /\ p.grid_h > 0
  BY WordSize DEF Grid, Grids
<1>2. VGA_COLS \in Nat /\ VGA_ROWS \in Nat /\ junk[1] \in Nat /\ junk[2] \in Nat
  BY Screen, JunkTyped
<1>3. \A i \in 0..p.grid_w : Sums(compute_layout(p.grid_w, p.active_x, VGA_COLS, junk[1]), p.grid_w)[i] \in Nat
  BY <1>1, <1>2, LayoutTyped
<1>4. \A i \in 0..p.grid_h : Sums(compute_layout(p.grid_h, p.active_y, VGA_ROWS, junk[2]), p.grid_h)[i] \in Nat
  BY <1>1, <1>2, LayoutTyped
<1> QED
  BY <1>1, <1>3, <1>4 DEF xpos, ypos

LEMMA PointsTyped ==
  ASSUME NEW c \in Con, NEW xs \in Seq(Nat), NEW ys \in Seq(Nat), NEW ch \in Int
  PROVE  DrawPoints(c, Points(xs, ys), ch) \in Con
<1> DEFINE p == Points(xs, ys)
<1>1. AllPairs(p, xs, ys)
  BY PointsFacts
<1> HIDE DEF p
<1>2. Len(p) \in Nat
  BY <1>1 DEF AllPairs
<1>3. ASSUME NEW k \in 1..Len(p) PROVE p[k] \in Nat \X Nat
  <2>1. PICK i \in 1..Len(xs), j \in 1..Len(ys) : p[k] = <<xs[i], ys[j]>>
    BY <1>1 DEF AllPairs
  <2>2. xs[i] \in Nat /\ ys[j] \in Nat
    OBVIOUS
  <2>3. <<xs[i], ys[j]>> \in Nat \X Nat
    BY <2>2
  <2> QED
    BY <2>1, <2>3, Zenon
<1>4. DrawPoints(c, p, ch) = Dotted(c, p, ch)[Len(p)] /\ \A i \in 0..Len(p) : Dotted(c, p, ch)[i] \in Con
  BY <1>2, <1>3, DottedRounds
<1>5. Len(p) \in 0..Len(p)
  BY <1>2
<1> QED
  BY <1>4, <1>5 DEF p

LEMMA GridTyped ==
  ASSUME NEW c \in Con, NEW p, Grid(p), NEW junk \in Junk
  PROVE  DrawGrid(c, p, junk) \in Con
<1> DEFINE xs == Dividers(xpos(p, junk), p.grid_w)
           ys == Dividers(ypos(p, junk), p.grid_h)
           a == console_clear(c)
           b == DrawPoints(a, Points(xs, AllRows), LineVert)
           e == DrawRows(b, ys)
           d == DrawPoints(e, Points(xs, ys), LineCross)
           x == xpos(p, junk)[p.active_x] + 1
           y == ypos(p, junk)[p.active_y] + 1
<1>1. /\ p.grid_w \in Nat /\ p.grid_w > 0 /\ p.grid_h \in Nat /\ p.grid_h > 0
      /\ \A i \in 0..p.grid_w : xpos(p, junk)[i] \in Nat
      /\ \A i \in 0..p.grid_h : ypos(p, junk)[i] \in Nat
  BY StartsTyped
<1>2. xs \in Seq(Nat) /\ ys \in Seq(Nat)
  <2>1. /\ \A i \in 1..(p.grid_w - 1) : xpos(p, junk)[i] \in Nat
        /\ \A i \in 1..(p.grid_h - 1) : ypos(p, junk)[i] \in Nat
    BY <1>1
  <2> QED
    BY <1>1, <2>1, DividersFacts
<1>3. x \in Nat /\ y \in Nat
  <2>1. p.active_x \in 0..p.grid_w /\ p.active_y \in 0..p.grid_h
    BY <1>1 DEF Grid, Grids
  <2> QED
    BY <1>1, <2>1
<1>4. AllRows \in Seq(Nat)
  <2>1. AllRows \in [1..VGA_ROWS -> Nat] /\ VGA_ROWS \in Nat
    BY Screen DEF AllRows
  <2> QED
    BY <2>1, IsASeq
<1>5. DrawGrid(c, p, junk) = console_set_cursor(d, x, y)
  BY DEF DrawGrid, Ruled
<1>6. a \in Con
  BY ClearTyped
<1> HIDE DEF xs, ys, a, x, y
<1>7. b \in Con
  BY <1>2, <1>4, <1>6, Glyphs, PointsTyped
<1> HIDE DEF b
<1>8. e \in Con
  <2>1. Len(ys) \in Nat /\ (\A i \in 1..Len(ys) : ys[i] \in Nat) /\ Len(ys) \in 0..Len(ys)
    BY <1>2
  <2>2. DrawRows(b, ys) = Lined(b, ys)[Len(ys)] /\ \A i \in 0..Len(ys) : Lined(b, ys)[i] \in Con
    BY <1>7, <2>1, LinedRounds
  <2> QED
    BY <2>1, <2>2
<1> HIDE DEF e
<1>9. d \in Con
  BY <1>2, <1>8, Glyphs, PointsTyped
<1> HIDE DEF d
<1> QED
  BY <1>3, <1>5, <1>9, SetCursorTyped

-----------------------------------------------------------------------------
(* The panes on a screen that has room for them.                           *)

LEMMA Room ==
  /\ Roomy(VGA_COLS) /\ Roomy(VGA_ROWS) /\ Roomy(80) /\ Roomy(25)
  /\ Len(Prompt) + 1 < VGA_COLS \div 2
  /\ Len(Prompt) \in Nat /\ Len(Prompt) > 0
<1>1. <<VGA_COLS, VGA_ROWS>> \in Sizes /\ <<80, 25>> \in Sizes
  BY DEF Sizes
<1>2. Len(Prompt) \in Nat /\ Len(Prompt) > 0
  BY ConsoleAssumption
<1> QED
  BY <1>1, <1>2, PaneCallsAssumption

LEMMA PromptGlyphs == \A i \in 1..Len(Prompt) : Prompt[i] \in Int \ {Newline, Backspace}
<1>1. Prompt \in Seq(32..126)
  BY ConsoleAssumption
<1> SUFFICES ASSUME NEW i \in 1..Len(Prompt) PROVE Prompt[i] \in Int \ {Newline, Backspace}
  OBVIOUS
<1>2. Prompt[i] \in 32..126
  BY <1>1, ElementOfSeq, Zenon
<1>3. \A x \in 32..126 : x \in Int \ {Newline, Backspace}
  BY DEF Newline, Backspace
<1> QED
  BY <1>2, <1>3

WidthsOf(p) == compute_layout(p.grid_w, p.active_x, VGA_COLS, 0)
HeightsOf(p) == compute_layout(p.grid_h, p.active_y, VGA_ROWS, 0)
StartsX(p) == Sums(WidthsOf(p), p.grid_w)
StartsY(p) == Sums(HeightsOf(p), p.grid_h)
DividersX(p) == {StartsX(p)[i] : i \in 1..(p.grid_w - 1)}
DividersY(p) == {StartsY(p)[i] : i \in 1..(p.grid_h - 1)}
Left(p) == StartsX(p)[p.active_x]
Top(p) == StartsY(p)[p.active_y]

(* Where the dividers stand, and the room in the active pane. *)
LEMMA PaneRoom ==
  ASSUME NEW p, Grid(p)
  PROVE  /\ \A i \in 1..(p.grid_w - 1) : StartsX(p)[i] \in Inner
         /\ \A i \in 1..(p.grid_h - 1) : StartsY(p)[i] \in Bands
         /\ Left(p) \in Nat /\ Top(p) \in Nat
         /\ WidthsOf(p)[p.active_x] \in Nat /\ HeightsOf(p)[p.active_y] \in Nat
         /\ Left(p) + WidthsOf(p)[p.active_x] <= VGA_COLS
         /\ Top(p) + HeightsOf(p)[p.active_y] <= VGA_ROWS
         /\ Len(Prompt) + 1 < WidthsOf(p)[p.active_x]
         /\ 1 < HeightsOf(p)[p.active_y]
<1> DEFINE n == p.grid_w
           a == p.active_x
           m == p.grid_h
           b == p.active_y
           v == WidthsOf(p)
           h == HeightsOf(p)
<1>1. n \in 1..MAX_GRID /\ a \in 0..(n - 1) /\ m \in 1..MAX_GRID /\ b \in 0..(m - 1)
  BY WordSize DEF Grid, Grids
<1>2. VGA_COLS \in Nat /\ VGA_ROWS \in Nat /\ 0 \in 0..(WORD - 1) /\ VGA_COLS >= 4 /\ VGA_ROWS >= 4
  BY Screen, WordSize, Room DEF Roomy
<1>3. /\ Fills(v, n, a, VGA_COLS) /\ (n = 1 => v[a] = VGA_COLS)
      /\ \A i \in 1..(n - 1) : Sums(v, n)[i] \in 2..(VGA_COLS - 2)
      /\ Sums(v, n)[a] \in Nat /\ Sums(v, n)[a] + v[a] <= VGA_COLS
  <2>1. Roomy(VGA_COLS)
    BY Room
  <2> QED
    BY <1>1, <1>2, <2>1, LayoutFacts DEF WidthsOf
<1>4. /\ Fills(h, m, b, VGA_ROWS) /\ (m = 1 => h[b] = VGA_ROWS)
      /\ \A i \in 1..(m - 1) : Sums(h, m)[i] \in 2..(VGA_ROWS - 2)
      /\ Sums(h, m)[b] \in Nat /\ Sums(h, m)[b] + h[b] <= VGA_ROWS
  <2>1. Roomy(VGA_ROWS)
    BY Room
  <2> QED
    BY <1>1, <1>2, <2>1, LayoutFacts DEF HeightsOf
<1>5. /\ StartsX(p) = Sums(v, n) /\ StartsY(p) = Sums(h, m)
      /\ Left(p) = Sums(v, n)[a] /\ Top(p) = Sums(h, m)[b]
  BY DEF StartsX, StartsY, Left, Top
<1> HIDE DEF n, a, m, b, v, h
<1>6. v[a] \in Nat /\ h[b] \in Nat /\ h[b] >= 2
  BY <1>1, <1>2, <1>3, <1>4 DEF Fills
<1>7. Len(Prompt) + 1 < v[a]
  <2>1. CASE n = 1
    BY <1>2, <1>3, <2>1, Room
  <2>2. CASE n # 1
    <3>1. n > 1
      BY <1>1, <2>2, WordSize
    <3>2. v[a] >= VGA_COLS \div 2
      BY <1>2, <1>3, <1>6, <3>1, WordSize DEF Fills
    <3> QED
      BY <1>2, <1>6, <3>2, Room
  <2> QED
    BY <2>1, <2>2
<1>8. 2..(VGA_COLS - 2) \subseteq Inner /\ 2..(VGA_ROWS - 2) \subseteq Bands
  BY <1>2 DEF Inner, Bands, Col, Row
<1> QED
  BY <1>3, <1>4, <1>5, <1>6, <1>7, <1>8 DEF n, a, m, b, v, h

(* The screen after the grid is drawn: it does not depend on the garbage. *)
LEMMA GridFlat ==
  ASSUME NEW c \in Con, NEW p, Grid(p), NEW junk \in Junk
  PROVE  LET d == DrawGrid(c, p, junk)
         IN  /\ Flat(d) /\ d.cursor_x = Left(p) + 1 /\ d.cursor_y = Top(p) + 1
             /\ \A x \in Col, y \in Row : d.screen[y][x] = Ruling(x, y, DividersX(p), DividersY(p))
<1>1. xpos(p, junk) = StartsX(p) /\ ypos(p, junk) = StartsY(p)
  <2>1. /\ p.grid_w \in 1..MAX_GRID /\ p.active_x \in 0..(p.grid_w - 1)
        /\ p.grid_h \in 1..MAX_GRID /\ p.active_y \in 0..(p.grid_h - 1)
    BY WordSize DEF Grid, Grids
  <2>2. VGA_COLS \in Nat /\ VGA_ROWS \in Nat /\ Roomy(VGA_COLS) /\ Roomy(VGA_ROWS)
    BY Screen, Room
  <2>3. junk[1] \in 0..(WORD - 1) /\ junk[2] \in 0..(WORD - 1)
    BY JunkTyped
  <2>4. compute_layout(p.grid_w, p.active_x, VGA_COLS, junk[1]) = WidthsOf(p)
    BY <2>1, <2>2, <2>3, LayoutFacts DEF WidthsOf
  <2>5. compute_layout(p.grid_h, p.active_y, VGA_ROWS, junk[2]) = HeightsOf(p)
    BY <2>1, <2>2, <2>3, LayoutFacts DEF HeightsOf
  <2> QED
    BY <2>4, <2>5 DEF xpos, ypos, StartsX, StartsY
<1> DEFINE xs == Dividers(StartsX(p), p.grid_w)
           ys == Dividers(StartsY(p), p.grid_h)
           a == console_clear(c)
           b == DrawPoints(a, Points(xs, AllRows), LineVert)
           e == DrawPoints(DrawRows(b, ys), Points(xs, ys), LineCross)
           x0 == Left(p) + 1
           y0 == Top(p) + 1
           d == DrawGrid(c, p, junk)
<1>2. d = console_set_cursor(e, x0, y0)
  BY <1>1 DEF DrawGrid, Ruled, Left, Top
<1>3. x0 \in Col /\ y0 \in Row
  <2>1. Left(p) \in Nat /\ Top(p) \in Nat /\ Left(p) + 1 < VGA_COLS /\ Top(p) + 1 < VGA_ROWS
    <3>1. /\ Left(p) \in Nat /\ Left(p) + WidthsOf(p)[p.active_x] <= VGA_COLS
          /\ Len(Prompt) + 1 < WidthsOf(p)[p.active_x] /\ WidthsOf(p)[p.active_x] \in Nat
      BY PaneRoom
    <3>2. /\ Top(p) \in Nat /\ Top(p) + HeightsOf(p)[p.active_y] <= VGA_ROWS
          /\ 1 < HeightsOf(p)[p.active_y] /\ HeightsOf(p)[p.active_y] \in Nat
      BY PaneRoom
    <3>3. Len(Prompt) \in Nat /\ VGA_COLS \in Nat /\ VGA_ROWS \in Nat
      BY Room, Screen
    <3> DEFINE l == Left(p)
               t == Top(p)
               w == WidthsOf(p)[p.active_x]
               h == HeightsOf(p)[p.active_y]
               k == Len(Prompt)
    <3> HIDE DEF l, t, w, h, k
    <3>4. l \in Nat /\ w \in Nat /\ k \in Nat /\ l + w <= VGA_COLS /\ k + 1 < w /\ VGA_COLS \in Nat
      BY <3>1, <3>3 DEF l, w, k
    <3>5. t \in Nat /\ h \in Nat /\ t + h <= VGA_ROWS /\ 1 < h /\ VGA_ROWS \in Nat
      BY <3>2, <3>3 DEF t, h
    <3>6. l + 1 < VGA_COLS
      BY <3>4
    <3>7. t + 1 < VGA_ROWS
      BY <3>5
    <3> QED
      BY <3>4, <3>5, <3>6, <3>7 DEF l, t
  <2> QED
    BY <2>1, Screen DEF Col, Row
<1>4. /\ p.grid_w \in Nat /\ p.grid_w > 0 /\ p.grid_h \in Nat /\ p.grid_h > 0
      /\ \A i \in 1..(p.grid_w - 1) : StartsX(p)[i] \in Inner
      /\ \A i \in 1..(p.grid_h - 1) : StartsY(p)[i] \in Bands
  BY PaneRoom, StartsTyped
<1>5. xs \in Seq(Inner) /\ Elements(xs) = DividersX(p)
  <2>1. xs \in Seq(Inner) /\ Len(xs) = p.grid_w - 1 /\ \A i \in 1..(p.grid_w - 1) : xs[i] = StartsX(p)[i]
    <3>1. p.grid_w \in Nat /\ p.grid_w > 0 /\ \A i \in 1..(p.grid_w - 1) : StartsX(p)[i] \in Inner
      BY <1>4
    <3> QED
      BY <3>1, DividersFacts
  <2> HIDE DEF xs
  <2> QED
    BY <2>1 DEF Elements, DividersX
<1>6. ys \in Seq(Bands) /\ Elements(ys) = DividersY(p)
  <2>1. ys \in Seq(Bands) /\ Len(ys) = p.grid_h - 1 /\ \A i \in 1..(p.grid_h - 1) : ys[i] = StartsY(p)[i]
    <3>1. p.grid_h \in Nat /\ p.grid_h > 0 /\ \A i \in 1..(p.grid_h - 1) : StartsY(p)[i] \in Bands
      BY <1>4
    <3> QED
      BY <3>1, DividersFacts
  <2> HIDE DEF ys
  <2> QED
    BY <2>1 DEF Elements, DividersY
<1>7. Flat(a) /\ \A x \in Col, y \in Row : a.screen[y][x] = Blank
  BY FlatClear
<1> HIDE DEF xs, ys, a
<1>8. /\ Flat(e)
      /\ \A x \in Col, y \in Row : e.screen[y][x] = Ruling(x, y, Elements(xs), Elements(ys))
  BY <1>5, <1>6, <1>7, LinesFlat
<1> HIDE DEF e, x0, y0, d
<1>9. Flat(d) /\ d.screen = e.screen /\ d.cursor_x = x0 /\ d.cursor_y = y0
  BY <1>2, <1>3, <1>8, FlatMove
<1> QED
  BY <1>5, <1>6, <1>8, <1>9 DEF d, x0, y0

(* The cells of the prompt, once it is written. *)
InPrompt(x, y, p) == y = Top(p) + 1 /\ x \in (Left(p) + 1)..(Left(p) + Len(Prompt))

LEMMA RedrawFlat ==
  ASSUME NEW c \in Con, NEW p, Grid(p), NEW junk \in Junk
  PROVE  LET d == console_write(DrawGrid(c, p, junk), Prompt)
         IN  /\ Flat(d)
             /\ d.cursor_x = Left(p) + 1 + Len(Prompt) /\ d.cursor_y = Top(p) + 1
             /\ \A x \in Col, y \in Row :
                  d.screen[y][x] = IF InPrompt(x, y, p) THEN CharCell(Prompt[x - Left(p)])
                                   ELSE Ruling(x, y, DividersX(p), DividersY(p))
<1> DEFINE e == DrawGrid(c, p, junk)
           d == console_write(e, Prompt)
           k == Len(Prompt)
           l == Left(p)
<1>1. /\ Flat(e) /\ e.cursor_x = l + 1 /\ e.cursor_y = Top(p) + 1
      /\ \A x \in Col, y \in Row : e.screen[y][x] = Ruling(x, y, DividersX(p), DividersY(p))
  BY GridFlat
<1>2. l \in Nat /\ k \in Nat /\ l + 1 + k < VGA_COLS /\ VGA_COLS \in Nat
  <2> DEFINE w == WidthsOf(p)[p.active_x]
  <2>1. l \in Nat /\ l + w <= VGA_COLS /\ k + 1 < w /\ w \in Nat
    BY PaneRoom
  <2>2. k \in Nat /\ VGA_COLS \in Nat
    BY Room, Screen
  <2> HIDE DEF l, k, w
  <2> QED
    BY <2>1, <2>2
<1>3. e.cursor_x + Len(Prompt) <= VGA_COLS /\ e.cursor_x + Len(Prompt) < VGA_COLS
  BY <1>1, <1>2
<1> HIDE DEF e
<1>4. /\ Flat(d)
      /\ \A x \in Col, y \in Row :
           d.screen[y][x] = IF y = e.cursor_y /\ x \in e.cursor_x..(e.cursor_x + Len(Prompt) - 1)
                            THEN CharCell(Prompt[x - e.cursor_x + 1]) ELSE e.screen[y][x]
      /\ d.cursor_x = e.cursor_x + Len(Prompt) /\ d.cursor_y = e.cursor_y
  <2>1. Len(Prompt) \in Nat
    BY <1>2
  <2> QED
    BY <1>1, <1>3, <2>1, PromptGlyphs, WriteFlat
<1> HIDE DEF d, l, k
<1>5. l + 1 + k - 1 = l + k /\ \A x \in Col : x - (l + 1) + 1 = x - l
  BY <1>2 DEF Col
<1>6. ASSUME NEW x \in Col, NEW y \in Row
      PROVE  d.screen[y][x] = IF InPrompt(x, y, p) THEN CharCell(Prompt[x - Left(p)])
                              ELSE Ruling(x, y, DividersX(p), DividersY(p))
  BY <1>1, <1>4, <1>5 DEF InPrompt, l, k
<1> QED
  BY <1>1, <1>4, <1>6 DEF d, e, l, k

(* The panes' invariant: the screen is a function of the grid alone. *)
PanesInv ==
  /\ Grid(pane) /\ prompted \in BOOLEAN /\ Flat(con)
  /\ con.cursor_x = Left(pane) + 1 + (IF prompted THEN Len(Prompt) ELSE 0)
  /\ con.cursor_y = Top(pane) + 1
  /\ \A x \in Col, y \in Row :
       con.screen[y][x] = IF prompted /\ InPrompt(x, y, pane) THEN CharCell(Prompt[x - Left(pane)])
                          ELSE Ruling(x, y, DividersX(pane), DividersY(pane))

LEMMA PanesStart == PanesInit => PanesInv
<1> SUFFICES ASSUME PanesInit PROVE PanesInv
  OBVIOUS
<1>1. PICK junk \in Junk : /\ pane = OnePane /\ prompted = FALSE
                           /\ con = DrawGrid(console_init, OnePane, junk)
  BY DEF PanesInit, pane_draw_no_prompt
<1> DEFINE d == DrawGrid(console_init, OnePane, junk)
<1>2. Grid(OnePane) /\ console_init \in Con
  BY OneGrid, InitTyped
<1>3. /\ Flat(d) /\ d.cursor_x = Left(OnePane) + 1 /\ d.cursor_y = Top(OnePane) + 1
      /\ \A x \in Col, y \in Row : d.screen[y][x] = Ruling(x, y, DividersX(OnePane), DividersY(OnePane))
  BY <1>2, GridFlat
<1>4. Left(OnePane) \in Nat
  BY <1>2, PaneRoom
<1>5. Left(OnePane) + 1 = Left(OnePane) + 1 + 0
  BY <1>4
<1> HIDE DEF d
<1>6. con = d
  BY <1>1 DEF d
<1> QED
  BY <1>1, <1>2, <1>3, <1>5, <1>6 DEF PanesInv

LEMMA PanesRedraw ==
  ASSUME con \in Con, NEW p, Grid(p), Redraw(p)
  PROVE  PanesInv'
<1>1. PICK junk \in Junk : /\ pane' = p /\ prompted' = TRUE
                           /\ con' = console_write(DrawGrid(con, p, junk), Prompt)
  BY DEF Redraw
<1> DEFINE d == console_write(DrawGrid(con, p, junk), Prompt)
<1>2. /\ Flat(d)
      /\ d.cursor_x = Left(p) + 1 + Len(Prompt) /\ d.cursor_y = Top(p) + 1
      /\ \A x \in Col, y \in Row :
           d.screen[y][x] = IF InPrompt(x, y, p) THEN CharCell(Prompt[x - Left(p)])
                            ELSE Ruling(x, y, DividersX(p), DividersY(p))
  BY RedrawFlat
<1>3. con' = d
  BY <1>1
<1> HIDE DEF d
<1>4. Grid(pane') /\ prompted' \in BOOLEAN /\ prompted' /\ Flat(con')
  BY <1>1, <1>2, <1>3
<1>5. /\ con'.cursor_x = Left(pane') + 1 + (IF prompted' THEN Len(Prompt) ELSE 0)
      /\ con'.cursor_y = Top(pane') + 1
  BY <1>1, <1>2, <1>3
<1>6. ASSUME NEW x \in Col, NEW y \in Row
      PROVE  con'.screen[y][x] = IF prompted' /\ InPrompt(x, y, pane') THEN CharCell(Prompt[x - Left(pane')])
                                 ELSE Ruling(x, y, DividersX(pane'), DividersY(pane'))
  BY <1>1, <1>2, <1>3
<1> QED
  BY <1>4, <1>5, <1>6 DEF PanesInv

LEMMA PanesStep == PanesInv /\ [PanesNext]_panesVars => PanesInv'
<1> SUFFICES ASSUME PanesInv, [PanesNext]_panesVars PROVE PanesInv'
  OBVIOUS
<1>1. con \in Con /\ Grid(pane)
  BY DEF PanesInv, Flat
<1>2. CASE \E p : Grid(p) /\ Redraw(p)
  BY <1>1, <1>2, PanesRedraw
<1>3. CASE PanesNext
  <2>1. CASE ~pane.gui_active /\ Redraw(pane_gui_start(pane))
    BY <1>2, <2>1, StartGrid
  <2>2. CASE pane.gui_active /\ Redraw(pane_gui_stop(pane))
    BY <1>2, <2>2, StartGrid
  <2>3. CASE \E delta \in {-1, 1} : Redraw(pane_resize_width(pane, delta))
    BY <1>1, <1>2, <2>3, ResizeGrid
  <2>4. CASE \E delta \in {-1, 1} : Redraw(pane_resize_height(pane, delta))
    BY <1>1, <1>2, <2>4, ResizeGrid
  <2>5. CASE \/ Redraw(pane_move_left(pane)) \/ Redraw(pane_move_right(pane))
             \/ Redraw(pane_move_up(pane)) \/ Redraw(pane_move_down(pane))
    BY <1>1, <1>2, <2>5, MoveGrid
  <2> QED
    BY <1>3, <2>1, <2>2, <2>3, <2>4, <2>5 DEF PanesNext
<1>4. CASE UNCHANGED panesVars
  BY <1>4 DEF panesVars, PanesInv
<1> QED
  BY <1>3, <1>4

LEMMA PanesAlways == PanesSpec => []PanesInv
  BY PanesStart, PanesStep, PTL DEF PanesSpec

LEMMA PanesLayout == PanesInv => LayoutFillsScreen
<1> SUFFICES ASSUME Grid(pane), NEW junk \in Junk, NEW size \in Sizes
             PROVE  /\ Fills(compute_layout(pane.grid_w, pane.active_x, size[1], junk[1]),
                             pane.grid_w, pane.active_x, size[1])
                    /\ Fills(compute_layout(pane.grid_h, pane.active_y, size[2], junk[2]),
                             pane.grid_h, pane.active_y, size[2])
  BY DEF PanesInv, LayoutFillsScreen
<1>1. /\ pane.grid_w \in 1..MAX_GRID /\ pane.active_x \in 0..(pane.grid_w - 1)
      /\ pane.grid_h \in 1..MAX_GRID /\ pane.active_y \in 0..(pane.grid_h - 1)
  BY WordSize DEF Grid, Grids
<1>2. Roomy(size[1]) /\ Roomy(size[2]) /\ size[1] \in Nat /\ size[2] \in Nat
  <2>1. size = <<VGA_COLS, VGA_ROWS>> \/ size = <<80, 25>>
    BY DEF Sizes
  <2> QED
    BY <2>1, Room, Screen
<1>3. junk[1] \in 0..(WORD - 1) /\ junk[2] \in 0..(WORD - 1)
  BY JunkTyped
<1>4. Fills(compute_layout(pane.grid_w, pane.active_x, size[1], junk[1]), pane.grid_w, pane.active_x, size[1])
  BY <1>1, <1>2, <1>3, LayoutFacts
<1>5. Fills(compute_layout(pane.grid_h, pane.active_y, size[2], junk[2]), pane.grid_h, pane.active_y, size[2])
  BY <1>1, <1>2, <1>3, LayoutFacts
<1> QED
  BY <1>4, <1>5

LEMMA PanesScreen == PanesInv => ScreenIsGrid
<1> SUFFICES ASSUME PanesInv PROVE ScreenIsGrid
  OBVIOUS
<1>1. con.sb_count = 0 /\ con.vga = con.screen /\ Grid(pane)
  BY DEF PanesInv, Flat
<1>2. Left(pane) \in Nat /\ Top(pane) \in Nat /\ Len(Prompt) \in Nat
  BY <1>1, PaneRoom, Room
<1> DEFINE xs == {Sums(Widths, pane.grid_w)[i] : i \in 1..(pane.grid_w - 1)}
           ys == {Sums(Heights, pane.grid_h)[j] : j \in 1..(pane.grid_h - 1)}
<1>3. xs = DividersX(pane) /\ ys = DividersY(pane)
  BY DEF Widths, Heights, DividersX, DividersY, StartsX, StartsY, WidthsOf, HeightsOf
<1> HIDE DEF xs, ys
<1>4. ASSUME NEW x \in Col, NEW y \in Row
      PROVE  (y = con.cursor_y /\ x \in PromptCells) \/ con.vga[y][x] = Ruling(x, y, xs, ys)
  <2>1. CASE prompted /\ InPrompt(x, y, pane)
    <3>1. /\ con.cursor_x = Left(pane) + 1 + Len(Prompt) /\ con.cursor_y = Top(pane) + 1
      BY <2>1 DEF PanesInv
    <3>2. PromptCells = (con.cursor_x - Len(Prompt))..(con.cursor_x - 1)
      BY <2>1 DEF PromptCells
    <3>3. PromptCells = (Left(pane) + 1)..(Left(pane) + Len(Prompt))
      BY <1>2, <3>1, <3>2
    <3> QED
      BY <2>1, <3>1, <3>3 DEF InPrompt
  <2>2. CASE ~(prompted /\ InPrompt(x, y, pane))
    BY <1>1, <1>3, <2>2 DEF PanesInv
  <2> QED
    BY <2>1, <2>2
<1> QED
  BY <1>1, <1>4 DEF ScreenIsGrid, Ruling, xs, ys

LEMMA PanesPrompt == PanesInv => PromptInActivePane
<1> SUFFICES ASSUME PanesInv PROVE PromptInActivePane
  OBVIOUS
<1> DEFINE l == Left(pane)
           t == Top(pane)
           k == Len(Prompt)
           first == con.cursor_x - (IF prompted THEN k ELSE 0)
           v == WidthsOf(pane)[pane.active_x]
           h == HeightsOf(pane)[pane.active_y]
<1>1. /\ Grid(pane) /\ prompted \in BOOLEAN /\ con.vga = con.screen
      /\ con.cursor_x = l + 1 + (IF prompted THEN k ELSE 0) /\ con.cursor_y = t + 1
  BY DEF PanesInv, Flat
<1>2. /\ l \in Nat /\ t \in Nat /\ v \in Nat /\ h \in Nat
      /\ l + v <= VGA_COLS /\ t + h <= VGA_ROWS /\ k + 1 < v /\ 1 < h
  BY <1>1, PaneRoom
<1>3. k \in Nat /\ VGA_COLS \in Nat /\ VGA_ROWS \in Nat
  BY Room, Screen
<1>4. /\ l = Sums(Widths, pane.grid_w)[pane.active_x] /\ t = Sums(Heights, pane.grid_h)[pane.active_y]
      /\ v = Widths[pane.active_x] /\ h = Heights[pane.active_y]
  BY DEF Widths, Heights, Left, Top, StartsX, StartsY, WidthsOf, HeightsOf
<1> HIDE DEF l, t, k, v, h
<1>5. first = l + 1
  BY <1>1, <1>2, <1>3
<1>6. /\ l < first /\ con.cursor_x < l + v /\ t < con.cursor_y /\ con.cursor_y < t + h
  BY <1>1, <1>2, <1>3, <1>5
<1>7. ASSUME prompted, NEW i \in 1..k PROVE con.vga[con.cursor_y][first + i - 1] = CharCell(Prompt[i])
  <2> DEFINE x == l + i
             y == t + 1
  <2>1. x \in Col /\ y \in Row /\ x - l = i /\ first + i - 1 = x /\ x \in (l + 1)..(l + k)
    BY <1>2, <1>3, <1>5 DEF Col, Row
  <2> HIDE DEF x
  <2>2. InPrompt(x, y, pane)
    BY <2>1 DEF InPrompt, l, t, k
  <2>3. con.screen[y][x] = CharCell(Prompt[x - l])
    BY <1>7, <2>1, <2>2 DEF PanesInv, l
  <2> QED
    BY <1>1, <2>1, <2>3
<1> QED
  BY <1>4, <1>6, <1>7 DEF PromptInActivePane, k

(* compute_layout, for every screen with room for the panes, every grid up *)
(* to MAX_GRID and every garbage in the uninitialised words: the columns   *)
(* and rows fill the screen exactly and the active pane has half of it.    *)
THEOREM PanesFillScreen == PanesSpec => []LayoutFillsScreen
  BY PanesAlways, PanesLayout, PTL

(* pane_draw_internal, for every screen with room for the panes: after any *)
(* sequence of pane keys the screen shows the dividers of the present grid *)
(* and no trace of the grids before, and has not scrolled, although every  *)
(* row of dividers ends with the cursor wrapping to the next one.          *)
THEOREM PanesScreenIsGrid == PanesSpec => []ScreenIsGrid
  BY PanesAlways, PanesScreen, PTL

(* pane_draw_internal, for every screen with room for the panes: the whole *)
(* prompt, and the cell after it, are inside the active pane.              *)
THEOREM PanesPromptInActivePane == PanesSpec => []PromptInActivePane
  BY PanesAlways, PanesPrompt, PTL

-----------------------------------------------------------------------------
(* The shell: every function keeps its record well formed.                 *)

Buf == 0..(CMD_BUF_SIZE - 1)
Slots == 0..(HISTORY_LEN - 1)

(* What fits in cmd_buf with its zero. *)
Commands == {s \in Seq(Int) : Len(s) <= CMD_BUF_SIZE - 1}

Shells ==
  [cmd_buf : [Buf -> Int], cmd_len : Buf, cmd_pos : Buf, disp_len : Nat,
   prompt_x : Col, prompt_y : Row, history : [Slots -> Commands],
   history_count : 0..HISTORY_LEN, history_index : Slots, history_nav : -1..(HISTORY_LEN - 1)]

(* The ring of commands fills from slot 0, so that until it has wrapped    *)
(* its index is the number of commands.                                    *)
ShellOK(s) ==
  /\ s \in Shells
  /\ s.cmd_pos <= s.cmd_len
  /\ s.history_nav < s.history_count
  /\ s.history_count < HISTORY_LEN => s.history_index = s.history_count

UIs == [con : Con, pane : Grids, sh : Shells, halted : BOOLEAN]

UI(u) == u \in UIs /\ Grid(u.pane) /\ ShellOK(u.sh)

LEMMA BufSizes ==
  /\ CMD_BUF_SIZE \in Nat /\ CMD_BUF_SIZE > 0 /\ HISTORY_LEN \in Nat /\ HISTORY_LEN > 0
  /\ 0 \in Buf /\ 0 \in Slots
<1>1. CMD_BUF_SIZE \in Nat \ {0} /\ HISTORY_LEN \in Nat \ {0}
  BY ShellAssumption, Zenon
<1> QED
  BY <1>1 DEF Buf, Slots

LEMMA ShellNumbers ==
  ASSUME NEW s, ShellOK(s)
  PROVE  /\ s \in Shells /\ s.cmd_len \in Nat /\ s.cmd_pos \in Nat /\ s.cmd_pos <= s.cmd_len
         /\ s.cmd_len <= CMD_BUF_SIZE - 1
         /\ s.history_count \in Nat /\ s.history_count <= HISTORY_LEN
         /\ s.history_index \in Nat /\ s.history_index <= HISTORY_LEN - 1
         /\ s.history_nav \in Int /\ s.history_nav >= -1 /\ s.history_nav < s.history_count
         /\ s.history_nav \in -1..(HISTORY_LEN - 1)
  BY BufSizes DEF ShellOK, Shells, Buf, Slots

LEMMA ConUI ==
  ASSUME NEW u, UI(u), NEW c \in Con
  PROVE  LET v == [u EXCEPT !.con = c]
         IN  UI(v) /\ v.con = c /\ v.pane = u.pane /\ v.sh = u.sh /\ v.halted = u.halted
  BY DEF UI, UIs

LEMMA ShUI ==
  ASSUME NEW u, UI(u), NEW s, ShellOK(s)
  PROVE  LET v == [u EXCEPT !.sh = s]
         IN  UI(v) /\ v.con = u.con /\ v.pane = u.pane /\ v.sh = s /\ v.halted = u.halted
  BY DEF UI, UIs, ShellOK

LEMMA PaneUI ==
  ASSUME NEW u, UI(u), NEW p, Grid(p)
  PROVE  LET v == [u EXCEPT !.pane = p]
         IN  UI(v) /\ v.con = u.con /\ v.pane = p /\ v.sh = u.sh /\ v.halted = u.halted
  BY DEF UI, UIs, Grid

LEMMA PartsUI ==
  ASSUME NEW u, UI(u)
  PROVE  /\ u \in UIs /\ u.con \in Con /\ Grid(u.pane) /\ ShellOK(u.sh) /\ u.sh \in Shells
         /\ u.halted \in BOOLEAN
  BY DEF UI, UIs

LEMMA FunctionIsString ==
  ASSUME NEW n \in Nat, NEW S, NEW f \in [1..n -> S]
  PROVE  f \in Seq(S) /\ Len(f) = n
  BY IsASeq, LenProperties

LEMMA WriteSeq ==
  ASSUME NEW c \in Con, NEW s \in Seq(Int)
  PROVE  console_write(c, s) \in Con
<1>1. Len(s) \in Nat /\ \A i \in 1..Len(s) : s[i] \in Int
  OBVIOUS
<1> QED
  BY <1>1, WriteTyped

LEMMA LineFacts ==
  ASSUME NEW s \in Shells
  PROVE  /\ LineOf(s) \in Seq(Int) /\ Len(LineOf(s)) = s.cmd_len /\ LineOf(s) \in Commands
         /\ \A i \in 1..s.cmd_len : LineOf(s)[i] = s.cmd_buf[i - 1] /\ i - 1 \in Buf
<1>1. s.cmd_len \in Buf /\ s.cmd_len \in Nat /\ s.cmd_len <= CMD_BUF_SIZE - 1 /\ s.cmd_buf \in [Buf -> Int]
  BY BufSizes DEF Shells, Buf
<1>2. \A i \in 1..s.cmd_len : i - 1 \in Buf
  BY <1>1, BufSizes DEF Buf
<1>3. LineOf(s) \in [1..s.cmd_len -> Int]
  BY <1>1, <1>2 DEF LineOf
<1>4. LineOf(s) \in Seq(Int) /\ Len(LineOf(s)) = s.cmd_len
  BY <1>1, <1>3, FunctionIsString
<1>5. \A i \in 1..s.cmd_len : LineOf(s)[i] = s.cmd_buf[i - 1]
  BY DEF LineOf
<1> QED
  BY <1>1, <1>2, <1>4, <1>5 DEF Commands

LEMMA HomeTyped ==
  ASSUME NEW c \in Con, NEW s \in Shells, NEW k \in Nat
  PROVE  console_set_cursor(c, s.prompt_x + k, s.prompt_y) \in Con
<1>1. s.prompt_x + k \in Nat /\ s.prompt_y \in Nat
  BY Screen DEF Shells, Col, Row
<1> QED
  BY <1>1, SetCursorTyped

LEMMA ShellFields ==
  ASSUME NEW s \in Shells
  PROVE  /\ s.prompt_x \in Nat /\ s.prompt_y \in Nat /\ s.cmd_pos \in Nat
         /\ s.disp_len \in Nat /\ s.cmd_len \in Nat
<1>1. s.prompt_x \in Col /\ s.prompt_y \in Row /\ s.cmd_pos \in Buf /\ s.cmd_len \in Buf /\ s.disp_len \in Nat
  BY DEF Shells
<1>2. Col \subseteq Nat /\ Row \subseteq Nat /\ Buf \subseteq Nat
  BY Screen, BufSizes DEF Col, Row, Buf
<1> QED
  BY <1>1, <1>2

LEMMA RedrawUI ==
  ASSUME NEW u, UI(u)
  PROVE  LET v == redraw_line(u)
         IN  /\ UI(v) /\ v.pane = u.pane /\ v.halted = u.halted
             /\ v.sh = [u.sh EXCEPT !.disp_len = u.sh.cmd_len]
<1> DEFINE s == u.sh
           blanks == [i \in 1..s.disp_len |-> Space]
           a == console_set_cursor(u.con, s.prompt_x, s.prompt_y)
           b == console_write(a, blanks)
           c == console_set_cursor(b, s.prompt_x, s.prompt_y)
           d == console_write(c, LineOf(s))
           e == console_set_cursor(d, s.prompt_x + s.cmd_pos, s.prompt_y)
           t == [s EXCEPT !.disp_len = s.cmd_len]
           w == [u EXCEPT !.con = e]
<1>1. u \in UIs /\ u.con \in Con /\ ShellOK(s) /\ s \in Shells
  BY PartsUI
<1>2. s.prompt_x \in Nat /\ s.prompt_y \in Nat /\ s.cmd_pos \in Nat /\ s.disp_len \in Nat /\ s.cmd_len \in Nat
  BY <1>1, ShellFields
<1>3. redraw_line(u) = [w EXCEPT !.sh = t]
  BY <1>1 DEF redraw_line, UIs, Shells
<1>4. a \in Con
  BY <1>1, <1>2, SetCursorTyped
<1>5. blanks \in Seq(Int)
  <2>1. blanks \in [1..s.disp_len -> Int]
    BY DEF Space
  <2> QED
    BY <1>2, <2>1, FunctionIsString
<1> HIDE DEF a, blanks
<1>6. b \in Con
  BY <1>4, <1>5, WriteSeq
<1> HIDE DEF b
<1>7. c \in Con
  BY <1>2, <1>6, SetCursorTyped
<1> HIDE DEF c
<1>8. d \in Con
  BY <1>1, <1>7, LineFacts, WriteSeq
<1> HIDE DEF d
<1>9. e \in Con
  BY <1>1, <1>2, <1>8, HomeTyped
<1>10. ShellOK(t)
  BY <1>1, <1>2 DEF ShellOK, Shells
<1> HIDE DEF e
<1>11. UI(w) /\ w.pane = u.pane /\ w.halted = u.halted
  BY <1>9, ConUI
<1> HIDE DEF w, t
<1>12. LET v == [w EXCEPT !.sh = t] IN UI(v) /\ v.pane = w.pane /\ v.sh = t /\ v.halted = w.halted
  BY <1>10, <1>11, ShUI
<1> QED
  BY <1>3, <1>11, <1>12 DEF t

LEMMA PromptUI ==
  ASSUME NEW u, UI(u)
  PROVE  LET v == shell_show_prompt(u)
         IN  /\ UI(v) /\ v.pane = u.pane /\ v.halted = u.halted
             /\ v.sh = [u.sh EXCEPT !.cmd_len = 0, !.cmd_pos = 0, !.disp_len = 0,
                                    !.prompt_x = v.con.cursor_x, !.prompt_y = v.con.cursor_y]
<1> DEFINE s == u.sh
           c == console_write(u.con, Prompt)
           t == [s EXCEPT !.cmd_len = 0, !.cmd_pos = 0, !.disp_len = 0,
                          !.prompt_x = c.cursor_x, !.prompt_y = c.cursor_y]
           w == [u EXCEPT !.con = c]
<1>1. u \in UIs /\ u.con \in Con /\ ShellOK(s) /\ s \in Shells
  BY PartsUI
<1>2. Len(Prompt) \in Nat /\ \A i \in 1..Len(Prompt) : Prompt[i] \in Int
  BY PromptGlyphs, ConsoleAssumption
<1>3. c \in Con
  BY <1>1, <1>2, WriteTyped
<1>4. shell_show_prompt(u) = [w EXCEPT !.sh = t]
  BY <1>1 DEF shell_show_prompt, UIs, Shells
<1> HIDE DEF c
<1>5. c.cursor_x \in Col /\ c.cursor_y \in Row
  BY <1>3 DEF Con
<1>6. ShellOK(t)
  <2>1. t \in Shells
    BY <1>1, <1>5, BufSizes DEF Shells
  <2>2. /\ t.cmd_len = 0 /\ t.cmd_pos = 0 /\ t.history_nav = s.history_nav
        /\ t.history_count = s.history_count /\ t.history_index = s.history_index
    BY <1>1 DEF Shells
  <2> QED
    BY <1>1, <2>1, <2>2 DEF ShellOK
<1>7. UI(w) /\ w.con = c /\ w.pane = u.pane /\ w.halted = u.halted
  BY <1>3, ConUI
<1> HIDE DEF w
<1>8. t = [s EXCEPT !.cmd_len = 0, !.cmd_pos = 0, !.disp_len = 0,
                    !.prompt_x = c.cursor_x, !.prompt_y = c.cursor_y]
  OBVIOUS
<1> HIDE DEF t
<1>9. LET v == [w EXCEPT !.sh = t]
      IN  UI(v) /\ v.con = w.con /\ v.pane = w.pane /\ v.sh = t /\ v.halted = w.halted
  BY <1>6, <1>7, ShUI
<1> QED
  BY <1>4, <1>7, <1>8, <1>9

(* A new line with an unchanged past. *)
Renewed(s, t) ==
  /\ t.cmd_len = 0 /\ t.cmd_pos = 0
  /\ t.history = s.history /\ t.history_count = s.history_count
  /\ t.history_index = s.history_index /\ t.history_nav = s.history_nav

LEMMA PromptRenews ==
  ASSUME NEW u, UI(u)
  PROVE  Renewed(u.sh, shell_show_prompt(u).sh)
<1> DEFINE v == shell_show_prompt(u)
<1>1. v.sh = [u.sh EXCEPT !.cmd_len = 0, !.cmd_pos = 0, !.disp_len = 0,
                          !.prompt_x = v.con.cursor_x, !.prompt_y = v.con.cursor_y]
  BY PromptUI
<1>2. u.sh \in Shells
  BY PartsUI
<1> HIDE DEF v
<1>3. Renewed(u.sh, v.sh)
  BY <1>1, <1>2 DEF Renewed, Shells
<1> QED
  BY <1>3 DEF v

LEMMA DrawUI ==
  ASSUME NEW u, UI(u), NEW p, Grid(p), NEW junk \in Junk
  PROVE  LET v == pane_draw(u, p, junk)
         IN  UI(v) /\ v.halted = u.halted /\ Renewed(u.sh, v.sh)
<1> DEFINE c == DrawGrid(u.con, p, junk)
           a == [u EXCEPT !.pane = p]
           b == [a EXCEPT !.con = c]
<1>1. u \in UIs /\ u.con \in Con
  BY PartsUI
<1>2. c \in Con
  BY <1>1, GridTyped
<1>3. UI(a) /\ a.sh = u.sh /\ a.halted = u.halted
  BY PaneUI
<1>4. pane_draw(u, p, junk) = shell_show_prompt(b)
  BY <1>1 DEF pane_draw, UIs
<1> HIDE DEF a, c
<1>5. UI(b) /\ b.sh = a.sh /\ b.halted = a.halted
  BY <1>2, <1>3, ConUI
<1> HIDE DEF b
<1>6. UI(shell_show_prompt(b)) /\ shell_show_prompt(b).halted = b.halted
  BY <1>5, PromptUI
<1>7. Renewed(b.sh, shell_show_prompt(b).sh)
  BY <1>5, PromptRenews
<1> QED
  BY <1>3, <1>4, <1>5, <1>6, <1>7

LEMMA ReplyTyped ==
  ASSUME NEW what \in {"boot", "unknown"} \cup (DOMAIN Command \cap {"help", "info", "stop"})
  PROVE  Reply[what] \in Seq(Int)
<1>1. Reply[what] \in Seq(0..127)
  BY ShellAssumption
<1>2. 0..127 \subseteq Int
  OBVIOUS
<1> QED
  BY <1>1, <1>2, SeqMonotonic

LEMMA AnswerUI ==
  ASSUME NEW u, UI(u), NEW what \in {"boot", "unknown"} \cup (DOMAIN Command \cap {"help", "info", "stop"})
  PROVE  LET v == Answer(u, what) IN UI(v) /\ v.sh = u.sh /\ v.halted = u.halted
<1> DEFINE c == console_write(u.con, Reply[what])
<1>1. u \in UIs /\ u.con \in Con
  BY PartsUI
<1>2. c \in Con
  BY <1>1, ReplyTyped, WriteSeq
<1>3. Answer(u, what) = [u EXCEPT !.con = c]
  BY <1>1 DEF Answer, UIs
<1> HIDE DEF c
<1> QED
  BY <1>2, <1>3, ConUI

(* A command changes the shell only by a redraw of the panes. *)
LEMMA CommandUI ==
  ASSUME NEW u, UI(u), NEW cmd, NEW junk \in Junk
  PROVE  LET v == console_execute_command(u, cmd, junk)
         IN  UI(v) /\ (v.sh = u.sh \/ (Renewed(u.sh, v.sh) /\ v.halted = u.halted))
<1> DEFINE v == console_execute_command(u, cmd, junk)
           Is(name) == name \in DOMAIN Command /\ cmd = Command[name]
<1>1. u \in UIs /\ u.con \in Con /\ Grid(u.pane)
  BY PartsUI
<1>2. v = CASE Is("help")  -> Answer(u, "help")
            [] Is("info")  -> Answer(u, "info")
            [] Is("clear") -> [u EXCEPT !.con = console_clear(@)]
            [] Is("stop")  -> [Answer(u, "stop") EXCEPT !.halted = TRUE]
            [] Is("gui start") ->
                 IF u.pane.gui_active THEN u ELSE pane_draw(u, pane_gui_start(u.pane), junk)
            [] OTHER -> IF cmd = <<>> THEN u ELSE Answer(u, "unknown")
  BY DEF console_execute_command
<1> DEFINE Good(w) == UI(w) /\ (w.sh = u.sh \/ (Renewed(u.sh, w.sh) /\ w.halted = u.halted))
<1>3. Is("help") => Good(Answer(u, "help"))
  BY AnswerUI
<1>4. Is("info") => Good(Answer(u, "info"))
  BY AnswerUI
<1>5. Good([u EXCEPT !.con = console_clear(@)])
  <2>1. console_clear(u.con) \in Con
    BY <1>1, ClearTyped
  <2>2. [u EXCEPT !.con = console_clear(@)] = [u EXCEPT !.con = console_clear(u.con)]
    BY <1>1 DEF UIs
  <2> QED
    BY <2>1, <2>2, ConUI
<1>6. Is("stop") => Good([Answer(u, "stop") EXCEPT !.halted = TRUE])
  <2> SUFFICES ASSUME Is("stop") PROVE Good([Answer(u, "stop") EXCEPT !.halted = TRUE])
    OBVIOUS
  <2> DEFINE w == Answer(u, "stop")
  <2>1. UI(w) /\ w.sh = u.sh
    BY AnswerUI
  <2> HIDE DEF w
  <2>2. UI([w EXCEPT !.halted = TRUE]) /\ [w EXCEPT !.halted = TRUE].sh = w.sh
    BY <2>1 DEF UI, UIs
  <2> QED
    BY <2>1, <2>2 DEF w
<1>7. Good(u)
  OBVIOUS
<1>8. Good(pane_draw(u, pane_gui_start(u.pane), junk))
  BY StartGrid, DrawUI
<1>9. Good(Answer(u, "unknown"))
  BY AnswerUI
<1> HIDE DEF v, Is, Good
<1>10. Good(v)
  BY <1>2, <1>3, <1>4, <1>5, <1>6, <1>7, <1>8, <1>9
<1> QED
  BY <1>10 DEF Good, v

LEMMA ReadyFacts ==
  ASSUME NEW junk \in Junk
  PROVE  LET u == ReadyUI(junk)
         IN  /\ UI(u) /\ u.sh.cmd_len = 0 /\ u.sh.cmd_pos = 0
             /\ u.sh.history_count = 0 /\ u.sh.history_nav = -1
<1> DEFINE c == console_write(pane_draw_no_prompt(console_init, OnePane, junk), Reply["boot"])
           u == [con |-> c, pane |-> OnePane, sh |-> ShellInit, halted |-> FALSE]
<1>1. pane_draw_no_prompt(console_init, OnePane, junk) \in Con
  BY InitTyped, OneGrid, GridTyped DEF pane_draw_no_prompt
<1>2. c \in Con
  BY <1>1, ReplyTyped, WriteSeq
<1> HIDE DEF c
<1>3. <<>> \in Commands
  <2>1. <<>> \in Seq(Int) /\ Len(<<>>) = 0
    BY EmptySeq
  <2> QED
    BY <2>1, BufSizes DEF Commands
<1>4. /\ ShellOK(ShellInit) /\ ShellInit.history_count = 0 /\ ShellInit.history_nav = -1
  <2>1. ShellInit \in Shells
    BY <1>3, BufSizes, Corner DEF ShellInit, Shells, Buf, Slots, NoChar
  <2> QED
    BY <2>1, BufSizes DEF ShellInit, ShellOK
<1>5. UI(u) /\ u.sh = ShellInit
  <2>1. Grid(OnePane) /\ OnePane \in Grids /\ ShellInit \in Shells
    BY <1>4, OneGrid DEF Grid, ShellOK
  <2> QED
    BY <1>2, <1>4, <2>1 DEF UI, UIs
<1>6. ReadyUI(junk) = shell_show_prompt(u)
  BY DEF ReadyUI, c
<1> HIDE DEF u
<1>7. UI(ReadyUI(junk)) /\ Renewed(ShellInit, ReadyUI(junk).sh)
  BY <1>5, <1>6, PromptUI, PromptRenews
<1> QED
  BY <1>4, <1>7 DEF Renewed

(* The shell's record when Enter hands the line to the parser. *)
Entered(s) ==
  LET kept == IF s.cmd_len > 0 THEN history_add(s, LineOf(s)) ELSE s
  IN  [kept EXCEPT !.cmd_buf = [s.cmd_buf EXCEPT ![s.cmd_len] = NoChar], !.history_nav = -1]

LEMMA AddOK ==
  ASSUME NEW s, ShellOK(s)
  PROVE  LET t == history_add(s, LineOf(s))
         IN  /\ ShellOK(t)
             /\ t.cmd_buf = s.cmd_buf /\ t.cmd_len = s.cmd_len /\ t.cmd_pos = s.cmd_pos
             /\ t.history = [s.history EXCEPT ![s.history_index] = LineOf(s)]
             /\ t.history_index = (s.history_index + 1) % HISTORY_LEN
             /\ t.history_count = IF s.history_count < HISTORY_LEN THEN s.history_count + 1 ELSE s.history_count
<1> DEFINE h == [s.history EXCEPT ![s.history_index] = LineOf(s)]
           i == (s.history_index + 1) % HISTORY_LEN
           n == IF s.history_count < HISTORY_LEN THEN s.history_count + 1 ELSE s.history_count
           t == history_add(s, LineOf(s))
<1>1. s \in Shells /\ s.history \in [Slots -> Commands] /\ s.history_index \in Slots
      /\ s.history_count \in 0..HISTORY_LEN /\ s.history_nav \in Int /\ s.history_nav < s.history_count
      /\ (s.history_count < HISTORY_LEN => s.history_index = s.history_count)
  BY BufSizes DEF ShellOK, Shells
<1>2. t = [s EXCEPT !.history = h, !.history_index = i, !.history_count = n]
  BY <1>1 DEF history_add, Shells
<1>3. h \in [Slots -> Commands]
  BY <1>1, LineFacts
<1>4. s.history_index \in Nat /\ s.history_index < HISTORY_LEN /\ s.history_count \in Nat
      /\ HISTORY_LEN \in Nat /\ HISTORY_LEN > 0
  BY <1>1, BufSizes DEF Slots
<1>5. i \in Slots /\ (s.history_index + 1 < HISTORY_LEN => i = s.history_index + 1)
  BY <1>4 DEF Slots
<1>6. n \in 0..HISTORY_LEN /\ s.history_nav < n /\ (n < HISTORY_LEN => i = n)
  BY <1>1, <1>4, <1>5
<1> HIDE DEF h, i, n
<1>7. t \in Shells
  BY <1>1, <1>2, <1>3, <1>5, <1>6 DEF Shells
<1>8. /\ t.cmd_buf = s.cmd_buf /\ t.cmd_len = s.cmd_len /\ t.cmd_pos = s.cmd_pos
      /\ t.history = h /\ t.history_index = i /\ t.history_count = n /\ t.history_nav = s.history_nav
  BY <1>1, <1>2 DEF Shells
<1> HIDE DEF t
<1>9. ShellOK(t)
  BY <1>1, <1>6, <1>7, <1>8 DEF ShellOK
<1> QED
  BY <1>8, <1>9 DEF t, h, i, n

LEMMA EnteredOK ==
  ASSUME NEW s, ShellOK(s)
  PROVE  LET t == Entered(s)
             k == IF s.cmd_len > 0 THEN history_add(s, LineOf(s)) ELSE s
         IN  /\ ShellOK(t) /\ t.cmd_len = s.cmd_len /\ t.cmd_pos = s.cmd_pos
             /\ t.history = k.history /\ t.history_index = k.history_index
             /\ t.history_count = k.history_count /\ t.history_nav = -1
             /\ t.cmd_buf = [s.cmd_buf EXCEPT ![s.cmd_len] = NoChar]
<1> DEFINE k == IF s.cmd_len > 0 THEN history_add(s, LineOf(s)) ELSE s
           b == [s.cmd_buf EXCEPT ![s.cmd_len] = NoChar]
           t == Entered(s)
<1>1. ShellOK(k) /\ k.cmd_len = s.cmd_len /\ k.cmd_pos = s.cmd_pos
  BY AddOK
<1>2. b \in [Buf -> Int]
  BY DEF ShellOK, Shells, NoChar
<1>3. t = [k EXCEPT !.cmd_buf = b, !.history_nav = -1]
  BY DEF Entered
<1> HIDE DEF k, b
<1>4. t \in Shells
  <2>1. -1 \in -1..(HISTORY_LEN - 1)
    BY BufSizes
  <2> QED
    BY <1>1, <1>2, <1>3, <2>1 DEF ShellOK, Shells
<1>5. /\ t.cmd_len = k.cmd_len /\ t.cmd_pos = k.cmd_pos /\ t.history = k.history
      /\ t.history_index = k.history_index /\ t.history_count = k.history_count
      /\ t.history_nav = -1 /\ t.cmd_buf = b
  BY <1>1, <1>3 DEF ShellOK, Shells
<1>6. -1 < k.history_count
  BY <1>1, BufSizes DEF ShellOK, Shells
<1> HIDE DEF t
<1>7. ShellOK(t)
  BY <1>1, <1>4, <1>5, <1>6 DEF ShellOK
<1> QED
  BY <1>1, <1>5, <1>7 DEF k, b, t

(* Enter: what was the line is in the history, and a new line begins       *)
(* unless the command stopped the machine.                                 *)
LEMMA EnterUI ==
  ASSUME NEW u, UI(u), NEW junk \in Junk
  PROVE  LET v == EnterKey(u, junk)
         IN  UI(v) /\ (v.sh = Entered(u.sh) \/ Renewed(Entered(u.sh), v.sh))
<1> DEFINE s == u.sh
           a == console_set_cursor(u.con, s.prompt_x + s.disp_len, s.prompt_y)
           c == console_putc(a, Newline)
           b == [u EXCEPT !.con = c]
           t == Entered(s)
           d == [b EXCEPT !.sh = t]
           e == console_execute_command(d, LineOf(s), junk)
           v == EnterKey(u, junk)
<1>1. u \in UIs /\ u.con \in Con /\ ShellOK(s) /\ s \in Shells
  BY PartsUI
<1>2. a \in Con
  <2>1. s.disp_len \in Nat
    BY <1>1 DEF Shells
  <2> QED
    BY <1>1, <2>1, HomeTyped
<1> HIDE DEF a
<1>3. c \in Con
  BY <1>2, PutcTyped DEF Newline
<1>4. ShellOK(t)
  BY <1>1, EnteredOK
<1>5. v = IF e.halted THEN e ELSE shell_show_prompt(e)
  <2> DEFINE k == IF s.cmd_len > 0 THEN history_add(s, LineOf(s)) ELSE s
             t2 == [k EXCEPT !.cmd_buf[s.cmd_len] = NoChar, !.history_nav = -1]
  <2>1. k.cmd_buf = s.cmd_buf /\ k \in Shells
    <3>1. ShellOK(history_add(s, LineOf(s))) /\ history_add(s, LineOf(s)).cmd_buf = s.cmd_buf
      BY <1>1, AddOK
    <3> QED
      BY <1>1, <3>1 DEF ShellOK
  <2>2. t2 = t
    <3>1. t = [k EXCEPT !.cmd_buf = [s.cmd_buf EXCEPT ![s.cmd_len] = NoChar], !.history_nav = -1]
      BY DEF Entered
    <3> HIDE DEF k, t
    <3> QED
      BY <2>1, <3>1 DEF Shells
  <2>3. v = LET done == console_execute_command([u EXCEPT !.con = c, !.sh = t2], LineOf(s), junk)
            IN  IF done.halted THEN done ELSE shell_show_prompt(done)
    BY DEF EnterKey, a
  <2> HIDE DEF t2, t, c, v
  <2>4. [u EXCEPT !.con = c, !.sh = t2] = d
    BY <1>1, <2>2 DEF UIs
  <2> QED
    BY <2>3, <2>4, Zenon
<1> HIDE DEF c, v
<1>6. UI(b)
  BY <1>3, ConUI
<1> HIDE DEF b, t
<1>7. UI(d) /\ d.sh = t
  BY <1>4, <1>6, ShUI
<1> HIDE DEF d
<1>8. UI(e) /\ (e.sh = t \/ Renewed(t, e.sh))
  BY <1>7, CommandUI
<1> HIDE DEF e
<1>9. UI(shell_show_prompt(e)) /\ Renewed(e.sh, shell_show_prompt(e).sh)
  BY <1>8, PromptUI, PromptRenews
<1>10. Renewed(t, e.sh) /\ Renewed(e.sh, shell_show_prompt(e).sh) => Renewed(t, shell_show_prompt(e).sh)
  BY DEF Renewed
<1> QED
  BY <1>5, <1>8, <1>9, <1>10 DEF v, t

(* A changed line and position in the same history. *)
Edited(s, t, b, n, p, m) ==
  /\ t.cmd_buf = b /\ t.cmd_len = n /\ t.cmd_pos = p /\ t.history_nav = m
  /\ t.history = s.history /\ t.history_count = s.history_count /\ t.history_index = s.history_index

LEMMA EditUI ==
  ASSUME NEW u, UI(u), NEW b \in [Buf -> Int], NEW n \in Buf, NEW p \in Buf, p <= n,
         NEW m \in -1..(HISTORY_LEN - 1), m < u.sh.history_count
  PROVE  LET t == [u.sh EXCEPT !.cmd_buf = b, !.cmd_len = n, !.cmd_pos = p, !.history_nav = m]
             v == redraw_line([u EXCEPT !.sh = t])
         IN  UI(v) /\ v.halted = u.halted /\ Edited(u.sh, v.sh, b, n, p, m)
<1> DEFINE s == u.sh
           t == [s EXCEPT !.cmd_buf = b, !.cmd_len = n, !.cmd_pos = p, !.history_nav = m]
           w == [u EXCEPT !.sh = t]
           v == redraw_line(w)
<1>1. u \in UIs /\ ShellOK(s) /\ s \in Shells
  BY PartsUI
<1>2. ShellOK(t) /\ Edited(s, t, b, n, p, m) /\ t \in Shells
  BY <1>1 DEF ShellOK, Shells, Edited
<1> HIDE DEF t
<1>3. UI(w) /\ w.sh = t /\ w.halted = u.halted
  BY <1>2, ShUI
<1> HIDE DEF w
<1>4. UI(v) /\ v.halted = w.halted /\ v.sh = [w.sh EXCEPT !.disp_len = w.sh.cmd_len]
  BY <1>3, RedrawUI
<1> HIDE DEF v
<1>5. Edited(s, v.sh, b, n, p, m)
  BY <1>2, <1>3, <1>4 DEF Edited, Shells
<1> QED
  BY <1>3, <1>4, <1>5 DEF v, w, t

(* The line without the character before the cursor. *)
Shifted(s) ==
  [i \in Buf |-> IF s.cmd_pos - 1 <= i /\ i < s.cmd_len - 1 THEN s.cmd_buf[i + 1] ELSE s.cmd_buf[i]]

LEMMA EraseUI ==
  ASSUME NEW u, UI(u)
  PROVE  LET v == BackspaceKey(u)
             s == u.sh
         IN  /\ UI(v)
             /\ s.cmd_pos = 0 => v = u
             /\ s.cmd_pos # 0 =>
                  Edited(s, v.sh, Shifted(s), s.cmd_len - 1, s.cmd_pos - 1, s.history_nav)
<1> DEFINE s == u.sh
<1>1. u \in UIs /\ ShellOK(s) /\ s \in Shells
  BY PartsUI
<1>2. CASE s.cmd_pos = 0
  BY <1>2 DEF BackspaceKey
<1>3. CASE s.cmd_pos # 0
  <2> DEFINE t == [s EXCEPT !.cmd_buf = Shifted(s), !.cmd_len = s.cmd_len - 1,
                            !.cmd_pos = s.cmd_pos - 1, !.history_nav = s.history_nav]
  <2>1. /\ s.cmd_pos \in Nat /\ s.cmd_len \in Nat /\ s.cmd_pos <= s.cmd_len /\ s.cmd_len <= CMD_BUF_SIZE - 1
        /\ s.cmd_buf \in [Buf -> Int] /\ DOMAIN s.cmd_buf = Buf
        /\ s.history_nav \in -1..(HISTORY_LEN - 1) /\ s.history_nav < s.history_count
    <3>1. s.cmd_buf \in [Buf -> Int] /\ DOMAIN s.cmd_buf = Buf
      BY <1>1 DEF Shells
    <3> QED
      BY <1>1, <3>1, ShellNumbers
  <2>2. s.cmd_len - 1 \in Buf /\ s.cmd_pos - 1 \in Buf /\ s.cmd_pos - 1 <= s.cmd_len - 1
    <3> DEFINE n == s.cmd_len
               p == s.cmd_pos
               size == CMD_BUF_SIZE
    <3>1. p \in Nat /\ n \in Nat /\ p <= n /\ n <= size - 1 /\ p # 0 /\ size \in Nat
      BY <1>3, <2>1, BufSizes
    <3> HIDE DEF n, p, size
    <3>2. n - 1 \in 0..(size - 1) /\ p - 1 \in 0..(size - 1) /\ p - 1 <= n - 1
      BY <3>1
    <3> QED
      BY <3>2 DEF Buf, n, p, size
  <2>3. Shifted(s) \in [Buf -> Int]
    <3>1. ASSUME NEW i \in Buf, i < s.cmd_len - 1 PROVE i + 1 \in Buf
      BY <2>1, <3>1, BufSizes DEF Buf
    <3> QED
      BY <2>1, <3>1 DEF Shifted
  <2>4. BackspaceKey(u) = redraw_line([u EXCEPT !.sh = t])
    <3> DEFINE f == [i \in DOMAIN s.cmd_buf |->
                       IF s.cmd_pos - 1 <= i /\ i < s.cmd_len - 1 THEN s.cmd_buf[i + 1] ELSE s.cmd_buf[i]]
    <3>1. f = Shifted(s)
      BY <2>1 DEF Shifted
    <3>2. BackspaceKey(u) = redraw_line([u EXCEPT !.sh.cmd_buf = f, !.sh.cmd_len = @ - 1, !.sh.cmd_pos = @ - 1])
      BY <1>3 DEF BackspaceKey
    <3> HIDE DEF f
    <3>3. [u EXCEPT !.sh.cmd_buf = f, !.sh.cmd_len = @ - 1, !.sh.cmd_pos = @ - 1] = [u EXCEPT !.sh = t]
      BY <1>1, <3>1 DEF UIs, Shells
    <3> QED
      BY <3>2, <3>3, Zenon
  <2>5. LET v == redraw_line([u EXCEPT !.sh = t])
        IN  UI(v) /\ Edited(s, v.sh, Shifted(s), s.cmd_len - 1, s.cmd_pos - 1, s.history_nav)
    <3> DEFINE b == Shifted(s)
               n == s.cmd_len - 1
               p == s.cmd_pos - 1
               m == s.history_nav
               x == [u.sh EXCEPT !.cmd_buf = b, !.cmd_len = n, !.cmd_pos = p, !.history_nav = m]
               v == redraw_line([u EXCEPT !.sh = x])
    <3>1. /\ b \in [Buf -> Int] /\ n \in Buf /\ p \in Buf /\ p <= n
          /\ m \in -1..(HISTORY_LEN - 1) /\ m < u.sh.history_count
      BY <2>1, <2>2, <2>3
    <3> HIDE DEF b, n, p, m
    <3>2. UI(v) /\ Edited(u.sh, v.sh, b, n, p, m)
      BY <3>1, EditUI
    <3> QED
      BY <3>2, Zenon DEF b, n, p, m
  <2> QED
    BY <1>3, <2>4, <2>5
<1> QED
  BY <1>2, <1>3

LEMMA MoveUI ==
  ASSUME NEW u, UI(u), NEW p \in Buf, p <= u.sh.cmd_len
  PROVE  LET v == MoveTo(u, p)
             s == u.sh
         IN  UI(v) /\ Edited(s, v.sh, s.cmd_buf, s.cmd_len, p, s.history_nav)
<1> DEFINE s == u.sh
           t == [s EXCEPT !.cmd_pos = p]
           c == console_set_cursor(u.con, s.prompt_x + p, s.prompt_y)
           w == [u EXCEPT !.sh = t]
<1>1. u \in UIs /\ u.con \in Con /\ ShellOK(s) /\ s \in Shells
  BY PartsUI
<1>2. p \in Nat
  BY BufSizes DEF Buf
<1>3. c \in Con
  BY <1>1, <1>2, HomeTyped
<1>4. ShellOK(t) /\ Edited(s, t, s.cmd_buf, s.cmd_len, p, s.history_nav)
  BY <1>1 DEF ShellOK, Shells, Edited
<1>5. MoveTo(u, p) = [w EXCEPT !.con = c]
  BY <1>1 DEF MoveTo, UIs
<1> HIDE DEF t, c
<1>6. UI(w) /\ w.sh = t
  BY <1>4, ShUI
<1> HIDE DEF w
<1> QED
  BY <1>3, <1>4, <1>5, <1>6, ConUI

(* The slot of the offset-th command before the latest. *)
SlotBefore(s, offset) ==
  IF s.history_index - 1 - offset < 0 THEN s.history_index - 1 - offset + HISTORY_LEN
  ELSE s.history_index - 1 - offset

LEMMA GetFacts ==
  ASSUME NEW s, ShellOK(s), NEW offset \in Int
  PROVE  /\ offset \in 0..(s.history_count - 1) =>
              SlotBefore(s, offset) \in Slots /\ history_get(s, offset) = s.history[SlotBefore(s, offset)]
         /\ offset \notin 0..(s.history_count - 1) => history_get(s, offset) = <<>>
         /\ history_get(s, offset) \in Commands
<1>1. /\ s.history \in [Slots -> Commands] /\ s.history_index \in Nat /\ s.history_index <= HISTORY_LEN - 1
      /\ s.history_count \in Nat /\ s.history_count <= HISTORY_LEN /\ HISTORY_LEN \in Nat
  BY BufSizes, ShellNumbers DEF Shells
<1>2. history_get(s, offset) = IF offset < 0 \/ offset >= s.history_count THEN <<>>
                               ELSE s.history[SlotBefore(s, offset)]
  BY DEF history_get, SlotBefore
<1>3. CASE offset \in 0..(s.history_count - 1)
  <2>1. SlotBefore(s, offset) \in Slots
    <3> DEFINE x == s.history_index
               n == s.history_count
               size == HISTORY_LEN
               o == SlotBefore(s, offset)
    <3>1. x \in Nat /\ x <= size - 1 /\ n \in Nat /\ n <= size /\ size \in Nat /\ offset \in 0..(n - 1)
      BY <1>1, <1>3
    <3>2. o = IF x - 1 - offset < 0 THEN x - 1 - offset + size ELSE x - 1 - offset
      BY DEF SlotBefore
    <3> HIDE DEF x, n, size, o
    <3>3. o \in 0..(size - 1)
      BY <3>1, <3>2
    <3> QED
      BY <3>3 DEF o, size, Slots
  <2>2. ~(offset < 0 \/ offset >= s.history_count)
    BY <1>1, <1>3
  <2> QED
    BY <1>1, <1>2, <1>3, <2>1, <2>2
<1>4. CASE offset \notin 0..(s.history_count - 1)
  <2>1. offset < 0 \/ offset >= s.history_count
    BY <1>1, <1>4
  <2>2. <<>> \in Commands
    <3>1. <<>> \in Seq(Int) /\ Len(<<>>) = 0
      BY EmptySeq
    <3> QED
      BY <3>1, BufSizes DEF Commands
  <2> QED
    BY <1>2, <1>4, <2>1, <2>2
<1> QED
  BY <1>3, <1>4

(* cmd_buf after a command is copied into it. *)
Copied(s, cmd) == [i \in Buf |-> IF i < Len(cmd) THEN cmd[i + 1] ELSE s.cmd_buf[i]]

LEMMA RecallUI ==
  ASSUME NEW u, UI(u), NEW m \in -1..(HISTORY_LEN - 1), m < u.sh.history_count
  PROVE  LET v == Recall(u, m)
             s == u.sh
             cmd == history_get(s, m)
         IN  UI(v) /\ Edited(s, v.sh, Copied(s, cmd), Len(cmd), Len(cmd), m)
<1> DEFINE s == u.sh
           cmd == history_get(s, m)
           t == [s EXCEPT !.cmd_buf = Copied(s, cmd), !.cmd_len = Len(cmd),
                          !.cmd_pos = Len(cmd), !.history_nav = m]
<1>1. u \in UIs /\ ShellOK(s) /\ s \in Shells /\ s.cmd_buf \in [Buf -> Int] /\ DOMAIN s.cmd_buf = Buf
  BY PartsUI DEF Shells
<1>2. cmd \in Seq(Int) /\ Len(cmd) \in Nat /\ Len(cmd) <= CMD_BUF_SIZE - 1
  <2>1. cmd \in Commands
    BY <1>1, GetFacts
  <2> HIDE DEF cmd
  <2> QED
    BY <2>1 DEF Commands
<1>3. Recall(u, m) = redraw_line([u EXCEPT !.sh = t])
  <2> DEFINE f == [i \in DOMAIN s.cmd_buf |-> IF i < Len(cmd) THEN cmd[i + 1] ELSE s.cmd_buf[i]]
  <2>1. f = Copied(s, cmd)
    BY <1>1 DEF Copied
  <2>2. Recall(u, m) = redraw_line([u EXCEPT
                         !.sh.history_nav = m,
                         !.sh.cmd_buf = [i \in DOMAIN @ |-> IF i < Len(cmd) THEN cmd[i + 1] ELSE @[i]],
                         !.sh.cmd_len = Len(cmd), !.sh.cmd_pos = Len(cmd)])
    BY DEF Recall
  <2> HIDE DEF cmd
  <2>3. [u EXCEPT !.sh.history_nav = m,
                  !.sh.cmd_buf = [i \in DOMAIN @ |-> IF i < Len(cmd) THEN cmd[i + 1] ELSE @[i]],
                  !.sh.cmd_len = Len(cmd), !.sh.cmd_pos = Len(cmd)]
        = [u EXCEPT !.sh.history_nav = m, !.sh.cmd_buf = f,
                    !.sh.cmd_len = Len(cmd), !.sh.cmd_pos = Len(cmd)]
    BY <1>1 DEF UIs, Shells
  <2> HIDE DEF f
  <2>4. [u EXCEPT !.sh.history_nav = m, !.sh.cmd_buf = f, !.sh.cmd_len = Len(cmd), !.sh.cmd_pos = Len(cmd)]
        = [u EXCEPT !.sh = t]
    BY <1>1, <2>1 DEF UIs, Shells
  <2> HIDE DEF t
  <2> QED
    BY <2>2, <2>3, <2>4, Zenon
<1> HIDE DEF cmd
<1>4. Copied(s, cmd) \in [Buf -> Int]
  <2>1. ASSUME NEW i \in Buf, i < Len(cmd) PROVE cmd[i + 1] \in Int
    <3>1. i + 1 \in 1..Len(cmd)
      BY <1>2, <2>1 DEF Buf
    <3> QED
      BY <1>2, <3>1
  <2> QED
    BY <1>1, <2>1 DEF Copied
<1>5. Len(cmd) \in Buf /\ Len(cmd) <= Len(cmd)
  BY <1>2, BufSizes DEF Buf
<1>6. LET v == redraw_line([u EXCEPT !.sh = t])
      IN  UI(v) /\ Edited(s, v.sh, Copied(s, cmd), Len(cmd), Len(cmd), m)
  BY <1>4, <1>5, EditUI
<1> HIDE DEF t
<1> QED
  BY <1>3, <1>6 DEF cmd

(* The line with a character more at the cursor. *)
Inserted(s, c) ==
  [i \in Buf |-> CASE i = s.cmd_pos -> c
                   [] s.cmd_pos < i /\ i <= s.cmd_len -> s.cmd_buf[i - 1]
                   [] OTHER -> s.cmd_buf[i]]

LEMMA InsertUI ==
  ASSUME NEW u, UI(u), NEW c \in Int
  PROVE  LET v == InsertKey(u, c)
             s == u.sh
         IN  /\ UI(v)
             /\ s.cmd_len < CMD_BUF_SIZE - 1 =>
                  Edited(s, v.sh, Inserted(s, c), s.cmd_len + 1, s.cmd_pos + 1, -1)
             /\ ~(s.cmd_len < CMD_BUF_SIZE - 1) =>
                  Edited(s, v.sh, s.cmd_buf, s.cmd_len, s.cmd_pos, -1)
<1> DEFINE s == u.sh
           t == [s EXCEPT !.cmd_buf = Inserted(s, c), !.cmd_len = s.cmd_len + 1,
                          !.cmd_pos = s.cmd_pos + 1, !.history_nav = s.history_nav]
           w == redraw_line([u EXCEPT !.sh = t])
<1>1. /\ u \in UIs /\ ShellOK(s) /\ s \in Shells /\ s.cmd_buf \in [Buf -> Int] /\ DOMAIN s.cmd_buf = Buf
      /\ s.cmd_pos \in Nat /\ s.cmd_len \in Nat /\ s.cmd_pos <= s.cmd_len /\ s.cmd_len <= CMD_BUF_SIZE - 1
      /\ s.history_nav \in -1..(HISTORY_LEN - 1) /\ s.history_nav < s.history_count
  <2>1. u \in UIs /\ ShellOK(s) /\ s \in Shells
    BY PartsUI
  <2>2. s.cmd_buf \in [Buf -> Int] /\ DOMAIN s.cmd_buf = Buf
    BY <2>1 DEF Shells
  <2> QED
    BY <2>1, <2>2, ShellNumbers
<1>2. Inserted(s, c) \in [Buf -> Int]
  <2>1. ASSUME NEW i \in Buf, s.cmd_pos < i PROVE i - 1 \in Buf
    BY <1>1, <2>1, BufSizes DEF Buf
  <2> QED
    BY <1>1, <2>1 DEF Inserted
<1>3. ASSUME NEW x, UI(x), NEW b, NEW n, NEW p, NEW m, Edited(s, x.sh, b, n, p, m)
      PROVE  UI([x EXCEPT !.sh.history_nav = -1])
             /\ Edited(s, [x EXCEPT !.sh.history_nav = -1].sh, b, n, p, -1)
  <2> DEFINE y == [x.sh EXCEPT !.history_nav = -1]
  <2>1. x \in UIs /\ ShellOK(x.sh) /\ x.sh \in Shells
    BY <1>3, PartsUI
  <2>2. -1 \in -1..(HISTORY_LEN - 1) /\ -1 < x.sh.history_count
    BY <2>1, BufSizes DEF Shells
  <2>3. ShellOK(y) /\ Edited(s, y, b, n, p, -1)
    BY <1>3, <2>1, <2>2 DEF ShellOK, Shells, Edited
  <2>4. [x EXCEPT !.sh.history_nav = -1] = [x EXCEPT !.sh = y]
    BY <2>1 DEF UIs, Shells
  <2> HIDE DEF y
  <2> QED
    BY <1>3, <2>3, <2>4, ShUI
<1>4. CASE s.cmd_len < CMD_BUF_SIZE - 1
  <2>1. s.cmd_len + 1 \in Buf /\ s.cmd_pos + 1 \in Buf /\ s.cmd_pos + 1 <= s.cmd_len + 1
    <3> DEFINE n == s.cmd_len
               p == s.cmd_pos
               size == CMD_BUF_SIZE
    <3>1. p \in Nat /\ n \in Nat /\ p <= n /\ n < size - 1 /\ size \in Nat
      BY <1>1, <1>4, BufSizes
    <3> HIDE DEF n, p, size
    <3>2. n + 1 \in 0..(size - 1) /\ p + 1 \in 0..(size - 1) /\ p + 1 <= n + 1
      BY <3>1
    <3> QED
      BY <3>2 DEF Buf, n, p, size
  <2>2. UI(w) /\ Edited(s, w.sh, Inserted(s, c), s.cmd_len + 1, s.cmd_pos + 1, s.history_nav)
    <3> DEFINE b == Inserted(s, c)
               n == s.cmd_len + 1
               p == s.cmd_pos + 1
               m == s.history_nav
               x == [u.sh EXCEPT !.cmd_buf = b, !.cmd_len = n, !.cmd_pos = p, !.history_nav = m]
               v == redraw_line([u EXCEPT !.sh = x])
    <3>1. /\ b \in [Buf -> Int] /\ n \in Buf /\ p \in Buf /\ p <= n
          /\ m \in -1..(HISTORY_LEN - 1) /\ m < u.sh.history_count
      BY <1>1, <1>2, <2>1
    <3> HIDE DEF b, n, p, m
    <3>2. UI(v) /\ Edited(u.sh, v.sh, b, n, p, m)
      BY <3>1, EditUI
    <3> QED
      BY <3>2, Zenon DEF b, n, p, m
  <2>3. InsertKey(u, c) = [w EXCEPT !.sh.history_nav = -1]
    <3> DEFINE f == [i \in DOMAIN s.cmd_buf |->
                       CASE i = s.cmd_pos -> c
                         [] s.cmd_pos < i /\ i <= s.cmd_len -> s.cmd_buf[i - 1]
                         [] OTHER -> s.cmd_buf[i]]
    <3>1. f = Inserted(s, c)
      BY <1>1 DEF Inserted
    <3>2. InsertKey(u, c) =
            [redraw_line([u EXCEPT !.sh.cmd_buf = f, !.sh.cmd_len = @ + 1, !.sh.cmd_pos = @ + 1])
               EXCEPT !.sh.history_nav = -1]
      BY <1>4 DEF InsertKey
    <3> HIDE DEF f
    <3>3. [u EXCEPT !.sh.cmd_buf = f, !.sh.cmd_len = @ + 1, !.sh.cmd_pos = @ + 1] = [u EXCEPT !.sh = t]
      BY <1>1, <3>1 DEF UIs, Shells
    <3> HIDE DEF t
    <3> QED
      BY <3>2, <3>3, Zenon
  <2> HIDE DEF w
  <2>4. UI(InsertKey(u, c)) /\ Edited(s, InsertKey(u, c).sh, Inserted(s, c), s.cmd_len + 1, s.cmd_pos + 1, -1)
    BY <1>3, <2>2, <2>3
  <2> QED
    BY <1>4, <2>4
<1>5. CASE ~(s.cmd_len < CMD_BUF_SIZE - 1)
  <2>1. Edited(s, u.sh, s.cmd_buf, s.cmd_len, s.cmd_pos, s.history_nav)
    BY DEF Edited
  <2>2. InsertKey(u, c) = [u EXCEPT !.sh.history_nav = -1]
    BY <1>5 DEF InsertKey
  <2>3. UI(InsertKey(u, c)) /\ Edited(s, InsertKey(u, c).sh, s.cmd_buf, s.cmd_len, s.cmd_pos, -1)
    BY <1>3, <2>1, <2>2
  <2> QED
    BY <1>5, <2>3
<1> QED
  BY <1>4, <1>5

-----------------------------------------------------------------------------
(* What the shell's record says about the line and the history.            *)

Before(s) == SubSeq(LineOf(s), 1, s.cmd_pos)
After(s) == SubSeq(LineOf(s), s.cmd_pos + 1, s.cmd_len)
Recent(s) == [i \in 1..s.history_count |-> history_get(s, i - 1)]

LEMMA BeforeFacts ==
  ASSUME NEW s, ShellOK(s)
  PROVE  /\ Before(s) \in Seq(Int) /\ Len(Before(s)) = s.cmd_pos
         /\ \A i \in 1..s.cmd_pos : Before(s)[i] = s.cmd_buf[i - 1]
<1>1. s.cmd_len \in Nat /\ s.cmd_pos \in Nat /\ s.cmd_pos <= s.cmd_len /\ s \in Shells
  BY ShellNumbers
<1>2. LineOf(s) \in Seq(Int) /\ Len(LineOf(s)) = s.cmd_len /\ \A i \in 1..s.cmd_len : LineOf(s)[i] = s.cmd_buf[i - 1]
  BY <1>1, LineFacts
<1> DEFINE l == LineOf(s)
           p == s.cmd_pos
           n == s.cmd_len
<1>3. \A i \in 1..p : l[i] \in Int /\ l[i] = s.cmd_buf[i - 1]
  BY <1>1, <1>2
<1> HIDE DEF l, p, n
<1>4. p \in Int /\ p \in Nat /\ 1 \in Int
  BY <1>1 DEF p
<1>5. /\ SubSeq(l, 1, p) \in Seq(Int)
      /\ Len(SubSeq(l, 1, p)) = IF 1 <= p THEN p - 1 + 1 ELSE 0
      /\ \A i \in 1..(p - 1 + 1) : SubSeq(l, 1, p)[i] = l[1 + i - 1]
  BY <1>3, <1>4, SubSeqProperties
<1>6. Len(SubSeq(l, 1, p)) = p /\ \A i \in 1..p : SubSeq(l, 1, p)[i] = l[i]
  <2>1. p - 1 + 1 = p /\ (~(1 <= p) => p = 0) /\ \A i \in 1..p : 1 + i - 1 = i
    BY <1>4
  <2> QED
    BY <1>5, <2>1
<1> QED
  BY <1>3, <1>5, <1>6 DEF Before, l, p

LEMMA AfterFacts ==
  ASSUME NEW s, ShellOK(s)
  PROVE  /\ After(s) \in Seq(Int) /\ Len(After(s)) = s.cmd_len - s.cmd_pos
         /\ \A i \in 1..(s.cmd_len - s.cmd_pos) : After(s)[i] = s.cmd_buf[s.cmd_pos + i - 1]
<1>1. s.cmd_len \in Nat /\ s.cmd_pos \in Nat /\ s.cmd_pos <= s.cmd_len /\ s \in Shells
  BY ShellNumbers
<1>2. LineOf(s) \in Seq(Int) /\ Len(LineOf(s)) = s.cmd_len /\ \A i \in 1..s.cmd_len : LineOf(s)[i] = s.cmd_buf[i - 1]
  BY <1>1, LineFacts
<1> DEFINE l == LineOf(s)
           p == s.cmd_pos
           n == s.cmd_len
<1>3. \A i \in 1..n : l[i] \in Int /\ l[i] = s.cmd_buf[i - 1]
  BY <1>1, <1>2
<1>4. p \in Nat /\ n \in Nat /\ p <= n /\ p + 1 \in Int /\ n \in Int
  BY <1>1
<1> HIDE DEF l, p, n
<1>5. \A i \in (p + 1)..n : l[i] \in Int
  BY <1>3, <1>4
<1>6. /\ SubSeq(l, p + 1, n) \in Seq(Int)
      /\ Len(SubSeq(l, p + 1, n)) = IF p + 1 <= n THEN n - (p + 1) + 1 ELSE 0
      /\ \A i \in 1..(n - (p + 1) + 1) : SubSeq(l, p + 1, n)[i] = l[p + 1 + i - 1]
  BY <1>4, <1>5, SubSeqProperties
<1>7. Len(SubSeq(l, p + 1, n)) = n - p /\ n - (p + 1) + 1 = n - p
  BY <1>4, <1>6
<1>8. \A i \in 1..(n - p) : p + 1 + i - 1 = p + i /\ p + i \in 1..n
  BY <1>4
<1>9. ASSUME NEW i \in 1..(n - p) PROVE SubSeq(l, p + 1, n)[i] = s.cmd_buf[p + i - 1]
  <2>1. p + 1 + i - 1 = p + i /\ p + i \in 1..n
    BY <1>8
  <2>2. SubSeq(l, p + 1, n)[i] = l[p + 1 + i - 1]
    BY <1>6, <1>7
  <2> DEFINE k == p + i
  <2>3. k \in 1..n
    BY <2>1
  <2> HIDE DEF k
  <2>4. l[k] = s.cmd_buf[k - 1]
    BY <1>3, <2>3
  <2>5. p + 1 + i - 1 = k /\ k - 1 = p + i - 1
    BY <1>4 DEF k
  <2> DEFINE r == SubSeq(l, p + 1, n)[i]
  <2>6. r = l[k]
    BY <2>2, <2>5
  <2> HIDE DEF r
  <2>7. r = s.cmd_buf[p + i - 1]
    BY <2>4, <2>5, <2>6
  <2> QED
    BY <2>7 DEF r
<1> QED
  BY <1>6, <1>7, <1>9 DEF After, l, p, n

LEMMA WholeLine ==
  ASSUME NEW s, ShellOK(s)
  PROVE  Before(s) \o After(s) = LineOf(s)
<1>1. s.cmd_len \in Nat /\ s.cmd_pos \in Nat /\ s.cmd_pos <= s.cmd_len /\ s \in Shells
  BY ShellNumbers
<1>2. LineOf(s) \in Seq(Int) /\ Len(LineOf(s)) = s.cmd_len /\ \A i \in 1..s.cmd_len : LineOf(s)[i] = s.cmd_buf[i - 1]
  BY <1>1, LineFacts
<1>3. /\ Before(s) \in Seq(Int) /\ Len(Before(s)) = s.cmd_pos
      /\ \A i \in 1..s.cmd_pos : Before(s)[i] = s.cmd_buf[i - 1]
  BY BeforeFacts
<1>4. /\ After(s) \in Seq(Int) /\ Len(After(s)) = s.cmd_len - s.cmd_pos
      /\ \A i \in 1..(s.cmd_len - s.cmd_pos) : After(s)[i] = s.cmd_buf[s.cmd_pos + i - 1]
  BY AfterFacts
<1> DEFINE p == s.cmd_pos
           n == s.cmd_len
           w == Before(s) \o After(s)
<1>5. /\ w \in Seq(Int) /\ Len(w) = Len(Before(s)) + Len(After(s))
      /\ \A i \in 1..(Len(Before(s)) + Len(After(s))) :
           w[i] = IF i <= Len(Before(s)) THEN Before(s)[i] ELSE After(s)[i - Len(Before(s))]
  BY <1>3, <1>4, ConcatProperties
<1> HIDE DEF w
<1>6. Len(w) = n
  BY <1>1, <1>3, <1>4, <1>5
<1>7. ASSUME NEW i \in 1..n PROVE w[i] = LineOf(s)[i]
  <2>1. w[i] = IF i <= p THEN Before(s)[i] ELSE After(s)[i - p]
    <3>1. Len(Before(s)) = p /\ Len(After(s)) = n - p
      BY <1>3, <1>4
    <3>2. p + (n - p) = n
      BY <1>1
    <3> QED
      BY <1>5, <3>1, <3>2
  <2>2. CASE i <= p
    <3>1. i \in 1..p
      BY <1>1, <2>2
    <3> QED
      BY <1>2, <1>3, <2>1, <2>2, <3>1
  <2>3. CASE ~(i <= p)
    <3>1. i - p \in 1..(n - p) /\ p + (i - p) - 1 = i - 1
      BY <1>1, <2>3
    <3>2. After(s)[i - p] = s.cmd_buf[p + (i - p) - 1]
      BY <1>4, <3>1
    <3> QED
      BY <1>2, <2>1, <2>3, <3>1, <3>2
  <2> QED
    BY <2>2, <2>3
<1> QED
  BY <1>2, <1>5, <1>6, <1>7, SeqEqual DEF w

LEMMA RecentFacts ==
  ASSUME NEW s, ShellOK(s)
  PROVE  /\ Recent(s) \in Seq(Commands) /\ Len(Recent(s)) = s.history_count
         /\ \A i \in 1..s.history_count : Recent(s)[i] = history_get(s, i - 1)
<1>1. s.history_count \in Nat
  BY ShellNumbers
<1>2. \A i \in 1..s.history_count : history_get(s, i - 1) \in Commands
  BY GetFacts
<1>3. Recent(s) \in [1..s.history_count -> Commands]
  BY <1>2 DEF Recent
<1> QED
  BY <1>1, <1>3, FunctionIsString DEF Recent

LEMMA RecentSame ==
  ASSUME NEW s, NEW t, t.history = s.history, t.history_count = s.history_count,
         t.history_index = s.history_index
  PROVE  Recent(t) = Recent(s)
  BY DEF Recent, history_get

(* The line read through the fields that it depends on. *)
LEMMA LineSame ==
  ASSUME NEW s, ShellOK(s), NEW t, ShellOK(t), t.cmd_len = s.cmd_len, t.cmd_pos = s.cmd_pos,
         \A i \in 0..(s.cmd_len - 1) : t.cmd_buf[i] = s.cmd_buf[i]
  PROVE  Before(t) = Before(s) /\ After(t) = After(s)
<1>1. s.cmd_len \in Nat
  BY ShellNumbers
<1>2. \A i \in 1..s.cmd_len : i - 1 \in 0..(s.cmd_len - 1)
  BY <1>1
<1>3. LineOf(t) = LineOf(s)
  BY <1>2 DEF LineOf
<1> QED
  BY <1>3 DEF Before, After

LEMMA EmptyLine ==
  ASSUME NEW s, ShellOK(s), s.cmd_len = 0
  PROVE  Before(s) = <<>> /\ After(s) = <<>>
<1>1. s.cmd_pos = 0
  BY ShellNumbers
<1>2. SubSeq(LineOf(s), 1, 0) = <<>>
  BY SubSeqEmpty
<1>3. SubSeq(LineOf(s), 0 + 1, 0) = <<>>
  BY SubSeqEmpty
<1> QED
  BY <1>1, <1>2, <1>3 DEF Before, After

LEMMA FrontFacts ==
  ASSUME NEW S, NEW b \in Seq(S), Len(b) > 0
  PROVE  LET f == SubSeq(b, 1, Len(b) - 1)
         IN  f \in Seq(S) /\ Len(f) = Len(b) - 1 /\ \A i \in 1..(Len(b) - 1) : f[i] = b[i]
<1> DEFINE n == Len(b) - 1
<1>1. n \in Nat /\ n \in Int /\ 1 \in Int /\ Len(b) \in Nat
  BY LenProperties
<1>2. \A i \in 1..n : b[i] \in S
  BY <1>1
<1> HIDE DEF n
<1>3. /\ SubSeq(b, 1, n) \in Seq(S)
      /\ Len(SubSeq(b, 1, n)) = IF 1 <= n THEN n - 1 + 1 ELSE 0
      /\ \A i \in 1..(n - 1 + 1) : SubSeq(b, 1, n)[i] = b[1 + i - 1]
  BY <1>1, <1>2, SubSeqProperties
<1>4. n - 1 + 1 = n /\ (~(1 <= n) => n = 0) /\ \A i \in 1..n : 1 + i - 1 = i
  BY <1>1
<1> QED
  BY <1>3, <1>4 DEF n

LEMMA EraseLine ==
  ASSUME NEW s, ShellOK(s), NEW t, ShellOK(t), s.cmd_pos # 0,
         Edited(s, t, Shifted(s), s.cmd_len - 1, s.cmd_pos - 1, s.history_nav)
  PROVE  /\ Before(t) = SubSeq(Before(s), 1, Len(Before(s)) - 1) /\ After(t) = After(s)
<1> DEFINE n == s.cmd_len
           p == s.cmd_pos
           f == SubSeq(Before(s), 1, Len(Before(s)) - 1)
<1>1. n \in Nat /\ p \in Nat /\ p <= n /\ p # 0 /\ n <= CMD_BUF_SIZE - 1 /\ CMD_BUF_SIZE \in Nat
  BY ShellNumbers, BufSizes
<1>2. t.cmd_len = n - 1 /\ t.cmd_pos = p - 1 /\ t.cmd_buf = Shifted(s)
  BY DEF Edited
<1>3. \A i \in Buf : t.cmd_buf[i] = IF p - 1 <= i /\ i < n - 1 THEN s.cmd_buf[i + 1] ELSE s.cmd_buf[i]
  BY <1>2 DEF Shifted
<1>4. Before(s) \in Seq(Int) /\ Len(Before(s)) = p /\ \A i \in 1..p : Before(s)[i] = s.cmd_buf[i - 1]
  BY BeforeFacts
<1>5. After(s) \in Seq(Int) /\ Len(After(s)) = n - p /\ \A i \in 1..(n - p) : After(s)[i] = s.cmd_buf[p + i - 1]
  BY AfterFacts
<1>6. Before(t) \in Seq(Int) /\ Len(Before(t)) = p - 1 /\ \A i \in 1..(p - 1) : Before(t)[i] = t.cmd_buf[i - 1]
  BY <1>2, BeforeFacts
<1>7. /\ After(t) \in Seq(Int) /\ Len(After(t)) = (n - 1) - (p - 1)
      /\ \A i \in 1..((n - 1) - (p - 1)) : After(t)[i] = t.cmd_buf[(p - 1) + i - 1]
  BY <1>2, AfterFacts
<1> HIDE DEF n, p
<1>8. f \in Seq(Int) /\ Len(f) = p - 1 /\ \A i \in 1..(p - 1) : f[i] = Before(s)[i]
  <2>1. Len(Before(s)) > 0
    BY <1>1, <1>4
  <2> QED
    BY <1>4, <2>1, FrontFacts
<1> HIDE DEF f
<1>9. Before(t) = f
  <2>1. ASSUME NEW i \in 1..(p - 1) PROVE Before(t)[i] = f[i]
    <3>1. i - 1 \in Buf /\ ~(p - 1 <= i - 1) /\ i \in 1..p
      BY <1>1 DEF Buf
    <3>2. t.cmd_buf[i - 1] = s.cmd_buf[i - 1]
      BY <1>3, <3>1
    <3> QED
      BY <1>4, <1>6, <1>8, <3>1, <3>2
  <2> QED
    BY <1>6, <1>8, <2>1, SeqEqual
<1>10. After(t) = After(s)
  <2>1. (n - 1) - (p - 1) = n - p
    BY <1>1
  <2>2. ASSUME NEW i \in 1..(n - p) PROVE After(t)[i] = After(s)[i]
    <3> DEFINE j == p - 1 + i - 1
    <3>1. j \in Buf /\ p - 1 <= j /\ j < n - 1 /\ j + 1 = p + i - 1
      BY <1>1 DEF Buf
    <3>2. After(t)[i] = t.cmd_buf[j]
      BY <1>7, <2>1
    <3>3. After(s)[i] = s.cmd_buf[p + i - 1]
      BY <1>5
    <3> HIDE DEF j
    <3>4. t.cmd_buf[j] = s.cmd_buf[j + 1]
      BY <1>3, <3>1
    <3> QED
      BY <3>1, <3>2, <3>3, <3>4
  <2>3. After(t) \in Seq(Int) /\ After(s) \in Seq(Int) /\ Len(After(t)) = n - p /\ Len(After(s)) = n - p
    BY <1>5, <1>7, <2>1
  <2>4. \A i \in 1..Len(After(t)) : After(t)[i] = After(s)[i]
    BY <2>2, <2>3
  <2> QED
    BY <2>3, <2>4, SeqEqual
<1> QED
  BY <1>9, <1>10 DEF f

LEMMA InsertLine ==
  ASSUME NEW s, ShellOK(s), NEW t, ShellOK(t), NEW c \in Int, s.cmd_len < CMD_BUF_SIZE - 1,
         Edited(s, t, Inserted(s, c), s.cmd_len + 1, s.cmd_pos + 1, -1)
  PROVE  Before(t) = Append(Before(s), c) /\ After(t) = After(s)
<1> DEFINE n == s.cmd_len
           p == s.cmd_pos
           f == Append(Before(s), c)
<1>1. n \in Nat /\ p \in Nat /\ p <= n /\ n < CMD_BUF_SIZE - 1 /\ CMD_BUF_SIZE \in Nat
  BY ShellNumbers, BufSizes
<1>2. t.cmd_len = n + 1 /\ t.cmd_pos = p + 1 /\ t.cmd_buf = Inserted(s, c)
  BY DEF Edited
<1>3. \A i \in Buf : t.cmd_buf[i] = CASE i = p -> c
                                      [] p < i /\ i <= n -> s.cmd_buf[i - 1]
                                      [] OTHER -> s.cmd_buf[i]
  BY <1>2 DEF Inserted
<1>4. Before(s) \in Seq(Int) /\ Len(Before(s)) = p /\ \A i \in 1..p : Before(s)[i] = s.cmd_buf[i - 1]
  BY BeforeFacts
<1>5. After(s) \in Seq(Int) /\ Len(After(s)) = n - p /\ \A i \in 1..(n - p) : After(s)[i] = s.cmd_buf[p + i - 1]
  BY AfterFacts
<1>6. Before(t) \in Seq(Int) /\ Len(Before(t)) = p + 1 /\ \A i \in 1..(p + 1) : Before(t)[i] = t.cmd_buf[i - 1]
  BY <1>2, BeforeFacts
<1>7. /\ After(t) \in Seq(Int) /\ Len(After(t)) = (n + 1) - (p + 1)
      /\ \A i \in 1..((n + 1) - (p + 1)) : After(t)[i] = t.cmd_buf[(p + 1) + i - 1]
  BY <1>2, AfterFacts
<1> HIDE DEF n, p
<1>8. f \in Seq(Int) /\ Len(f) = p + 1 /\ f[p + 1] = c /\ \A i \in 1..p : f[i] = Before(s)[i]
  BY <1>4, AppendProperties
<1> HIDE DEF f
<1>9. Before(t) = f
  <2>1. ASSUME NEW i \in 1..(p + 1) PROVE Before(t)[i] = f[i]
    <3> DEFINE j == i - 1
    <3>1. j \in Buf /\ Before(t)[i] = t.cmd_buf[j] /\ j \in Int
      BY <1>1, <1>6 DEF Buf
    <3>2. CASE i = p + 1
      <4>1. j = p
        BY <1>1, <3>2
      <4> HIDE DEF j
      <4> QED
        BY <1>3, <1>8, <3>1, <3>2, <4>1
    <3>3. CASE i # p + 1
      <4>1. i \in 1..p /\ j # p /\ ~(p < j)
        BY <1>1, <3>3
      <4>2. f[i] = s.cmd_buf[j]
        BY <1>4, <1>8, <4>1
      <4> HIDE DEF j
      <4>3. t.cmd_buf[j] = s.cmd_buf[j]
        BY <1>3, <3>1, <4>1
      <4> QED
        BY <3>1, <4>2, <4>3
    <3> QED
      BY <3>2, <3>3
  <2> QED
    BY <1>6, <1>8, <2>1, SeqEqual
<1>10. After(t) = After(s)
  <2>1. (n + 1) - (p + 1) = n - p
    BY <1>1
  <2>2. ASSUME NEW i \in 1..(n - p) PROVE After(t)[i] = After(s)[i]
    <3> DEFINE j == p + 1 + i - 1
    <3>1. j \in Buf /\ p < j /\ j <= n /\ j # p /\ j - 1 = p + i - 1
      BY <1>1 DEF Buf
    <3>2. After(t)[i] = t.cmd_buf[j]
      BY <1>7, <2>1
    <3>3. After(s)[i] = s.cmd_buf[p + i - 1]
      BY <1>5
    <3> HIDE DEF j
    <3>4. t.cmd_buf[j] = s.cmd_buf[j - 1]
      BY <1>3, <3>1
    <3> QED
      BY <3>1, <3>2, <3>3, <3>4
  <2>3. After(t) \in Seq(Int) /\ After(s) \in Seq(Int) /\ Len(After(t)) = n - p /\ Len(After(s)) = n - p
    BY <1>5, <1>7, <2>1
  <2>4. \A i \in 1..Len(After(t)) : After(t)[i] = After(s)[i]
    BY <2>2, <2>3
  <2> QED
    BY <2>3, <2>4, SeqEqual
<1> QED
  BY <1>9, <1>10 DEF f

LEMMA LeftLine ==
  ASSUME NEW s, ShellOK(s), NEW t, ShellOK(t), s.cmd_pos > 0,
         Edited(s, t, s.cmd_buf, s.cmd_len, s.cmd_pos - 1, s.history_nav)
  PROVE  /\ Before(t) = SubSeq(Before(s), 1, Len(Before(s)) - 1)
         /\ After(t) = <<Before(s)[Len(Before(s))]>> \o After(s)
<1> DEFINE n == s.cmd_len
           p == s.cmd_pos
           f == SubSeq(Before(s), 1, Len(Before(s)) - 1)
           e == Before(s)[p]
           g == <<e>> \o After(s)
<1>1. n \in Nat /\ p \in Nat /\ p <= n /\ p > 0
  BY ShellNumbers
<1>2. t.cmd_len = n /\ t.cmd_pos = p - 1 /\ t.cmd_buf = s.cmd_buf
  BY DEF Edited
<1>3. Before(s) \in Seq(Int) /\ Len(Before(s)) = p /\ \A i \in 1..p : Before(s)[i] = s.cmd_buf[i - 1]
  BY BeforeFacts
<1>4. After(s) \in Seq(Int) /\ Len(After(s)) = n - p /\ \A i \in 1..(n - p) : After(s)[i] = s.cmd_buf[p + i - 1]
  BY AfterFacts
<1>5. Before(t) \in Seq(Int) /\ Len(Before(t)) = p - 1 /\ \A i \in 1..(p - 1) : Before(t)[i] = s.cmd_buf[i - 1]
  BY <1>2, BeforeFacts
<1>6. /\ After(t) \in Seq(Int) /\ Len(After(t)) = n - (p - 1)
      /\ \A i \in 1..(n - (p - 1)) : After(t)[i] = s.cmd_buf[(p - 1) + i - 1]
  BY <1>2, AfterFacts
<1> HIDE DEF n, p
<1>7. f \in Seq(Int) /\ Len(f) = p - 1 /\ \A i \in 1..(p - 1) : f[i] = Before(s)[i]
  <2>1. Len(Before(s)) > 0
    BY <1>1, <1>3
  <2> QED
    BY <1>3, <2>1, FrontFacts
<1> HIDE DEF f
<1>8. Before(t) = f
  <2>1. ASSUME NEW i \in 1..(p - 1) PROVE Before(t)[i] = f[i]
    <3>1. i \in 1..p
      BY <1>1
    <3> QED
      BY <1>3, <1>5, <1>7, <3>1
  <2> QED
    BY <1>5, <1>7, <2>1, SeqEqual
<1>9. e \in Int /\ e = s.cmd_buf[p - 1]
  <2>1. p \in 1..p
    BY <1>1
  <2> QED
    BY <1>3, <2>1
<1> HIDE DEF e
<1>10. /\ g \in Seq(Int) /\ Len(g) = n - p + 1
       /\ \A i \in 1..(n - p + 1) : g[i] = IF i = 1 THEN e ELSE After(s)[i - 1]
  <2>1. <<e>> \in Seq(Int) /\ Len(<<e>>) = 1 /\ <<e>>[1] = e
    BY <1>9
  <2> DEFINE h == <<e>>
  <2> HIDE DEF h
  <2>2. /\ h \o After(s) \in Seq(Int) /\ Len(h \o After(s)) = Len(h) + Len(After(s))
        /\ \A i \in 1..(Len(h) + Len(After(s))) :
             (h \o After(s))[i] = IF i <= Len(h) THEN h[i] ELSE After(s)[i - Len(h)]
    BY <1>4, <2>1, ConcatProperties DEF h
  <2>3. Len(h) = 1 /\ h[1] = e /\ g = h \o After(s)
    BY <2>1 DEF h
  <2>4. 1 + (n - p) = n - p + 1 /\ \A i \in 1..(n - p + 1) : i <= 1 <=> i = 1
    BY <1>1
  <2> HIDE DEF g
  <2> QED
    BY <1>4, <2>2, <2>3, <2>4
<1> HIDE DEF g
<1>11. After(t) = g
  <2>1. n - (p - 1) = n - p + 1
    BY <1>1
  <2>2. ASSUME NEW i \in 1..(n - p + 1) PROVE After(t)[i] = g[i]
    <3>1. After(t)[i] = s.cmd_buf[(p - 1) + i - 1]
      BY <1>6, <2>1
    <3>2. CASE i = 1
      <4>1. (p - 1) + i - 1 = p - 1
        BY <1>1, <3>2
      <4> QED
        BY <1>9, <1>10, <3>1, <3>2, <4>1
    <3>3. CASE i # 1
      <4> DEFINE j == i - 1
      <4>1. j \in 1..(n - p) /\ (p - 1) + i - 1 = p + j - 1
        BY <1>1, <3>3
      <4>2. g[i] = After(s)[j]
        BY <1>10, <3>3
      <4> HIDE DEF j
      <4>3. After(s)[j] = s.cmd_buf[p + j - 1]
        BY <1>4, <4>1
      <4> QED
        BY <3>1, <4>1, <4>2, <4>3
    <3> QED
      BY <3>2, <3>3
  <2>3. After(t) \in Seq(Int) /\ Len(After(t)) = n - p + 1
    BY <1>6, <2>1
  <2>4. g \in Seq(Int) /\ Len(g) = n - p + 1
    BY <1>10
  <2>5. \A i \in 1..Len(After(t)) : After(t)[i] = g[i]
    BY <2>2, <2>3
  <2> QED
    BY <2>3, <2>4, <2>5, SeqEqual
<1> QED
  BY <1>3, <1>8, <1>11 DEF f, g, e

LEMMA RightLine ==
  ASSUME NEW s, ShellOK(s), NEW t, ShellOK(t), s.cmd_pos < s.cmd_len,
         Edited(s, t, s.cmd_buf, s.cmd_len, s.cmd_pos + 1, s.history_nav)
  PROVE  /\ Before(t) = Append(Before(s), Head(After(s)))
         /\ After(t) = Tail(After(s))
<1> DEFINE n == s.cmd_len
           p == s.cmd_pos
           e == Head(After(s))
           f == Append(Before(s), e)
           g == Tail(After(s))
<1>1. n \in Nat /\ p \in Nat /\ p < n
  BY ShellNumbers
<1>2. t.cmd_len = n /\ t.cmd_pos = p + 1 /\ t.cmd_buf = s.cmd_buf
  BY DEF Edited
<1>3. Before(s) \in Seq(Int) /\ Len(Before(s)) = p /\ \A i \in 1..p : Before(s)[i] = s.cmd_buf[i - 1]
  BY BeforeFacts
<1>4. After(s) \in Seq(Int) /\ Len(After(s)) = n - p /\ \A i \in 1..(n - p) : After(s)[i] = s.cmd_buf[p + i - 1]
  BY AfterFacts
<1>5. Before(t) \in Seq(Int) /\ Len(Before(t)) = p + 1 /\ \A i \in 1..(p + 1) : Before(t)[i] = s.cmd_buf[i - 1]
  BY <1>2, BeforeFacts
<1>6. /\ After(t) \in Seq(Int) /\ Len(After(t)) = n - (p + 1)
      /\ \A i \in 1..(n - (p + 1)) : After(t)[i] = s.cmd_buf[(p + 1) + i - 1]
  BY <1>2, AfterFacts
<1> HIDE DEF n, p
<1>7. e \in Int /\ e = s.cmd_buf[p]
  <2>1. 1 \in 1..(n - p) /\ p + 1 - 1 = p
    BY <1>1
  <2>2. After(s)[1] \in Int /\ After(s)[1] = s.cmd_buf[p]
    BY <1>4, <2>1
  <2>3. e = After(s)[1]
    BY <1>4
  <2> QED
    BY <2>2, <2>3
<1> HIDE DEF e
<1>8. f \in Seq(Int) /\ Len(f) = p + 1 /\ f[p + 1] = e /\ \A i \in 1..p : f[i] = Before(s)[i]
  BY <1>3, <1>7, AppendProperties
<1>9. g \in Seq(Int) /\ Len(g) = n - p - 1 /\ \A i \in 1..(n - p - 1) : g[i] = After(s)[i + 1]
  <2>1. After(s) # <<>>
    BY <1>1, <1>4, EmptySeq
  <2> QED
    BY <1>4, <2>1, HeadTailProperties
<1> HIDE DEF f, g
<1>10. Before(t) = f
  <2>1. ASSUME NEW i \in 1..(p + 1) PROVE Before(t)[i] = f[i]
    <3>1. CASE i = p + 1
      <4>1. i - 1 = p
        BY <1>1, <3>1
      <4> QED
        BY <1>5, <1>7, <1>8, <3>1, <4>1
    <3>2. CASE i # p + 1
      <4>1. i \in 1..p
        BY <1>1, <3>2
      <4> QED
        BY <1>3, <1>5, <1>8, <4>1
    <3> QED
      BY <3>1, <3>2
  <2> QED
    BY <1>5, <1>8, <2>1, SeqEqual
<1>11. After(t) = g
  <2>1. n - (p + 1) = n - p - 1
    BY <1>1
  <2>2. ASSUME NEW i \in 1..(n - p - 1) PROVE After(t)[i] = g[i]
    <3> DEFINE j == i + 1
    <3>1. j \in 1..(n - p) /\ (p + 1) + i - 1 = p + j - 1
      BY <1>1
    <3>2. g[i] = After(s)[j]
      BY <1>9
    <3>3. After(t)[i] = s.cmd_buf[(p + 1) + i - 1]
      BY <1>6, <2>1
    <3> HIDE DEF j
    <3> QED
      BY <1>4, <3>1, <3>2, <3>3
  <2>3. After(t) \in Seq(Int) /\ Len(After(t)) = n - p - 1
    BY <1>6, <2>1
  <2>4. g \in Seq(Int) /\ Len(g) = n - p - 1
    BY <1>9
  <2>5. \A i \in 1..Len(After(t)) : After(t)[i] = g[i]
    BY <2>2, <2>3
  <2> QED
    BY <2>3, <2>4, <2>5, SeqEqual
<1> QED
  BY <1>10, <1>11 DEF f, g, e

LEMMA RecallLine ==
  ASSUME NEW s, ShellOK(s), NEW t, ShellOK(t), NEW cmd \in Commands, NEW m,
         Edited(s, t, Copied(s, cmd), Len(cmd), Len(cmd), m)
  PROVE  Before(t) = cmd /\ After(t) = <<>>
<1> DEFINE n == Len(cmd)
<1>1. cmd \in Seq(Int) /\ n \in Nat /\ n <= CMD_BUF_SIZE - 1 /\ CMD_BUF_SIZE \in Nat
  BY BufSizes DEF Commands
<1>2. t.cmd_len = n /\ t.cmd_pos = n /\ t.cmd_buf = Copied(s, cmd)
  BY DEF Edited
<1>3. Before(t) \in Seq(Int) /\ Len(Before(t)) = n /\ \A i \in 1..n : Before(t)[i] = t.cmd_buf[i - 1]
  BY <1>2, BeforeFacts
<1>4. After(t) \in Seq(Int) /\ Len(After(t)) = n - n
  BY <1>2, AfterFacts
<1>5. ASSUME NEW i \in 1..n PROVE Before(t)[i] = cmd[i]
  <2> DEFINE j == i - 1
  <2>1. j \in Buf /\ j < n /\ j + 1 = i
    BY <1>1 DEF Buf
  <2>2. Before(t)[i] = Copied(s, cmd)[j]
    BY <1>2, <1>3
  <2> HIDE DEF j
  <2>3. Copied(s, cmd)[j] = cmd[j + 1]
    BY <2>1 DEF Copied
  <2> QED
    BY <2>1, <2>2, <2>3
<1> HIDE DEF n
<1>6. Before(t) = cmd
  <2>1. Len(cmd) = n
    BY DEF n
  <2> QED
    BY <1>1, <1>3, <1>5, <2>1, SeqEqual
<1>7. Len(After(t)) = 0
  BY <1>1, <1>4
<1> QED
  BY <1>4, <1>6, <1>7, EmptySeq

LEMMA EnteredLine ==
  ASSUME NEW s, ShellOK(s)
  PROVE  Before(Entered(s)) = Before(s) /\ After(Entered(s)) = After(s)
<1> DEFINE t == Entered(s)
<1>1. /\ ShellOK(t) /\ t.cmd_len = s.cmd_len /\ t.cmd_pos = s.cmd_pos
      /\ t.cmd_buf = [s.cmd_buf EXCEPT ![s.cmd_len] = NoChar]
  BY EnteredOK
<1>2. s.cmd_len \in Nat /\ s.cmd_len <= CMD_BUF_SIZE - 1 /\ s.cmd_buf \in [Buf -> Int] /\ CMD_BUF_SIZE \in Nat
  BY ShellNumbers, BufSizes DEF Shells
<1>3. \A i \in 0..(s.cmd_len - 1) : i \in Buf /\ i # s.cmd_len
  BY <1>2 DEF Buf
<1> HIDE DEF t
<1>4. \A i \in 0..(s.cmd_len - 1) : t.cmd_buf[i] = s.cmd_buf[i]
  BY <1>1, <1>2, <1>3
<1> QED
  BY <1>1, <1>4, LineSame DEF t

(* A command added to the ring is the latest one, and those before it are  *)
(* each one step further back, wherever the index wraps.                   *)
LEMMA AddedGet ==
  ASSUME NEW s, ShellOK(s), NEW i \in Nat, i < history_add(s, LineOf(s)).history_count
  PROVE  history_get(history_add(s, LineOf(s)), i) = IF i = 0 THEN LineOf(s) ELSE history_get(s, i - 1)
<1> DEFINE t == history_add(s, LineOf(s))
           x == s.history_index
           n == s.history_count
           H == HISTORY_LEN
           y == t.history_index
           m == t.history_count
<1>1. /\ ShellOK(t) /\ t.history = [s.history EXCEPT ![x] = LineOf(s)]
      /\ y = (x + 1) % H /\ m = IF n < H THEN n + 1 ELSE n
  BY AddOK
<1>2. /\ x \in Nat /\ x <= H - 1 /\ n \in Nat /\ n <= H /\ H \in Nat /\ H > 0
      /\ (n < H => x = n) /\ s.history \in [Slots -> Commands] /\ x \in Slots
  BY ShellNumbers, BufSizes DEF ShellOK, Shells
<1>3. history_get(t, i) = IF i < 0 \/ i >= m THEN <<>> ELSE t.history[SlotBefore(t, i)]
  BY DEF history_get, SlotBefore
<1>4. history_get(s, i - 1) = IF i - 1 < 0 \/ i - 1 >= n THEN <<>> ELSE s.history[SlotBefore(s, i - 1)]
  BY DEF history_get, SlotBefore
<1>5. SlotBefore(t, i) = IF y - 1 - i < 0 THEN y - 1 - i + H ELSE y - 1 - i
  BY DEF SlotBefore
<1>6. SlotBefore(s, i - 1) = IF x - 1 - (i - 1) < 0 THEN x - 1 - (i - 1) + H ELSE x - 1 - (i - 1)
  BY DEF SlotBefore
<1>7. i < m
  OBVIOUS
<1> HIDE DEF t, x, n, H, y, m
<1>8. y = IF x + 1 = H THEN 0 ELSE x + 1
  BY <1>1, <1>2
<1>9. i < H /\ ~(i < 0 \/ i >= m)
  BY <1>1, <1>2, <1>7
<1>10. history_get(t, i) = t.history[SlotBefore(t, i)]
  BY <1>3, <1>9
<1>11. CASE i = 0
  <2>1. SlotBefore(t, i) = x
    BY <1>2, <1>5, <1>8, <1>11
  <2>2. t.history[x] = LineOf(s)
    BY <1>1, <1>2
  <2> QED
    BY <1>10, <1>11, <2>1, <2>2 DEF t
<1>12. CASE i # 0
  <2>1. SlotBefore(t, i) = SlotBefore(s, i - 1)
    BY <1>2, <1>5, <1>6, <1>8, <1>9, <1>12
  <2>2. SlotBefore(s, i - 1) # x /\ SlotBefore(s, i - 1) \in 0..(H - 1) /\ ~(i - 1 < 0 \/ i - 1 >= n)
    BY <1>1, <1>2, <1>6, <1>7, <1>9, <1>12
  <2>3. SlotBefore(s, i - 1) \in Slots
    BY <2>2 DEF Slots, H
  <2>4. t.history[SlotBefore(s, i - 1)] = s.history[SlotBefore(s, i - 1)]
    BY <1>1, <1>2, <2>2, <2>3
  <2> QED
    BY <1>4, <1>10, <1>12, <2>1, <2>2, <2>4 DEF t
<1> QED
  BY <1>11, <1>12

(* What the history is after Enter, in the terms of LineEditor. *)
Pushed(line, past) ==
  LET all == <<line>> \o past
  IN  CASE line = <<>>                               -> past
        [] line # <<>> /\ Len(all) <= HISTORY_LEN -> all
        [] OTHER                                     -> SubSeq(all, 1, Len(all) - 1)

LEMMA ConsFacts ==
  ASSUME NEW S, NEW e \in S, NEW r \in Seq(S)
  PROVE  /\ <<e>> \o r \in Seq(S) /\ Len(<<e>> \o r) = Len(r) + 1
         /\ \A i \in 1..(Len(r) + 1) : (<<e>> \o r)[i] = IF i = 1 THEN e ELSE r[i - 1]
<1> DEFINE h == <<e>>
<1>1. h \in Seq(S) /\ Len(h) = 1 /\ h[1] = e
  OBVIOUS
<1> HIDE DEF h
<1>2. /\ h \o r \in Seq(S) /\ Len(h \o r) = Len(h) + Len(r)
      /\ \A i \in 1..(Len(h) + Len(r)) : (h \o r)[i] = IF i <= Len(h) THEN h[i] ELSE r[i - Len(h)]
  BY <1>1, ConcatProperties
<1>3. Len(r) \in Nat
  BY LenProperties
<1>4. 1 + Len(r) = Len(r) + 1 /\ \A i \in 1..(Len(r) + 1) : i <= 1 <=> i = 1
  BY <1>3
<1> QED
  BY <1>1, <1>2, <1>4 DEF h

LEMMA RecentAdded ==
  ASSUME NEW s, ShellOK(s), s.cmd_len > 0
  PROVE  Recent(history_add(s, LineOf(s))) = Pushed(LineOf(s), Recent(s))
<1> DEFINE t == history_add(s, LineOf(s))
           n == s.history_count
           m == t.history_count
           l == LineOf(s)
           r == Recent(s)
           all == <<l>> \o r
           v == Recent(t)
           H == HISTORY_LEN
<1>1. ShellOK(t) /\ m = IF n < H THEN n + 1 ELSE n
  BY AddOK
<1>2. n \in Nat /\ n <= H /\ H \in Nat /\ H > 0
  BY ShellNumbers, BufSizes
<1>3. l \in Commands /\ l # <<>>
  <2>1. s.cmd_len \in Nat /\ s \in Shells
    BY ShellNumbers
  <2>2. l \in Commands /\ Len(l) = s.cmd_len
    BY <2>1, LineFacts
  <2> HIDE DEF l
  <2> QED
    BY <2>1, <2>2, EmptySeq
<1>4. r \in Seq(Commands) /\ Len(r) = n /\ \A i \in 1..n : r[i] = history_get(s, i - 1)
  BY RecentFacts
<1>5. v \in Seq(Commands) /\ Len(v) = m /\ \A i \in 1..m : v[i] = history_get(t, i - 1)
  BY <1>1, RecentFacts
<1>6. \A i \in Nat : i < m => history_get(t, i) = IF i = 0 THEN l ELSE history_get(s, i - 1)
  BY AddedGet
<1> HIDE DEF t, n, m, l, r, v, H
<1>7. /\ all \in Seq(Commands) /\ Len(all) = n + 1
      /\ \A i \in 1..(n + 1) : all[i] = IF i = 1 THEN l ELSE r[i - 1]
  BY <1>3, <1>4, ConsFacts
<1> HIDE DEF all
<1>8. ASSUME NEW i \in 1..m PROVE v[i] = all[i]
  <2> DEFINE j == i - 1
  <2>1. j \in Nat /\ j < m /\ i \in 1..(n + 1) /\ (i = 1 <=> j = 0)
    BY <1>1, <1>2
  <2>2. j # 0 => j \in 1..n
    BY <1>1, <1>2
  <2>3. v[i] = history_get(t, j)
    BY <1>5
  <2>4. all[i] = IF i = 1 THEN l ELSE r[j]
    BY <1>7, <2>1
  <2> HIDE DEF j
  <2>5. history_get(t, j) = IF j = 0 THEN l ELSE history_get(s, j - 1)
    BY <1>6, <2>1
  <2>6. j # 0 => r[j] = history_get(s, j - 1)
    BY <1>4, <2>2
  <2> QED
    BY <2>1, <2>3, <2>4, <2>5, <2>6
<1>9. CASE n < H
  <2>1. m = n + 1 /\ Len(all) <= H
    BY <1>1, <1>2, <1>7, <1>9
  <2>2. Len(v) = Len(all) /\ \A i \in 1..Len(v) : v[i] = all[i]
    BY <1>5, <1>7, <1>8, <2>1
  <2>3. v = all
    BY <1>5, <1>7, <2>2, SeqEqual
  <2> QED
    BY <1>3, <2>1, <2>3 DEF Pushed, all, v, t, l, r, H
<1>10. CASE ~(n < H)
  <2> DEFINE f == SubSeq(all, 1, Len(all) - 1)
  <2>1. m = n /\ ~(Len(all) <= H) /\ Len(all) > 0 /\ Len(all) - 1 = n
    BY <1>1, <1>2, <1>7, <1>10
  <2>2. f \in Seq(Commands) /\ Len(f) = n /\ \A i \in 1..n : f[i] = all[i]
    BY <1>7, <2>1, FrontFacts
  <2> HIDE DEF f
  <2>3. Len(v) = Len(f) /\ \A i \in 1..Len(v) : v[i] = f[i]
    BY <1>5, <1>8, <2>1, <2>2
  <2>4. v = f
    BY <1>5, <2>2, <2>3, SeqEqual
  <2> QED
    BY <1>3, <2>1, <2>4 DEF Pushed, all, v, t, l, r, H, f
<1> QED
  BY <1>9, <1>10

LEMMA RecentEntered ==
  ASSUME NEW s, ShellOK(s)
  PROVE  Recent(Entered(s)) = Pushed(LineOf(s), Recent(s))
<1> DEFINE k == IF s.cmd_len > 0 THEN history_add(s, LineOf(s)) ELSE s
           t == Entered(s)
<1>1. t.history = k.history /\ t.history_index = k.history_index /\ t.history_count = k.history_count
  BY EnteredOK
<1> HIDE DEF t, k
<1>2. Recent(t) = Recent(k)
  BY <1>1, RecentSame
<1>3. CASE s.cmd_len > 0
  BY <1>2, <1>3, RecentAdded DEF k, t
<1>4. CASE ~(s.cmd_len > 0)
  <2>1. s.cmd_len = 0 /\ s \in Shells
    BY <1>4, ShellNumbers
  <2>2. LineOf(s) = <<>>
    <3>1. LineOf(s) \in Seq(Int) /\ Len(LineOf(s)) = 0
      BY <2>1, LineFacts, ShellNumbers
    <3> QED
      BY <3>1, EmptySeq
  <2>3. Pushed(<<>>, Recent(s)) = Recent(s)
    BY DEF Pushed
  <2>4. k = s
    BY <1>4 DEF k
  <2> QED
    BY <1>2, <2>2, <2>3, <2>4 DEF t
<1> QED
  BY <1>3, <1>4

-----------------------------------------------------------------------------
(* The steps of LineEditor as relations between two states of the shell.   *)

Types(s, t) ==
  /\ t.history_nav + 1 = 0
  /\ \/ /\ Len(Before(s)) + Len(After(s)) < CMD_BUF_SIZE - 1
        /\ \E c \in Key : Before(t) = Append(Before(s), c)
     \/ /\ Len(Before(s)) + Len(After(s)) = CMD_BUF_SIZE - 1
        /\ Before(t) = Before(s)
  /\ After(t) = After(s) /\ Recent(t) = Recent(s)

Erases(s, t) ==
  /\ Before(s) # <<>>
  /\ Before(t) = SubSeq(Before(s), 1, Len(Before(s)) - 1)
  /\ After(t) = After(s) /\ Recent(t) = Recent(s) /\ t.history_nav = s.history_nav

Lefts(s, t) ==
  /\ Before(s) # <<>>
  /\ Before(t) = SubSeq(Before(s), 1, Len(Before(s)) - 1)
  /\ After(t) = <<Before(s)[Len(Before(s))]>> \o After(s)
  /\ Recent(t) = Recent(s) /\ t.history_nav = s.history_nav

Rights(s, t) ==
  /\ After(s) # <<>>
  /\ Before(t) = Append(Before(s), Head(After(s)))
  /\ After(t) = Tail(After(s))
  /\ Recent(t) = Recent(s) /\ t.history_nav = s.history_nav

Browses(s, t, n) ==
  /\ n \in 0..Len(Recent(s))
  /\ t.history_nav + 1 = n
  /\ Before(t) = IF n = 0 THEN <<>> ELSE Recent(s)[n]
  /\ After(t) = <<>>
  /\ Recent(t) = Recent(s)

Enters(s, t) ==
  /\ Recent(t) = Pushed(Before(s) \o After(s), Recent(s))
  /\ t.history_nav + 1 = 0
  /\ \/ Before(t) = <<>> /\ After(t) = <<>>
     \/ Before(t) = Before(s) /\ After(t) = After(s)

Discards(s, t) ==
  /\ Before(t) = <<>> /\ After(t) = <<>>
  /\ Recent(t) = Recent(s) /\ t.history_nav = s.history_nav

Stays(s, t) ==
  /\ Before(t) = Before(s) /\ After(t) = After(s)
  /\ Recent(t) = Recent(s) /\ t.history_nav = s.history_nav

Edits(s, t) ==
  \/ Types(s, t) \/ Erases(s, t) \/ Lefts(s, t) \/ Rights(s, t)
  \/ Browses(s, t, s.history_nav + 1 + 1) \/ Browses(s, t, (s.history_nav + 1) - 1)
  \/ Enters(s, t) \/ Discards(s, t) \/ Stays(s, t)

LEMMA EditedSame ==
  ASSUME NEW s, NEW t, NEW b, NEW n, NEW p, NEW m, Edited(s, t, b, n, p, m)
  PROVE  Recent(t) = Recent(s) /\ t.history_nav = m
  BY RecentSame DEF Edited

LEMMA LineNotEmpty ==
  ASSUME NEW s, ShellOK(s)
  PROVE  /\ s.cmd_pos # 0 => Before(s) # <<>>
         /\ s.cmd_pos < s.cmd_len => After(s) # <<>>
<1>1. Before(s) \in Seq(Int) /\ Len(Before(s)) = s.cmd_pos
  BY BeforeFacts
<1>2. After(s) \in Seq(Int) /\ Len(After(s)) = s.cmd_len - s.cmd_pos
  BY AfterFacts
<1>3. s.cmd_len \in Nat /\ s.cmd_pos \in Nat
  BY ShellNumbers
<1> QED
  BY <1>1, <1>2, <1>3, EmptySeq

(* The keys that change the shell, one by one. *)

LEMMA BackspaceEdits ==
  ASSUME NEW u, UI(u)
  PROVE  UI(BackspaceKey(u)) /\ Edits(u.sh, BackspaceKey(u).sh)
<1> DEFINE s == u.sh
           v == BackspaceKey(u)
           t == v.sh
<1>1. /\ UI(v) /\ (s.cmd_pos = 0 => v = u)
      /\ s.cmd_pos # 0 => Edited(s, t, Shifted(s), s.cmd_len - 1, s.cmd_pos - 1, s.history_nav)
  BY EraseUI
<1>2. ShellOK(s)
  BY PartsUI
<1> HIDE DEF v
<1>3. ShellOK(t)
  BY <1>1, PartsUI
<1>4. CASE s.cmd_pos = 0
  BY <1>1, <1>4 DEF Edits, Stays, v
<1>5. CASE s.cmd_pos # 0
  <2>1. Edited(s, t, Shifted(s), s.cmd_len - 1, s.cmd_pos - 1, s.history_nav)
    BY <1>1, <1>5
  <2> HIDE DEF s, t
  <2>2. Before(t) = SubSeq(Before(s), 1, Len(Before(s)) - 1) /\ After(t) = After(s)
    BY <1>2, <1>3, <1>5, <2>1, EraseLine
  <2>3. Recent(t) = Recent(s) /\ t.history_nav = s.history_nav
    BY <2>1, EditedSame
  <2>4. Before(s) # <<>>
    BY <1>2, <1>5, LineNotEmpty
  <2>5. Erases(s, t)
    BY <2>2, <2>3, <2>4 DEF Erases
  <2> QED
    BY <1>1, <2>5 DEF Edits, s, t, v
<1> QED
  BY <1>1, <1>4, <1>5 DEF v

LEMMA LeftEdits ==
  ASSUME NEW u, UI(u)
  PROVE  UI(LeftKey(u)) /\ Edits(u.sh, LeftKey(u).sh)
<1> DEFINE s == u.sh
           v == LeftKey(u)
           t == v.sh
           p == s.cmd_pos - 1
<1>1. ShellOK(s)
  BY PartsUI
<1>2. CASE s.cmd_pos > 0
  <2>1. p \in Buf /\ p <= s.cmd_len
    BY <1>1, <1>2, ShellNumbers, BufSizes DEF Buf
  <2>2. v = MoveTo(u, p)
    BY <1>2 DEF LeftKey
  <2> HIDE DEF v, p
  <2>3. UI(v) /\ Edited(s, t, s.cmd_buf, s.cmd_len, p, s.history_nav)
    BY <2>1, <2>2, MoveUI
  <2>4. ShellOK(t)
    BY <2>3, PartsUI
  <2> HIDE DEF s, t
  <2>5. Before(t) = SubSeq(Before(s), 1, Len(Before(s)) - 1) /\ After(t) = <<Before(s)[Len(Before(s))]>> \o After(s)
    BY <1>1, <1>2, <2>3, <2>4, LeftLine DEF p
  <2>6. Recent(t) = Recent(s) /\ t.history_nav = s.history_nav
    BY <2>3, EditedSame
  <2>7. Before(s) # <<>>
    <3>1. s.cmd_pos # 0
      BY <1>2
    <3> QED
      BY <1>1, <3>1, LineNotEmpty
  <2>8. Lefts(s, t)
    BY <2>5, <2>6, <2>7 DEF Lefts
  <2> QED
    BY <2>3, <2>8 DEF Edits, s, t, v
<1>3. CASE ~(s.cmd_pos > 0)
  BY <1>3 DEF LeftKey, Edits, Stays
<1> QED
  BY <1>2, <1>3

LEMMA RightEdits ==
  ASSUME NEW u, UI(u)
  PROVE  UI(RightKey(u)) /\ Edits(u.sh, RightKey(u).sh)
<1> DEFINE s == u.sh
           v == RightKey(u)
           t == v.sh
           p == s.cmd_pos + 1
<1>1. ShellOK(s)
  BY PartsUI
<1>2. CASE s.cmd_pos < s.cmd_len
  <2>1. p \in Buf /\ p <= s.cmd_len
    BY <1>1, <1>2, ShellNumbers, BufSizes DEF Buf
  <2>2. v = MoveTo(u, p)
    BY <1>2 DEF RightKey
  <2> HIDE DEF v, p
  <2>3. UI(v) /\ Edited(s, t, s.cmd_buf, s.cmd_len, p, s.history_nav)
    BY <2>1, <2>2, MoveUI
  <2>4. ShellOK(t)
    BY <2>3, PartsUI
  <2> HIDE DEF s, t
  <2>5. Before(t) = Append(Before(s), Head(After(s))) /\ After(t) = Tail(After(s))
    BY <1>1, <1>2, <2>3, <2>4, RightLine DEF p
  <2>6. Recent(t) = Recent(s) /\ t.history_nav = s.history_nav
    BY <2>3, EditedSame
  <2>7. After(s) # <<>>
    BY <1>1, <1>2, LineNotEmpty
  <2>8. Rights(s, t)
    BY <2>5, <2>6, <2>7 DEF Rights
  <2> QED
    BY <2>3, <2>8 DEF Edits, s, t, v
<1>3. CASE ~(s.cmd_pos < s.cmd_len)
  BY <1>3 DEF RightKey, Edits, Stays
<1> QED
  BY <1>2, <1>3

LEMMA RecallEdits ==
  ASSUME NEW u, UI(u), NEW m \in -1..(HISTORY_LEN - 1), m < u.sh.history_count
  PROVE  UI(Recall(u, m)) /\ Browses(u.sh, Recall(u, m).sh, m + 1)
<1> DEFINE s == u.sh
           v == Recall(u, m)
           t == v.sh
           cmd == history_get(s, m)
<1>1. ShellOK(s)
  BY PartsUI
<1>2. UI(v) /\ Edited(s, t, Copied(s, cmd), Len(cmd), Len(cmd), m)
  BY RecallUI
<1>3. m \in Int /\ cmd \in Commands
  BY <1>1, GetFacts
<1> HIDE DEF v, cmd
<1>4. ShellOK(t)
  BY <1>2, PartsUI
<1>5. m < s.history_count /\ s.history_count \in Nat /\ m >= -1
  BY <1>1, BufSizes, ShellNumbers
<1> HIDE DEF s, t
<1>6. Before(t) = cmd /\ After(t) = <<>>
  BY <1>1, <1>2, <1>3, <1>4, RecallLine
<1>7. Recent(t) = Recent(s) /\ t.history_nav = m
  BY <1>2, EditedSame
<1>8. Len(Recent(s)) = s.history_count /\ \A i \in 1..s.history_count : Recent(s)[i] = history_get(s, i - 1)
  BY <1>1, RecentFacts
<1>9. m + 1 \in 0..Len(Recent(s))
  BY <1>3, <1>5, <1>8
<1>10. cmd = IF m + 1 = 0 THEN <<>> ELSE Recent(s)[m + 1]
  <2> DEFINE n == m + 1
  <2>1. n - 1 = m /\ (n # 0 => n \in 1..s.history_count) /\ (n = 0 => m \notin 0..(s.history_count - 1))
    BY <1>3, <1>5
  <2> HIDE DEF n
  <2>2. CASE n = 0
    <3>1. m \notin 0..(s.history_count - 1)
      BY <2>1, <2>2
    <3>2. cmd = <<>>
      BY <1>1, <1>3, <3>1, GetFacts DEF cmd
    <3> QED
      BY <2>2, <3>2 DEF n
  <2>3. CASE n # 0
    <3>1. Recent(s)[n] = history_get(s, n - 1)
      BY <1>8, <2>1, <2>3
    <3> QED
      BY <2>1, <2>3, <3>1 DEF cmd, n
  <2> QED
    BY <2>2, <2>3
<1>11. Browses(s, t, m + 1)
  BY <1>6, <1>7, <1>9, <1>10 DEF Browses
<1> QED
  BY <1>2, <1>11 DEF s, t, v

LEMMA UpEdits ==
  ASSUME NEW u, UI(u)
  PROVE  UI(UpKey(u)) /\ Edits(u.sh, UpKey(u).sh)
<1> DEFINE s == u.sh
           m == s.history_nav + 1
<1>1. ShellOK(s)
  BY PartsUI
<1>2. CASE s.history_nav < s.history_count - 1
  <2>1. m \in -1..(HISTORY_LEN - 1) /\ m < s.history_count
    BY <1>1, <1>2, ShellNumbers, BufSizes
  <2>2. UpKey(u) = Recall(u, m)
    BY <1>2 DEF UpKey
  <2> HIDE DEF m
  <2>3. UI(Recall(u, m)) /\ Browses(s, Recall(u, m).sh, m + 1)
    BY <2>1, RecallEdits
  <2> QED
    BY <2>2, <2>3 DEF Edits, m
<1>3. CASE ~(s.history_nav < s.history_count - 1)
  BY <1>3 DEF UpKey, Edits, Stays
<1> QED
  BY <1>2, <1>3

LEMMA DownEdits ==
  ASSUME NEW u, UI(u)
  PROVE  UI(DownKey(u)) /\ Edits(u.sh, DownKey(u).sh)
<1> DEFINE s == u.sh
           m == s.history_nav - 1
<1>1. ShellOK(s)
  BY PartsUI
<1>2. CASE s.history_nav >= 0
  <2>1. m \in -1..(HISTORY_LEN - 1) /\ m < s.history_count /\ m + 1 = (s.history_nav + 1) - 1
    BY <1>1, <1>2, ShellNumbers, BufSizes
  <2>2. DownKey(u) = Recall(u, m)
    BY <1>2 DEF DownKey
  <2> HIDE DEF m
  <2>3. UI(Recall(u, m)) /\ Browses(s, Recall(u, m).sh, m + 1)
    BY <2>1, RecallEdits
  <2> QED
    BY <2>1, <2>2, <2>3 DEF Edits
<1>3. CASE ~(s.history_nav >= 0)
  BY <1>3 DEF DownKey, Edits, Stays
<1> QED
  BY <1>2, <1>3

LEMMA InsertEdits ==
  ASSUME NEW u, UI(u), NEW c \in Key, c \in Int
  PROVE  UI(InsertKey(u, c)) /\ Edits(u.sh, InsertKey(u, c).sh)
<1> DEFINE s == u.sh
           v == InsertKey(u, c)
           t == v.sh
           full == ~(s.cmd_len < CMD_BUF_SIZE - 1)
<1>1. ShellOK(s)
  BY PartsUI
<1>2. /\ UI(v)
      /\ ~full => Edited(s, t, Inserted(s, c), s.cmd_len + 1, s.cmd_pos + 1, -1)
      /\ full => Edited(s, t, s.cmd_buf, s.cmd_len, s.cmd_pos, -1)
  BY InsertUI
<1> HIDE DEF v
<1>3. ShellOK(t)
  BY <1>2, PartsUI
<1> HIDE DEF s, t
<1>4. s.cmd_len \in Nat /\ s.cmd_len <= CMD_BUF_SIZE - 1 /\ s.cmd_pos \in Nat /\ s.cmd_pos <= s.cmd_len
      /\ CMD_BUF_SIZE \in Nat
  BY <1>1, ShellNumbers, BufSizes
<1>5. Len(Before(s)) = s.cmd_pos /\ Len(After(s)) = s.cmd_len - s.cmd_pos
  BY <1>1, BeforeFacts, AfterFacts
<1>6. Len(Before(s)) + Len(After(s)) = s.cmd_len
  BY <1>4, <1>5
<1>7. (-1) + 1 = 0
  OBVIOUS
<1>8. CASE ~full
  <2>1. Edited(s, t, Inserted(s, c), s.cmd_len + 1, s.cmd_pos + 1, -1)
    BY <1>2, <1>8
  <2>2. Before(t) = Append(Before(s), c) /\ After(t) = After(s)
    BY <1>1, <1>3, <1>8, <2>1, InsertLine
  <2>3. Recent(t) = Recent(s) /\ t.history_nav = -1
    BY <2>1, EditedSame
  <2>4. Types(s, t)
    BY <1>6, <1>7, <1>8, <2>2, <2>3 DEF Types
  <2> QED
    BY <1>2, <2>4 DEF Edits, s, t, v
<1>9. CASE full
  <2>1. Edited(s, t, s.cmd_buf, s.cmd_len, s.cmd_pos, -1)
    BY <1>2, <1>9
  <2>2. Before(t) = Before(s) /\ After(t) = After(s)
    BY <1>1, <1>3, <2>1, LineSame DEF Edited
  <2>3. Recent(t) = Recent(s) /\ t.history_nav = -1
    BY <2>1, EditedSame
  <2>4. Len(Before(s)) + Len(After(s)) = CMD_BUF_SIZE - 1
    BY <1>4, <1>6, <1>9
  <2>5. Types(s, t)
    BY <1>7, <2>2, <2>3, <2>4 DEF Types
  <2> QED
    BY <1>2, <2>5 DEF Edits, s, t, v
<1> QED
  BY <1>8, <1>9

LEMMA RenewedLine ==
  ASSUME NEW s, NEW t, ShellOK(t), Renewed(s, t)
  PROVE  /\ Before(t) = <<>> /\ After(t) = <<>>
         /\ Recent(t) = Recent(s) /\ t.history_nav = s.history_nav
  BY EmptyLine, RecentSame DEF Renewed

LEMMA DrawEdits ==
  ASSUME NEW u, UI(u), NEW p, Grid(p), NEW junk \in Junk
  PROVE  UI(pane_draw(u, p, junk)) /\ Edits(u.sh, pane_draw(u, p, junk).sh)
<1> DEFINE v == pane_draw(u, p, junk)
<1>1. UI(v) /\ Renewed(u.sh, v.sh)
  BY DrawUI
<1> HIDE DEF v
<1>2. ShellOK(v.sh)
  BY <1>1, PartsUI
<1>3. Discards(u.sh, v.sh)
  BY <1>1, <1>2, RenewedLine DEF Discards
<1> QED
  BY <1>1, <1>3 DEF Edits, v

LEMMA EnterEdits ==
  ASSUME NEW u, UI(u), NEW junk \in Junk
  PROVE  UI(EnterKey(u, junk)) /\ Edits(u.sh, EnterKey(u, junk).sh)
<1> DEFINE s == u.sh
           v == EnterKey(u, junk)
           t == v.sh
           e == Entered(s)
<1>1. ShellOK(s)
  BY PartsUI
<1>2. UI(v) /\ (t = e \/ Renewed(e, t))
  BY EnterUI
<1> HIDE DEF v
<1>3. ShellOK(t)
  BY <1>2, PartsUI
<1> HIDE DEF s, t
<1>4. e.history_nav = -1
  BY <1>1, EnteredOK
<1>5. Recent(e) = Pushed(Before(s) \o After(s), Recent(s))
  BY <1>1, RecentEntered, WholeLine
<1>6. Before(e) = Before(s) /\ After(e) = After(s)
  BY <1>1, EnteredLine
<1>7. (-1) + 1 = 0
  OBVIOUS
<1> HIDE DEF e
<1>8. ASSUME t = e PROVE Enters(s, t)
  BY <1>4, <1>5, <1>6, <1>7, <1>8 DEF Enters
<1>9. ASSUME Renewed(e, t) PROVE Enters(s, t)
  <2>1. Before(t) = <<>> /\ After(t) = <<>> /\ Recent(t) = Recent(e) /\ t.history_nav = e.history_nav
    BY <1>3, <1>9, RenewedLine
  <2> QED
    BY <1>4, <1>5, <1>7, <2>1 DEF Enters
<1> QED
  BY <1>2, <1>8, <1>9 DEF Edits, s, t, v

LEMMA HandleEdits ==
  ASSUME NEW u, UI(u), NEW c \in Key \cup {Backspace}, NEW junk \in Junk
  PROVE  UI(HandleKey(u, c, junk)) /\ Edits(u.sh, HandleKey(u, c, junk).sh)
<1> DEFINE v == HandleKey(u, c, junk)
<1>1. v = CASE c = Newline   -> EnterKey(u, junk)
            [] c = Backspace -> BackspaceKey(u)
            [] c = KEY_LEFT  -> LeftKey(u)
            [] c = KEY_RIGHT -> RightKey(u)
            [] c = KEY_UP    -> UpKey(u)
            [] c = KEY_DOWN  -> DownKey(u)
            [] OTHER         -> InsertKey(u, c)
  BY DEF HandleKey
<1>2. \/ v = EnterKey(u, junk) \/ v = BackspaceKey(u) \/ v = LeftKey(u) \/ v = RightKey(u)
      \/ v = UpKey(u) \/ v = DownKey(u) \/ (c \in Key /\ v = InsertKey(u, c))
  BY <1>1
<1> HIDE DEF v
<1>3. c \in Key => c \in Int
  BY HmiAssumption
<1> QED
  BY <1>2, <1>3, EnterEdits, BackspaceEdits, LeftEdits, RightEdits, UpEdits, DownEdits, InsertEdits DEF v

-----------------------------------------------------------------------------
(* The interface: console_poll_input and shell_task together.              *)

(* The inductive invariant: a well-formed screen, grid and shell, and the  *)
(* ring in its array with nothing but keys in it.                          *)
HmiInv == UI(ui) /\ Ring!TypeOK

LEMMA RingChars ==
  /\ Key \subseteq Int /\ Backspace \in Key \cup {Backspace} /\ Backspace # DEL
  /\ INPUT_BUF_SIZE \in Nat \ {0, 1}
  BY HmiAssumption DEF Backspace, DEL

LEMMA RingAdvance ==
  ASSUME NEW i \in Ring!Slot
  PROVE  Ring!Advance(i) \in Ring!Slot
  BY RingChars DEF Ring!Slot, Ring!Advance

LEMMA RingStore ==
  ASSUME Ring!TypeOK, NEW c \in Key, Ring!StoreKey(c), got' = got
  PROVE  Ring!TypeOK'
<1>1. Ring!Normalise(c) \in Key \cup {Backspace}
  BY DEF Ring!Normalise
<1>2. Ring!Advance(input_head) \in Ring!Slot
  BY RingAdvance DEF Ring!TypeOK
<1> QED
  BY <1>1, <1>2 DEF Ring!TypeOK, Ring!StoreKey, Ring!ringVars

LEMMA RingGet ==
  ASSUME Ring!TypeOK, Ring!console_getc
  PROVE  Ring!TypeOK' /\ got' \in Key \cup {Backspace} \cup {NoChar}
<1>1. Ring!Advance(input_tail) \in Ring!Slot
  BY RingAdvance DEF Ring!TypeOK
<1> QED
  BY <1>1 DEF Ring!TypeOK, Ring!console_getc, Ring!ringVars

LEMMA RingStutter ==
  ASSUME Ring!TypeOK, UNCHANGED ringVars
  PROVE  Ring!TypeOK'
  BY DEF Ring!TypeOK, ringVars

LEMMA NewGridOK ==
  ASSUME UI(ui), NEW c \in PaneKeys
  PROVE  Grid(NewGrid(c))
<1> DEFINE p == ui.pane
           g == NewGrid(c)
<1>1. Grid(p)
  BY PartsUI
<1>2. /\ Grid(pane_move_left(p)) /\ Grid(pane_move_right(p))
      /\ Grid(pane_move_up(p)) /\ Grid(pane_move_down(p))
  BY <1>1, MoveGrid
<1>3. /\ Grid(pane_resize_width(p, -1)) /\ Grid(pane_resize_width(p, 1))
      /\ Grid(pane_resize_height(p, -1)) /\ Grid(pane_resize_height(p, 1))
  BY <1>1, ResizeGrid
<1>4. \/ g = pane_move_up(p) \/ g = pane_move_left(p) \/ g = pane_move_down(p) \/ g = pane_move_right(p)
      \/ g = pane_resize_width(p, -1) \/ g = pane_resize_width(p, 1)
      \/ g = pane_resize_height(p, -1) \/ g = pane_resize_height(p, 1)
  BY DEF NewGrid, PaneKeys
<1> HIDE DEF g
<1> QED
  BY <1>2, <1>3, <1>4 DEF g

LEMMA HmiStart ==
  ASSUME Init
  PROVE  /\ HmiInv
         /\ Before(sh) = <<>> /\ After(sh) = <<>> /\ Recent(sh) = <<>> /\ sh.history_nav + 1 = 0
<1>1. PICK junk \in Junk : ui = ReadyUI(junk)
  BY DEF Init
<1>2. UI(ui) /\ sh.cmd_len = 0 /\ sh.cmd_pos = 0 /\ sh.history_count = 0 /\ sh.history_nav = -1
  <2>1. LET u == ReadyUI(junk)
        IN  /\ UI(u) /\ u.sh.cmd_len = 0 /\ u.sh.cmd_pos = 0
            /\ u.sh.history_count = 0 /\ u.sh.history_nav = -1
    BY ReadyFacts
  <2> QED
    BY <1>1, <2>1 DEF sh
<1>3. ShellOK(sh)
  BY <1>2, PartsUI DEF sh
<1>4. Before(sh) = <<>> /\ After(sh) = <<>>
  BY <1>2, <1>3, EmptyLine
<1>5. Recent(sh) = <<>>
  <2>1. Recent(sh) \in Seq(Commands) /\ Len(Recent(sh)) = 0
    BY <1>2, <1>3, RecentFacts
  <2> QED
    BY <2>1, EmptySeq
<1>6. Ring!TypeOK
  <2>1. Ring!Init
    BY DEF Init
  <2>2. 0 \in Ring!Slot
    BY RingChars DEF Ring!Slot
  <2> QED
    BY <2>1, <2>2 DEF Ring!Init, Ring!TypeOK
<1> QED
  BY <1>2, <1>4, <1>5, <1>6 DEF HmiInv

LEMMA HmiStep ==
  ASSUME HmiInv, [Next]_vars
  PROVE  HmiInv' /\ Edits(sh, sh')
<1>1. UI(ui) /\ Ring!TypeOK
  BY DEF HmiInv
<1>2. ASSUME ui' = ui PROVE UI(ui') /\ Edits(sh, sh')
  BY <1>1, <1>2 DEF Edits, Stays, sh
<1>3. ASSUME NEW c \in Key, CtrlKey(c) PROVE HmiInv' /\ Edits(sh, sh')
  <2>1. ui' = ui /\ UNCHANGED ringVars
    BY <1>3 DEF CtrlKey
  <2> QED
    BY <1>1, <1>2, <2>1, RingStutter DEF HmiInv
<1>4. ASSUME NEW c \in Key, ScrollKey(c) PROVE HmiInv' /\ Edits(sh, sh')
  <2> DEFINE d == ScrollView(ui.con, c = KEY_UP)
  <2>1. UNCHANGED ringVars /\ ui' = [ui EXCEPT !.con = d]
    BY <1>4 DEF ScrollKey
  <2>2. d \in Con
    <3>1. ui.con \in Con /\ (c = KEY_UP) \in BOOLEAN
      BY <1>1, PartsUI
    <3> QED
      BY <3>1, ScrollViewTyped
  <2> HIDE DEF d
  <2>3. UI(ui') /\ ui'.sh = ui.sh
    BY <1>1, <2>1, <2>2, ConUI
  <2> QED
    BY <1>1, <2>1, <2>3, RingStutter DEF HmiInv, Edits, Stays, sh
<1>5. ASSUME NEW c \in Key, PaneKey(c) PROVE HmiInv' /\ Edits(sh, sh')
  <2>1. c \in PaneKeys /\ UNCHANGED ringVars
    BY <1>5 DEF PaneKey
  <2>2. PICK junk \in Junk : ui' = pane_draw(ui, NewGrid(c), junk)
    BY <1>5 DEF PaneKey
  <2>3. Grid(NewGrid(c))
    BY <1>1, <2>1, NewGridOK
  <2>4. UI(pane_draw(ui, NewGrid(c), junk)) /\ Edits(ui.sh, pane_draw(ui, NewGrid(c), junk).sh)
    BY <1>1, <2>3, DrawEdits
  <2> QED
    BY <1>1, <2>1, <2>2, <2>4, RingStutter DEF HmiInv, sh
<1>6. ASSUME NEW c \in Key, OrdinaryKey(c) PROVE HmiInv' /\ Edits(sh, sh')
  <2>1. Ring!StoreKey(c) /\ ui' = ui /\ got' = got
    BY <1>6 DEF OrdinaryKey
  <2> QED
    BY <1>1, <1>2, <2>1, RingStore DEF HmiInv
<1>7. ASSUME shell_task PROVE HmiInv' /\ Edits(sh, sh')
  <2>1. Ring!console_getc
    BY <1>7 DEF shell_task
  <2>2. Ring!TypeOK' /\ got' \in Key \cup {Backspace} \cup {NoChar}
    BY <1>1, <2>1, RingGet
  <2>3. CASE ui' = ui
    BY <1>2, <2>2, <2>3 DEF HmiInv
  <2>4. CASE got' # NoChar /\ \E junk \in Junk : ui' = HandleKey(ui, got', junk)
    <3>1. PICK junk \in Junk : ui' = HandleKey(ui, got', junk)
      BY <2>4
    <3>2. got' \in Key \cup {Backspace}
      BY <2>2, <2>4
    <3>3. UI(HandleKey(ui, got', junk)) /\ Edits(ui.sh, HandleKey(ui, got', junk).sh)
      BY <1>1, <3>2, HandleEdits
    <3> QED
      BY <2>2, <3>1, <3>3 DEF HmiInv, sh
  <2> QED
    BY <1>7, <2>3, <2>4 DEF shell_task
<1>8. ASSUME UNCHANGED vars PROVE HmiInv' /\ Edits(sh, sh')
  <2>1. ui' = ui /\ UNCHANGED ringVars
    BY <1>8 DEF vars
  <2> QED
    BY <1>1, <1>2, <2>1, RingStutter DEF HmiInv
<1> QED
  BY <1>3, <1>4, <1>5, <1>6, <1>7, <1>8 DEF Next, console_poll_input

(* Whatever is typed and however polls and reads interleave, the screen,   *)
(* the grid, the shell and the ring stay well-formed.                      *)
THEOREM HmiAlways == Spec => []HmiInv
<1>1. Init => HmiInv
  BY HmiStart
<1>2. HmiInv /\ [Next]_vars => HmiInv'
  BY HmiStep
<1> QED
  BY <1>1, <1>2, PTL DEF Spec

(* Every index of the shell, of the panes and of the ring stays in its     *)
(* array: cmd_pos in the line and the line in cmd_buf with its zero,       *)
(* history_nav among the commands kept, the active pane in the grid.       *)
THEOREM HmiTyped == Spec => []TypeOK
<1>1. HmiInv => TypeOK
  <2> SUFFICES ASSUME HmiInv PROVE TypeOK
    OBVIOUS
  <2>1. UI(ui) /\ Ring!TypeOK
    BY DEF HmiInv
  <2>2. ShellOK(sh) /\ sh \in Shells /\ Grid(ui.pane)
    BY <2>1, PartsUI DEF sh
  <2>3. /\ sh.cmd_len \in 0..(CMD_BUF_SIZE - 1) /\ sh.cmd_pos \in 0..sh.cmd_len
        /\ sh.history_count \in 0..HISTORY_LEN /\ sh.history_index \in 0..(HISTORY_LEN - 1)
        /\ sh.history_nav \in -1..(sh.history_count - 1)
    BY <2>2, ShellNumbers, BufSizes
  <2>4. sh.prompt_x \in Col /\ sh.prompt_y \in Row
    BY <2>2 DEF Shells
  <2>5. /\ ui.pane.grid_w \in 1..MAX_GRID /\ ui.pane.active_x \in 0..(ui.pane.grid_w - 1)
        /\ ui.pane.grid_h \in 1..MAX_GRID /\ ui.pane.active_y \in 0..(ui.pane.grid_h - 1)
    BY <2>2, WordSize DEF Grid, Grids
  <2> QED
    BY <2>1, <2>3, <2>4, <2>5 DEF TypeOK
<1> QED
  BY <1>1, HmiAlways, PTL

(* A step between two states of the shell is a step of LineEditor. *)
LEMMA EditorStep ==
  ASSUME Edits(sh, sh')
  PROVE  [Editor!Next]_(Editor!vars)
<1>1. Types(sh, sh') => Editor!Type
  BY DEF Types, Editor!Type, Before, After, Recent
<1>2. Erases(sh, sh') => Editor!Erase
  BY DEF Erases, Editor!Erase, Editor!Front, Before, After, Recent
<1>3. Lefts(sh, sh') => Editor!Left
  BY DEF Lefts, Editor!Left, Editor!Front, Editor!Last, Before, After, Recent
<1>4. Rights(sh, sh') => Editor!Right
  BY DEF Rights, Editor!Right, Before, After, Recent
<1>5. /\ Browses(sh, sh', sh.history_nav + 1 + 1) => Editor!Browse(sh.history_nav + 1 + 1)
      /\ Browses(sh, sh', (sh.history_nav + 1) - 1) => Editor!Browse((sh.history_nav + 1) - 1)
  BY DEF Browses, Editor!Browse, Before, After, Recent
<1>6. Enters(sh, sh') => Editor!Enter
  BY DEF Enters, Pushed, Editor!Enter, Editor!Front, Before, After, Recent
<1>7. Discards(sh, sh') => Editor!Discard
  BY DEF Discards, Editor!Discard, Before, After, Recent
<1>8. Stays(sh, sh') => UNCHANGED Editor!vars
  BY DEF Stays, Editor!vars, Before, After, Recent
<1>9. \/ Types(sh, sh') \/ Erases(sh, sh') \/ Lefts(sh, sh') \/ Rights(sh, sh')
      \/ Browses(sh, sh', sh.history_nav + 1 + 1) \/ Browses(sh, sh', (sh.history_nav + 1) - 1)
      \/ Enters(sh, sh') \/ Discards(sh, sh') \/ Stays(sh, sh')
  BY DEF Edits
<1>10. \/ Editor!Type \/ Editor!Erase \/ Editor!Left \/ Editor!Right
       \/ Editor!Browse(sh.history_nav + 1 + 1) \/ Editor!Browse((sh.history_nav + 1) - 1)
       \/ Editor!Enter \/ Editor!Discard \/ UNCHANGED Editor!vars
  BY <1>1, <1>2, <1>3, <1>4, <1>5, <1>6, <1>7, <1>8, <1>9
<1> QED
  BY <1>10 DEF Editor!Next

(* The shell is a line editor with a history, for buffers of every size:   *)
(* a key inserts, erases or moves at the cursor and nowhere else, a full   *)
(* buffer takes no more, Up and Down bring back the latest HISTORY_LEN     *)
(* commands in order wherever the ring's index wraps, and a redraw of the  *)
(* panes loses the line but never a command.                               *)
THEOREM HmiImplementsEditor == Spec => ImplementsEditor
<1>1. Init => Editor!Init
  BY HmiStart DEF Editor!Init, Before, After, Recent
<1>2. HmiInv /\ [Next]_vars => [Editor!Next]_(Editor!vars)
  BY HmiStep, EditorStep
<1> QED
  BY <1>1, <1>2, HmiAlways, PTL DEF Spec, ImplementsEditor, Editor!Spec
=============================================================================
