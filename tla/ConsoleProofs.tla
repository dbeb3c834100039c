---------------------------- MODULE ConsoleProofs ---------------------------
(***************************************************************************)
(* Proofs about the console: for every size of the screen and of the       *)
(* scrollback it is a roll of paper seen through a window.                 *)
(***************************************************************************)
EXTENDS ConsoleCalls, SelectionProofs

Slot == 0..(SCROLLBACK_LINES - 1)

Con ==
  [screen : [Row -> Line], vga : [Row -> Line], scrollback : [Slot -> Line \cup {GarbageLine}],
   sb_start : Slot, sb_count : 0..SCROLLBACK_LINES, sb_view : 0..SCROLLBACK_LINES,
   cursor_x : Col, cursor_y : Row, hw : Int]

(* The lines that the ring has stored were on the screen. *)
Kept(c) == \A i \in 0..(c.sb_count - 1) : Stored(c, i) \in Line

InSync(c) == c.hw = c.cursor_y * VGA_COLS + c.cursor_x

(* The live view, before and after the cursor is sent to the hardware. *)
Live(c) == c \in Con /\ Kept(c) /\ c.sb_view = 0 /\ c.vga = c.screen

(* What the VGA buffer should show. *)
View(c) ==
  [row \in Row |-> IF row < c.sb_view THEN Stored(c, c.sb_count - c.sb_view + row)
                                      ELSE c.screen[row - c.sb_view]]

Good(c) == c \in Con /\ Kept(c) /\ c.sb_view <= c.sb_count /\ c.vga = View(c) /\ InSync(c)

SameHistory(c, d) ==
  d.scrollback = c.scrollback /\ d.sb_start = c.sb_start /\ d.sb_count = c.sb_count

SameCursor(c, d) == d.cursor_x = c.cursor_x /\ d.cursor_y = c.cursor_y
-----------------------------------------------------------------------------
LEMMA Sizes ==
  /\ VGA_COLS \in Nat /\ VGA_COLS >= 2 /\ VGA_ROWS \in Nat /\ VGA_ROWS >= 3
  /\ SCROLLBACK_LINES \in Nat \ {0}
  BY ConsoleAssumption

LEMMA BlankLineFacts == Blank \in Cell /\ BlankLine \in Line
  BY DEF Cell, Line, BlankLine

(* Whatever fields change, lines stored in the same ring are the same. *)
LEMMA SameStored ==
  ASSUME NEW c, NEW d, SameHistory(c, d), Kept(c)
  PROVE  Kept(d) /\ \A i : Stored(d, i) = Stored(c, i)
  BY DEF SameHistory, Kept, Stored

LEMMA CursorFacts ==
  ASSUME NEW c \in Con
  PROVE  LET d == update_cursor(c)
         IN  /\ d \in Con /\ InSync(d) /\ SameHistory(c, d) /\ SameCursor(c, d)
             /\ d.screen = c.screen /\ d.vga = c.vga /\ d.sb_view = c.sb_view
<1> DEFINE d == update_cursor(c)
           h == c.cursor_y * VGA_COLS + c.cursor_x
<1>1. h \in Int
  BY Sizes DEF Con, Row, Col
<1>2. d = [c EXCEPT !.hw = h]
  BY DEF update_cursor
<1> HIDE DEF h, d
<1>3. d \in Con
  BY <1>1, <1>2 DEF Con
<1>4. /\ d.hw = h /\ d.scrollback = c.scrollback /\ d.sb_start = c.sb_start /\ d.sb_count = c.sb_count
      /\ d.cursor_x = c.cursor_x /\ d.cursor_y = c.cursor_y
      /\ d.screen = c.screen /\ d.vga = c.vga /\ d.sb_view = c.sb_view
  BY <1>2 DEF Con
<1> QED
  BY <1>3, <1>4 DEF InSync, SameHistory, SameCursor, d, h

(* render_view draws the right window, and changes nothing else. *)
LEMMA RenderFacts ==
  ASSUME NEW c \in Con, Kept(c), c.sb_view <= c.sb_count
  PROVE  LET d == render_view(c)
         IN  /\ Good(d) /\ SameHistory(c, d) /\ SameCursor(c, d)
             /\ d.screen = c.screen /\ d.sb_view = c.sb_view
<1> DEFINE v == c.sb_view
           n == c.sb_count
           Shown(row) ==
             IF n - v + row < n THEN Stored(c, n - v + row)
             ELSE IF n - v + row - n < VGA_ROWS THEN c.screen[n - v + row - n] ELSE BlankLine
           e == [c EXCEPT !.sb_view = v, !.vga = [row \in Row |-> Shown(row)]]
<1>1. v \in Nat /\ n \in Nat /\ v <= n
  BY Sizes DEF Con
<1>2. render_view(c) = update_cursor(e)
  <2>1. (IF c.sb_view > c.sb_count THEN c.sb_count ELSE c.sb_view) = v
    BY <1>1
  <2>2. render_view(c) =
          update_cursor([c EXCEPT
            !.sb_view = IF c.sb_view > c.sb_count THEN c.sb_count ELSE c.sb_view,
            !.vga = [row \in Row |->
              LET first == c.sb_count - (IF c.sb_view > c.sb_count THEN c.sb_count ELSE c.sb_view)
              IN  IF first + row < c.sb_count THEN Stored(c, first + row)
                  ELSE IF first + row - c.sb_count < VGA_ROWS
                       THEN c.screen[first + row - c.sb_count] ELSE BlankLine]])
    BY Zenon DEF render_view
  <2> QED
    BY <2>1, <2>2, Zenon
<1>3. \A row \in Row : Shown(row) = View(c)[row]
  <2> SUFFICES ASSUME NEW row \in Row PROVE Shown(row) = View(c)[row]
    OBVIOUS
  <2>1. row \in Nat /\ row < VGA_ROWS
    BY Sizes DEF Row
  <2>2. CASE row < v
    BY <1>1, <2>1, <2>2 DEF View
  <2>3. CASE ~(row < v)
    <3>1. ~(n - v + row < n) /\ n - v + row - n < VGA_ROWS /\ n - v + row - n = row - v
      BY <1>1, <2>1, <2>3, Sizes
    <3> QED
      BY <2>3, <3>1 DEF View
  <2> QED
    BY <2>2, <2>3
<1>4. [row \in Row |-> Shown(row)] = View(c)
  BY <1>3 DEF View
<1>5. View(c) \in [Row -> Line]
  <2> SUFFICES ASSUME NEW row \in Row PROVE View(c)[row] \in Line
    BY DEF View
  <2>1. row \in Nat /\ row < VGA_ROWS
    BY Sizes DEF Row
  <2>2. CASE row < v
    <3>1. n - v + row \in 0..(n - 1)
      BY <1>1, <2>1, <2>2
    <3> QED
      BY <2>2, <3>1 DEF View, Kept
  <2>3. CASE ~(row < v)
    <3>1. row - v \in Row
      BY <1>1, <2>1, <2>3, Sizes DEF Row
    <3> QED
      BY <2>3, <3>1 DEF View, Con
  <2> QED
    BY <2>2, <2>3
<1>6. e = [c EXCEPT !.vga = View(c)]
  BY <1>4 DEF Con
<1> HIDE DEF e, v, n
<1>7. /\ e \in Con /\ e.vga = View(c) /\ e.screen = c.screen /\ e.sb_view = c.sb_view
      /\ SameHistory(c, e) /\ SameCursor(c, e)
  BY <1>5, <1>6 DEF Con, SameHistory, SameCursor
<1> DEFINE d == update_cursor(e)
<1>8. /\ d \in Con /\ InSync(d) /\ SameHistory(e, d) /\ SameCursor(e, d)
      /\ d.screen = e.screen /\ d.vga = e.vga /\ d.sb_view = e.sb_view
  BY <1>7, CursorFacts
<1> HIDE DEF d
<1>9. SameHistory(c, d) /\ SameCursor(c, d) /\ d.screen = c.screen /\ d.sb_view = c.sb_view
  BY <1>7, <1>8 DEF SameHistory, SameCursor
<1>10. View(d) = View(c) /\ Kept(d)
  BY <1>9, SameStored DEF View, SameHistory
<1>11. Good(d)
  BY <1>7, <1>8, <1>9, <1>10 DEF Good, SameHistory
<1> QED
  BY <1>2, <1>9, <1>11 DEF d

(* A console that is about to print. *)
Ready(c) == c \in Con /\ Kept(c) /\ (c.sb_view = 0 => c.vga = c.screen)

LEMMA BottomFacts ==
  ASSUME NEW c, Ready(c)
  PROVE  LET d == ensure_bottom(c)
         IN  Live(d) /\ SameHistory(c, d) /\ SameCursor(c, d) /\ d.screen = c.screen
<1>1. CASE c.sb_view = 0
  BY <1>1 DEF ensure_bottom, Ready, Live, SameHistory, SameCursor
<1>2. CASE c.sb_view # 0
  <2> DEFINE e == [c EXCEPT !.sb_view = 0]
  <2>1. e \in Con /\ e.sb_view = 0 /\ SameHistory(c, e) /\ SameCursor(c, e) /\ e.screen = c.screen
    BY Sizes DEF Ready, Con, SameHistory, SameCursor
  <2>2. ensure_bottom(c) = render_view(e)
    BY <1>2 DEF ensure_bottom
  <2> HIDE DEF e
  <2>3. Kept(e) /\ e.sb_view <= e.sb_count
    BY <2>1, SameStored DEF Ready, Con
  <2> DEFINE d == render_view(e)
  <2>4. Good(d) /\ SameHistory(e, d) /\ SameCursor(e, d) /\ d.screen = e.screen /\ d.sb_view = e.sb_view
    BY <2>1, <2>3, RenderFacts
  <2> HIDE DEF d
  <2>5. View(d) = d.screen
    <3>1. d \in Con /\ d.sb_view = 0
      BY <2>1, <2>4 DEF Good
    <3>2. \A row \in Row : row \in Nat /\ ~(row < 0) /\ row - 0 = row
      BY Sizes DEF Row
    <3>3. View(d) = [row \in Row |-> d.screen[row]]
      BY <3>1, <3>2 DEF View
    <3> QED
      BY <3>1, <3>3 DEF Con
  <2>6. Live(d)
    BY <2>1, <2>4, <2>5 DEF Good, Live
  <2> QED
    BY <2>1, <2>2, <2>4, <2>6 DEF SameHistory, SameCursor, d
<1> QED
  BY <1>1, <1>2

(* A cell that is drawn changes one row. *)
LEMMA SetCellFacts ==
  ASSUME NEW c, Live(c), NEW x \in Col, NEW y \in Row, NEW cell \in Cell
  PROVE  LET d == SetCell(c, x, y, cell)
         IN  /\ Live(d) /\ SameHistory(c, d) /\ SameCursor(c, d)
             /\ \A r \in Row : r # y => d.screen[r] = c.screen[r]
<1> DEFINE new == [c.screen EXCEPT ![y][x] = cell]
           d == SetCell(c, x, y, cell)
<1>1. c \in Con /\ c.sb_view = 0 /\ c.vga = c.screen /\ Kept(c)
  BY DEF Live
<1>2. c.screen \in [Row -> Line]
  BY <1>1 DEF Con
<1>3. new \in [Row -> Line] /\ \A r \in Row : r # y => new[r] = c.screen[r]
  BY <1>2 DEF Line
<1>4. d = [[c EXCEPT !.screen = new] EXCEPT !.vga = new]
  BY <1>1 DEF SetCell, Con
<1> HIDE DEF new, d
<1>5. d \in Con /\ SameHistory(c, d) /\ SameCursor(c, d) /\ d.screen = new /\ d.vga = new /\ d.sb_view = 0
  BY <1>1, <1>3, <1>4 DEF Con, SameHistory, SameCursor
<1> QED
  BY <1>1, <1>3, <1>5, SameStored DEF Live, d
-----------------------------------------------------------------------------
(* The scrollback ring.                                                    *)

LEMMA SlotFacts ==
  ASSUME NEW a \in Slot, NEW i \in 0..SCROLLBACK_LINES
  PROVE  /\ (a + i) % SCROLLBACK_LINES =
              IF a + i < SCROLLBACK_LINES THEN a + i ELSE a + i - SCROLLBACK_LINES
         /\ (a + i) % SCROLLBACK_LINES \in Slot
<1> DEFINE N == SCROLLBACK_LINES
<1>1. N \in Nat \ {0} /\ a \in 0..(N - 1) /\ i \in 0..N
  BY Sizes DEF Slot
<1> HIDE DEF N
<1>2. CASE a + i < N
  <2>1. (a + i) % N = a + i
    BY <1>1, <1>2
  <2> QED
    BY <1>1, <1>2, <2>1 DEF N, Slot
<1>3. CASE ~(a + i < N)
  <2>1. (a + i) % N = a + i - N
    BY <1>1, <1>3
  <2> QED
    BY <1>1, <1>3, <2>1 DEF N, Slot
<1> QED
  BY <1>2, <1>3

(* d has stored one more line than c; the oldest left if there was no room. *)
Extends(c, d, line) ==
  /\ Stored(d, d.sb_count - 1) = line
  /\ \/ /\ c.sb_count < SCROLLBACK_LINES
        /\ d.sb_count = c.sb_count + 1
        /\ \A i \in 0..(c.sb_count - 1) : Stored(d, i) = Stored(c, i)
     \/ /\ c.sb_count = SCROLLBACK_LINES
        /\ d.sb_count = SCROLLBACK_LINES
        /\ \A i \in 0..(c.sb_count - 2) : Stored(d, i) = Stored(c, i + 1)

LEMMA PushFacts ==
  ASSUME NEW c \in Con, Kept(c), NEW line \in Line
  PROVE  LET d == scrollback_push(c, line)
         IN  /\ d \in Con /\ Kept(d) /\ Extends(c, d, line) /\ SameCursor(c, d)
             /\ d.screen = c.screen /\ d.vga = c.vga /\ d.sb_view = c.sb_view
<1> DEFINE N == SCROLLBACK_LINES
           n == c.sb_count
           a == c.sb_start
           idx == (a + n) % N
           d == scrollback_push(c, line)
<1>1. N \in Nat \ {0} /\ n \in 0..N /\ a \in Slot /\ c.scrollback \in [Slot -> Line \cup {GarbageLine}]
  BY Sizes DEF Con
<1>2. idx = (IF a + n < N THEN a + n ELSE a + n - N) /\ idx \in Slot
  BY <1>1, SlotFacts
<1>3. a \in Nat /\ a < N
  BY <1>1 DEF Slot
<1> HIDE DEF N, n, a, idx
<1>4. CASE n < N
  <2>1. d = [[[c EXCEPT !.scrollback = [c.scrollback EXCEPT ![idx] = line]]
                EXCEPT !.sb_count = n + 1] EXCEPT !.sb_start = a]
    <3>1. ~(c.sb_count = SCROLLBACK_LINES)
      BY <1>1, <1>4 DEF n, N
    <3> QED
      BY <3>1 DEF scrollback_push, Con, N, n, a, idx
  <2> HIDE DEF d
  <2>2. n + 1 \in 0..N /\ [c.scrollback EXCEPT ![idx] = line] \in [Slot -> Line \cup {GarbageLine}]
    BY <1>1, <1>2, <1>4
  <2>3. /\ d \in Con /\ SameCursor(c, d) /\ d.screen = c.screen /\ d.vga = c.vga /\ d.sb_view = c.sb_view
        /\ d.sb_start = a /\ d.sb_count = n + 1 /\ d.scrollback = [c.scrollback EXCEPT ![idx] = line]
    BY <2>1, <2>2 DEF Con, SameCursor, N, a
  <2>4. Stored(d, n) = line
    BY <1>1, <1>2, <2>3 DEF Stored, idx, N
  <2>5. ASSUME NEW i \in 0..(n - 1) PROVE Stored(d, i) = Stored(c, i)
    <3>1. i \in 0..N /\ i \in Nat /\ i < n /\ n \in Nat
      BY <1>1
    <3>2. (a + i) % N = (IF a + i < N THEN a + i ELSE a + i - N) /\ (a + i) % N \in Slot
      BY <1>1, <3>1, SlotFacts DEF N
    <3>3. (a + i) % N # idx
      BY <1>1, <1>2, <1>3, <1>4, <3>1, <3>2
    <3> QED
      BY <1>1, <2>3, <3>2, <3>3 DEF Stored, N, a
  <2>6. d.sb_count - 1 = n /\ d.sb_count - 1 \in 0..n /\ \A i \in 0..(d.sb_count - 1) : i = n \/ i \in 0..(n - 1)
    BY <1>1, <2>3
  <2>7. Kept(d)
    BY <2>4, <2>5, <2>6 DEF Kept, n
  <2>8. Extends(c, d, line)
    BY <1>4, <2>3, <2>4, <2>5, <2>6 DEF Extends, n, N
  <2> QED
    BY <2>3, <2>7, <2>8 DEF d
<1>5. CASE n = N
  <2>1. d = [[[c EXCEPT !.scrollback = [c.scrollback EXCEPT ![idx] = line]]
                EXCEPT !.sb_start = (a + 1) % N] EXCEPT !.sb_count = n]
    BY <1>1, <1>5 DEF scrollback_push, Con, N, n, a, idx
  <2> HIDE DEF d
  <2>2. 1 \in 0..N /\ (a + 1) % N = (IF a + 1 < N THEN a + 1 ELSE a + 1 - N) /\ (a + 1) % N \in Slot
    BY <1>1, SlotFacts DEF N
  <2>3. n \in 0..N /\ [c.scrollback EXCEPT ![idx] = line] \in [Slot -> Line \cup {GarbageLine}]
    BY <1>1, <1>2
  <2>4. /\ d \in Con /\ SameCursor(c, d) /\ d.screen = c.screen /\ d.vga = c.vga /\ d.sb_view = c.sb_view
        /\ d.sb_start = (a + 1) % N /\ d.sb_count = n
        /\ d.scrollback = [c.scrollback EXCEPT ![idx] = line]
    BY <2>1, <2>2, <2>3 DEF Con, SameCursor, N
  <2> DEFINE b == (a + 1) % N
  <2> HIDE DEF b
  <2>5. b = (IF a + 1 < N THEN a + 1 ELSE a + 1 - N) /\ b \in Slot /\ b \in Nat /\ d.sb_start = b
    BY <1>1, <1>3, <2>2, <2>4 DEF b
  <2>6. ASSUME NEW i \in 0..(N - 1)
        PROVE  (b + i) % N = (IF b + i < N THEN b + i ELSE b + i - N) /\ (b + i) % N \in Slot
    <3>1. i \in 0..N
      BY <1>1
    <3> QED
      BY <2>5, <3>1, SlotFacts DEF N
  <2>7. Stored(d, n - 1) = line
    <3>1. n - 1 \in 0..(N - 1)
      BY <1>1, <1>5
    <3>2. (b + (n - 1)) % N = idx
      BY <1>1, <1>2, <1>3, <1>5, <2>5, <2>6, <3>1
    <3> QED
      BY <1>1, <1>2, <2>4, <2>5, <3>2 DEF Stored, N
  <2>8. ASSUME NEW i \in 0..(n - 2) PROVE Stored(d, i) = Stored(c, i + 1)
    <3>1. i \in 0..(N - 1) /\ i \in Nat /\ i + 1 < N /\ i + 1 \in 0..N
      BY <1>1, <1>5
    <3>2. /\ (a + (i + 1)) % N = (IF a + (i + 1) < N THEN a + (i + 1) ELSE a + (i + 1) - N)
          /\ (a + (i + 1)) % N \in Slot
      BY <1>1, <3>1, SlotFacts DEF N
    <3>3. (b + i) % N = (IF b + i < N THEN b + i ELSE b + i - N)
      BY <2>6, <3>1
    <3>4. (b + i) % N = (a + (i + 1)) % N
      BY <1>1, <1>3, <2>5, <3>1, <3>2, <3>3
    <3>5. (b + i) % N # idx
      BY <1>1, <1>2, <1>3, <1>5, <3>1, <3>2, <3>4
    <3> QED
      BY <1>1, <2>4, <2>5, <3>2, <3>4, <3>5 DEF Stored, N, a
  <2>9. \A i \in 0..(n - 1) : i = n - 1 \/ (i \in 0..(n - 2) /\ i + 1 \in 0..(n - 1))
    BY <1>1
  <2>10. Kept(d)
    BY <2>4, <2>7, <2>8, <2>9 DEF Kept, n
  <2>11. Extends(c, d, line)
    BY <1>5, <2>4, <2>7, <2>8 DEF Extends, n, N
  <2> QED
    BY <2>4, <2>10, <2>11 DEF d
<1> QED
  BY <1>1, <1>4, <1>5
-----------------------------------------------------------------------------
(* Printing.                                                               *)

(* d is c after its top line left the screen. *)
Scrolled(c, d) ==
  /\ Extends(c, d, c.screen[0])
  /\ \A y \in Row : y < VGA_ROWS - 1 => d.screen[y] = c.screen[y + 1]
  /\ d.screen[VGA_ROWS - 1] = BlankLine

LEMMA ScrollFacts ==
  ASSUME NEW c, Live(c)
  PROVE  LET d == scroll_screen(c)
         IN  Live(d) /\ Scrolled(c, d) /\ SameCursor(c, d)
<1> DEFINE p == scrollback_push(c, c.screen[0])
           new == [y \in Row |-> IF y < VGA_ROWS - 1 THEN c.screen[y + 1] ELSE BlankLine]
           d == scroll_screen(c)
<1>1. c \in Con /\ Kept(c) /\ c.sb_view = 0 /\ c.screen \in [Row -> Line]
  BY DEF Live, Con
<1>2. 0 \in Row /\ VGA_ROWS - 1 \in Row /\ ~(VGA_ROWS - 1 < VGA_ROWS - 1)
  BY Sizes DEF Row
<1>3. \A y \in Row : y < VGA_ROWS - 1 => y + 1 \in Row
  BY Sizes DEF Row
<1>4. new \in [Row -> Line]
  BY <1>1, <1>3, BlankLineFacts
<1>5. /\ p \in Con /\ Kept(p) /\ Extends(c, p, c.screen[0]) /\ SameCursor(c, p) /\ p.sb_view = 0
  BY <1>1, <1>2, PushFacts
<1>6. /\ \A y \in Row : y < VGA_ROWS - 1 => new[y] = c.screen[y + 1]
      /\ new[VGA_ROWS - 1] = BlankLine
  BY <1>2
<1>7. d = Show([p EXCEPT !.screen = new])
  BY DEF scroll_screen
<1> HIDE DEF p, new, d
<1>8. d = [[p EXCEPT !.screen = new] EXCEPT !.vga = new]
  BY <1>5, <1>7 DEF Show, Con
<1>9. /\ d \in Con /\ d.screen = new /\ d.vga = new /\ d.sb_view = 0
      /\ SameHistory(p, d) /\ SameCursor(p, d)
  BY <1>4, <1>5, <1>8 DEF Con, SameHistory, SameCursor
<1>10. Kept(d) /\ \A i : Stored(d, i) = Stored(p, i)
  BY <1>5, <1>9, SameStored
<1>11. Extends(c, d, c.screen[0])
  BY <1>5, <1>9, <1>10 DEF Extends, SameHistory
<1> QED
  BY <1>5, <1>6, <1>9, <1>10, <1>11 DEF Live, Scrolled, SameCursor, d

MovedTo(c, x, y) == [c EXCEPT !.cursor_x = x, !.cursor_y = y]

LEMMA NewCursor ==
  ASSUME NEW c, Live(c), NEW x \in Col, NEW y \in Row
  PROVE  LET d == MovedTo(c, x, y)
         IN  /\ Live(d) /\ SameHistory(c, d) /\ d.screen = c.screen
             /\ d.cursor_x = x /\ d.cursor_y = y
<1> DEFINE d == MovedTo(c, x, y)
<1>1. c \in Con /\ Kept(c) /\ c.sb_view = 0 /\ c.vga = c.screen
  BY DEF Live
<1>2. /\ d \in Con /\ SameHistory(c, d) /\ d.screen = c.screen /\ d.vga = c.vga
      /\ d.sb_view = c.sb_view /\ d.cursor_x = x /\ d.cursor_y = y
  BY <1>1 DEF Con, SameHistory, MovedTo
<1> HIDE DEF d
<1>3. Live(d)
  BY <1>1, <1>2, SameStored DEF Live
<1> QED
  BY <1>2, <1>3 DEF d

(* d is c, or c scrolled, with the screen and the cursor changed as the    *)
(* printing of one character may.                                          *)
Printed(c, d) ==
  \/ SameHistory(c, d)
  \/ /\ Extends(c, d, c.screen[0])
     /\ \A y \in Row : y < VGA_ROWS - 2 => d.screen[y] = c.screen[y + 1]
     /\ d.screen[VGA_ROWS - 1] = BlankLine

LEMMA NextLineFacts ==
  ASSUME NEW c, Live(c)
  PROVE  LET d == NextLine(c)
         IN  /\ Live(d)
             /\ \/ SameHistory(c, d) /\ c.cursor_y + 1 < VGA_ROWS
                \/ Scrolled(c, d) /\ c.cursor_y = VGA_ROWS - 1
<1>1. c.cursor_x \in Col /\ c.cursor_y \in Row /\ c \in Con
  BY DEF Live, Con
<1>2. 0 \in Col /\ VGA_ROWS - 1 \in Row
  BY Sizes DEF Col, Row
<1>3. CASE c.cursor_y + 1 >= VGA_ROWS
  <2> DEFINE e == scroll_screen(c)
             d == MovedTo(e, 0, VGA_ROWS - 1)
  <2>1. Live(e) /\ Scrolled(c, e)
    BY ScrollFacts
  <2>2. NextLine(c) = d
    BY <1>3 DEF NextLine, MovedTo
  <2> HIDE DEF e
  <2>3. Live(d) /\ SameHistory(e, d) /\ d.screen = e.screen
    BY <1>2, <2>1, NewCursor
  <2> HIDE DEF d
  <2>4. Kept(e) /\ \A i : Stored(d, i) = Stored(e, i)
    BY <2>1, <2>3, SameStored DEF Live
  <2>5. Scrolled(c, d)
    BY <2>1, <2>3, <2>4 DEF Scrolled, Extends, SameHistory
  <2>6. c.cursor_y = VGA_ROWS - 1
    BY <1>1, <1>3, Sizes DEF Row
  <2> QED
    BY <2>2, <2>3, <2>5, <2>6
<1>4. CASE ~(c.cursor_y + 1 >= VGA_ROWS)
  <2>1. c.cursor_y + 1 \in Row /\ c.cursor_y + 1 < VGA_ROWS
    BY <1>1, <1>4, Sizes DEF Row
  <2>2. NextLine(c) = MovedTo(c, 0, c.cursor_y + 1)
    BY <1>1, <1>4 DEF NextLine, Con, MovedTo
  <2> QED
    BY <1>2, <2>1, <2>2, NewCursor
<1> QED
  BY <1>3, <1>4

LEMMA StepBackFacts ==
  ASSUME NEW c, Live(c)
  PROVE  LET d == StepBack(c)
         IN  Live(d) /\ SameHistory(c, d)
<1>1. c.cursor_x \in Col /\ c.cursor_y \in Row /\ c \in Con
  BY DEF Live, Con
<1>2. c.cursor_x \in Nat /\ c.cursor_y \in Nat
  BY <1>1, Sizes DEF Col, Row
<1>3. CASE c.cursor_x > 0
  <2>1. StepBack(c) = MovedTo(c, c.cursor_x - 1, c.cursor_y)
    <3>1. ~(c.cursor_x = 0)
      BY <1>2, <1>3
    <3> QED
      BY <1>1, <1>3, <3>1 DEF StepBack, Con, MovedTo
  <2>2. c.cursor_x - 1 \in Col
    BY <1>1, <1>3, Sizes DEF Col
  <2> QED
    BY <1>1, <2>1, <2>2, NewCursor
<1>4. CASE c.cursor_x = 0 /\ c.cursor_y > 0
  <2>1. StepBack(c) = MovedTo(c, VGA_COLS - 1, c.cursor_y - 1)
    <3>1. ~(c.cursor_x > 0)
      BY <1>4
    <3> QED
      BY <1>1, <1>4, <3>1 DEF StepBack, Con, MovedTo
  <2>2. VGA_COLS - 1 \in Col /\ c.cursor_y - 1 \in Row
    BY <1>1, <1>4, Sizes DEF Col, Row
  <2> QED
    BY <2>1, <2>2, NewCursor
<1>5. CASE ~(c.cursor_x > 0) /\ ~(c.cursor_x = 0 /\ c.cursor_y > 0)
  <2>1. StepBack(c) = c
    BY <1>5 DEF StepBack
  <2> QED
    BY <2>1 DEF SameHistory
<1> QED
  BY <1>3, <1>4, <1>5

LEMMA PutGlyphFacts ==
  ASSUME NEW c, Live(c), NEW ch, CharCell(ch) \in Cell
  PROVE  LET d == PutGlyph(c, ch)
         IN  /\ Live(d) /\ Printed(c, d)
             /\ c.cursor_x + 1 < VGA_COLS =>
                  SameHistory(c, d) /\ d.cursor_x = c.cursor_x + 1 /\ d.cursor_y = c.cursor_y
<1> DEFINE e == SetCell(c, c.cursor_x, c.cursor_y, CharCell(ch))
           d == PutGlyph(c, ch)
<1>1. c.cursor_x \in Col /\ c.cursor_y \in Row /\ c \in Con
  BY DEF Live, Con
<1>2. /\ Live(e) /\ SameHistory(c, e) /\ SameCursor(c, e)
      /\ \A r \in Row : r # c.cursor_y => e.screen[r] = c.screen[r]
  BY <1>1, SetCellFacts
<1>3. d = IF c.cursor_x + 1 >= VGA_COLS THEN NextLine(e) ELSE [e EXCEPT !.cursor_x = @ + 1]
  BY DEF PutGlyph
<1> HIDE DEF e, d
<1>4. CASE c.cursor_x + 1 >= VGA_COLS
  <2>1. d = NextLine(e) /\ ~(c.cursor_x + 1 < VGA_COLS)
    BY <1>1, <1>3, <1>4, Sizes DEF Col
  <2>2. /\ Live(d)
        /\ \/ SameHistory(e, d)
           \/ Scrolled(e, d) /\ e.cursor_y = VGA_ROWS - 1
    BY <1>2, <2>1, NextLineFacts
  <2>3. CASE SameHistory(e, d)
    BY <1>2, <2>1, <2>2, <2>3 DEF SameHistory, Printed, d
  <2>4. CASE Scrolled(e, d) /\ e.cursor_y = VGA_ROWS - 1
    <3>1. c.cursor_y = VGA_ROWS - 1
      BY <1>2, <2>4 DEF SameCursor
    <3>2. 0 \in Row /\ 0 # c.cursor_y
      BY <3>1, Sizes DEF Row
    <3>3. e.screen[0] = c.screen[0]
      BY <1>2, <3>2
    <3>4. Kept(c) /\ \A i : Stored(e, i) = Stored(c, i)
      BY <1>2, SameStored DEF Live
    <3>5. Extends(c, d, c.screen[0])
      BY <1>2, <2>4, <3>3, <3>4 DEF Scrolled, Extends, SameHistory
    <3>6. \A y \in Row : y < VGA_ROWS - 2 => d.screen[y] = c.screen[y + 1]
      <4> SUFFICES ASSUME NEW y \in Row, y < VGA_ROWS - 2 PROVE d.screen[y] = c.screen[y + 1]
        OBVIOUS
      <4>1. y < VGA_ROWS - 1 /\ y + 1 \in Row /\ y + 1 # c.cursor_y
        BY <3>1, Sizes DEF Row
      <4> QED
        BY <1>2, <2>4, <4>1 DEF Scrolled
    <3>7. Printed(c, d)
      BY <2>4, <3>5, <3>6 DEF Printed, Scrolled
    <3> QED
      BY <2>1, <2>2, <3>7 DEF d
  <2> QED
    BY <2>2, <2>3, <2>4
<1>5. CASE ~(c.cursor_x + 1 >= VGA_COLS)
  <2>1. c.cursor_x + 1 \in Col
    BY <1>1, <1>5, Sizes DEF Col
  <2>2. d = MovedTo(e, c.cursor_x + 1, c.cursor_y)
    BY <1>2, <1>3, <1>5 DEF SameCursor, Live, Con, MovedTo
  <2>3. Live(d) /\ SameHistory(e, d) /\ d.cursor_x = c.cursor_x + 1 /\ d.cursor_y = c.cursor_y
    BY <1>1, <1>2, <2>1, <2>2, NewCursor
  <2> QED
    BY <1>2, <2>3 DEF SameHistory, Printed, d
<1> QED
  BY <1>4, <1>5

Inside(c) == c.cursor_x + 1 < VGA_COLS

LEMMA PutLiveFacts ==
  ASSUME NEW c, Live(c), NEW ch, ch \in {Newline, Backspace} \/ CharCell(ch) \in Cell
  PROVE  LET d == PutLive(c, ch)
         IN  /\ Live(d) /\ InSync(d) /\ Printed(c, d)
             /\ ch \notin {Newline, Backspace} /\ Inside(c) =>
                  SameHistory(c, d) /\ d.cursor_x = c.cursor_x + 1 /\ d.cursor_y = c.cursor_y
<1> DEFINE e == CASE ch = Newline   -> NextLine(c)
                  [] ch = Backspace -> EraseAt(StepBack(c))
                  [] OTHER          -> PutGlyph(c, ch)
<1>1. Newline # Backspace
  BY DEF Newline, Backspace
<1>2. /\ Live(e) /\ Printed(c, e)
      /\ ch \notin {Newline, Backspace} /\ Inside(c) =>
           SameHistory(c, e) /\ e.cursor_x = c.cursor_x + 1 /\ e.cursor_y = c.cursor_y
  <2>1. CASE ch = Newline
    <3>1. e = NextLine(c)
      BY <1>1, <2>1
    <3> HIDE DEF e
    <3>2. Live(e) /\ (SameHistory(c, e) \/ Scrolled(c, e))
      BY <3>1, NextLineFacts
    <3>3. \A y \in Row : y < VGA_ROWS - 2 => y < VGA_ROWS - 1
      BY Sizes DEF Row
    <3>4. Printed(c, e)
      BY <3>2, <3>3 DEF Printed, Scrolled
    <3> QED
      BY <2>1, <3>2, <3>4
  <2>2. CASE ch = Backspace
    <3> DEFINE b == StepBack(c)
    <3>1. e = EraseAt(b)
      BY <1>1, <2>2
    <3>2. Live(b) /\ SameHistory(c, b)
      BY StepBackFacts
    <3> HIDE DEF e, b
    <3>3. b.cursor_x \in Col /\ b.cursor_y \in Row
      BY <3>2 DEF Live, Con
    <3>4. Live(e) /\ SameHistory(b, e)
      BY <3>1, <3>2, <3>3, SetCellFacts, BlankLineFacts DEF EraseAt
    <3>5. Printed(c, e)
      BY <3>2, <3>4 DEF Printed, SameHistory
    <3> QED
      BY <2>2, <3>4, <3>5
  <2>3. CASE ch \notin {Newline, Backspace}
    <3>1. e = PutGlyph(c, ch)
      BY <2>3
    <3> HIDE DEF e
    <3> QED
      BY <2>3, <3>1, PutGlyphFacts DEF Inside
  <2> QED
    BY <2>1, <2>2, <2>3
<1>3. PutLive(c, ch) = IF e.sb_view = 0 THEN update_cursor(e) ELSE e
  BY DEF PutLive
<1> HIDE DEF e
<1> DEFINE d == update_cursor(e)
<1>4. PutLive(c, ch) = d
  BY <1>2, <1>3 DEF Live
<1>5. /\ d \in Con /\ InSync(d) /\ SameHistory(e, d) /\ SameCursor(e, d)
      /\ d.screen = e.screen /\ d.vga = e.vga /\ d.sb_view = e.sb_view
  BY <1>2, CursorFacts DEF Live
<1> HIDE DEF d
<1>6. Kept(d) /\ \A i : Stored(d, i) = Stored(e, i)
  BY <1>2, <1>5, SameStored DEF Live
<1>7. Live(d)
  BY <1>2, <1>5, <1>6 DEF Live
<1>8. Printed(c, d)
  BY <1>2, <1>5, <1>6 DEF Printed, Extends, SameHistory
<1>9. ch \notin {Newline, Backspace} /\ Inside(c) =>
        SameHistory(c, d) /\ d.cursor_x = c.cursor_x + 1 /\ d.cursor_y = c.cursor_y
  BY <1>2, <1>5 DEF SameHistory, SameCursor
<1> QED
  BY <1>4, <1>5, <1>7, <1>8, <1>9

LEMMA PutcIs == \A c, ch : console_putc(c, ch) = PutLive(ensure_bottom(c), ch)
  BY DEF console_putc, Then

LEMMA PutcFacts ==
  ASSUME NEW c, Ready(c), NEW ch, ch \in {Newline, Backspace} \/ CharCell(ch) \in Cell
  PROVE  LET d == console_putc(c, ch)
         IN  /\ Live(d) /\ InSync(d) /\ Printed(c, d)
             /\ ch \notin {Newline, Backspace} /\ Inside(c) =>
                  SameHistory(c, d) /\ d.cursor_x = c.cursor_x + 1 /\ d.cursor_y = c.cursor_y
<1> DEFINE e == ensure_bottom(c)
           d == PutLive(e, ch)
<1>1. Live(e) /\ SameHistory(c, e) /\ SameCursor(c, e) /\ e.screen = c.screen
  BY BottomFacts
<1> HIDE DEF e
<1>2. /\ Live(d) /\ InSync(d) /\ Printed(e, d)
      /\ ch \notin {Newline, Backspace} /\ Inside(e) =>
           SameHistory(e, d) /\ d.cursor_x = e.cursor_x + 1 /\ d.cursor_y = e.cursor_y
  BY <1>1, PutLiveFacts
<1> HIDE DEF d
<1>3. \A i : Stored(e, i) = Stored(c, i)
  BY <1>1, SameStored DEF Ready
<1>4. Printed(c, d)
  BY <1>1, <1>2, <1>3 DEF Printed, Extends, SameHistory
<1>5. ch \notin {Newline, Backspace} /\ Inside(c) =>
        SameHistory(c, d) /\ d.cursor_x = c.cursor_x + 1 /\ d.cursor_y = c.cursor_y
  BY <1>1, <1>2 DEF Inside, SameCursor, SameHistory
<1>6. console_putc(c, ch) = d
  BY PutcIs DEF d, e
<1> QED
  BY <1>2, <1>4, <1>5, <1>6
-----------------------------------------------------------------------------
(* A string is printed character by character.                             *)

IsRun(after, c, s, n) ==
  after = [i \in 0..n |-> IF i = 0 THEN c ELSE console_putc(after[i - 1], s[i])]

LEMMA RunExists ==
  ASSUME NEW c, NEW s, NEW n \in Nat
  PROVE  \E after : IsRun(after, c, s, n)
<1> DEFINE Bad == {m \in Nat : ~ \E after : IsRun(after, c, s, m)}
<1> SUFFICES Bad = {}
  OBVIOUS
<1> SUFFICES ASSUME Bad # {} PROVE FALSE
  OBVIOUS
<1>1. PICK m \in Bad : \A k \in Bad : m <= k
  <2>1. Bad \in SUBSET Nat
    OBVIOUS
  <2> HIDE DEF Bad
  <2> QED
    BY <2>1, LeastNatural
<1>2. m \in Nat /\ ~ \E after : IsRun(after, c, s, m)
  BY <1>1
<1>3. m # 0
  <2> SUFFICES ASSUME m = 0 PROVE \E after : IsRun(after, c, s, m)
    BY <1>2
  <2> DEFINE after == [i \in 0..0 |-> c]
  <2>1. \A i \in 0..0 : i = 0
    OBVIOUS
  <2>2. after = [i \in 0..0 |-> IF i = 0 THEN c ELSE console_putc(after[i - 1], s[i])]
    BY <2>1
  <2> HIDE DEF after
  <2> QED
    BY <2>2 DEF IsRun
<1>4. m - 1 \in Nat /\ m - 1 \notin Bad
  BY <1>1, <1>2, <1>3
<1>5. PICK short : IsRun(short, c, s, m - 1)
  BY <1>4
<1> DEFINE Step(f, i) == IF i = 0 THEN c ELSE console_putc(f[i - 1], s[i])
           after == [i \in 0..m |-> IF i = m THEN console_putc(short[m - 1], s[m]) ELSE short[i]]
<1>6. \A i \in 0..(m - 1) : short[i] = Step(short, i)
  BY <1>5, Zenon DEF IsRun
<1>7. /\ \A i \in 0..(m - 1) : i \in 0..m /\ i # m
      /\ \A i \in 0..m : i # 0 => i - 1 \in 0..(m - 1)
      /\ \A i \in 0..m : i # m => i \in 0..(m - 1)
      /\ m \in 0..m
  BY <1>2, <1>3
<1>8. after[m] = console_putc(short[m - 1], s[m]) /\ \A i \in 0..(m - 1) : after[i] = short[i]
  BY <1>7
<1>9. \A i \in 0..m : after[i] = Step(after, i)
  <2> SUFFICES ASSUME NEW i \in 0..m PROVE after[i] = Step(after, i)
    OBVIOUS
  <2> HIDE DEF after
  <2>1. CASE i = m
    <3>1. after[m - 1] = short[m - 1] /\ i # 0
      BY <1>3, <1>7, <1>8, <2>1
    <3> QED
      BY <1>8, <2>1, <3>1
  <2>2. CASE i # m
    <3>1. after[i] = Step(short, i)
      BY <1>6, <1>7, <1>8, <2>2
    <3>2. i # 0 => after[i - 1] = short[i - 1]
      BY <1>7, <1>8
    <3> QED
      BY <3>1, <3>2
  <2> QED
    BY <2>1, <2>2
<1>10. after = [i \in 0..m |-> after[i]]
  OBVIOUS
<1>11. after = [i \in 0..m |-> Step(after, i)]
  <2> HIDE DEF after
  <2> QED
    BY <1>9, <1>10
<1>12. IsRun(after, c, s, m)
  <2> HIDE DEF after
  <2> QED
    BY <1>11, Zenon DEF IsRun
<1> QED
  BY <1>2, <1>12

LEMMA WrittenFacts ==
  ASSUME NEW c, NEW s, Len(s) \in Nat
  PROVE  /\ Written(c, s)[0] = c
         /\ \A i \in 1..Len(s) : Written(c, s)[i] = console_putc(Written(c, s)[i - 1], s[i])
         /\ console_write(c, s) = Written(c, s)[Len(s)]
<1> DEFINE n == Len(s)
           f == Written(c, s)
<1>1. \E after : after = [i \in 0..n |-> IF i = 0 THEN c ELSE console_putc(after[i - 1], s[i])]
  <2>1. \E after : IsRun(after, c, s, n)
    BY RunExists
  <2> QED
    BY <2>1, Zenon DEF IsRun
<1>2. f = [i \in 0..n |-> IF i = 0 THEN c ELSE console_putc(f[i - 1], s[i])]
  BY <1>1, Zenon DEF Written
<1>3. console_write(c, s) = f[n]
  BY DEF console_write, Then
<1>4. /\ 0 \in 0..n
      /\ \A i \in 1..n : i \in 0..n /\ i # 0
  OBVIOUS
<1> HIDE DEF f, n
<1>5. f[0] = c
  BY <1>2, <1>4, Zenon
<1>6. \A i \in 1..n : f[i] = console_putc(f[i - 1], s[i])
  BY <1>2, <1>4, Zenon
<1> QED
  BY <1>3, <1>5, <1>6 DEF f, n

(* The view of a console that is not scrolled back is its screen. *)
LEMMA LiveView ==
  ASSUME NEW c \in Con, c.sb_view = 0
  PROVE  View(c) = c.screen
<1>1. \A row \in Row : row \in Nat /\ ~(row < 0) /\ row - 0 = row
  BY Sizes DEF Row
<1>2. View(c) = [row \in Row |-> c.screen[row]]
  BY <1>1 DEF View
<1> QED
  BY <1>2 DEF Con

LEMMA LiveFacts ==
  ASSUME NEW c, Live(c)
  PROVE  Ready(c) /\ (InSync(c) => Good(c))
<1>1. c \in Con /\ Kept(c) /\ c.sb_view = 0 /\ c.vga = c.screen
  BY DEF Live
<1>2. c.sb_view <= c.sb_count
  BY <1>1, Sizes DEF Con
<1> QED
  BY <1>1, <1>2, LiveView DEF Ready, Good

LEMMA GoodFacts ==
  ASSUME NEW c, Good(c)
  PROVE  Ready(c)
  BY LiveView DEF Good, Ready

(* A string that fits in the row of the cursor. *)
LEMMA WriteFacts ==
  ASSUME NEW c, Ready(c), NEW s \in Seq(32..126), Len(s) > 0,
         c.cursor_x + Len(s) < VGA_COLS,
         \A i \in 1..Len(s) : CharCell(s[i]) \in Cell
  PROVE  LET d == console_write(c, s)
         IN  Live(d) /\ InSync(d) /\ SameHistory(c, d)
<1> DEFINE n == Len(s)
           f == Written(c, s)
           Fine(i) == /\ Live(f[i]) /\ InSync(f[i]) /\ SameHistory(c, f[i])
                      /\ f[i].cursor_x = c.cursor_x + i
           Bad == {i \in 1..n : ~Fine(i)}
<1>1. n \in Nat /\ n > 0
  OBVIOUS
<1>2. /\ f[0] = c
      /\ \A i \in 1..n : f[i] = console_putc(f[i - 1], s[i])
      /\ console_write(c, s) = f[n]
  BY <1>1, WrittenFacts
<1>3. c.cursor_x \in Nat /\ VGA_COLS \in Nat
  BY Sizes DEF Ready, Con, Col
<1>4. \A i \in 1..n : s[i] \notin {Newline, Backspace} /\ CharCell(s[i]) \in Cell
  <2> SUFFICES ASSUME NEW i \in 1..n PROVE s[i] \notin {Newline, Backspace}
    OBVIOUS
  <2>1. s[i] \in 32..126
    BY ElementOfSeq
  <2>2. \A k \in 32..126 : k # 10 /\ k # 8
    OBVIOUS
  <2>3. s[i] # 10 /\ s[i] # 8
    BY <2>1, <2>2, Zenon
  <2> QED
    BY <2>3, Zenon DEF Newline, Backspace
<1> HIDE DEF n, f
<1>5. ASSUME NEW i \in 1..n, i # 1 => Fine(i - 1) PROVE Fine(i)
  <2> DEFINE e == f[i - 1]
             d == f[i]
  <2>1. i \in Nat /\ i - 1 \in Nat /\ i <= n
    BY <1>1
  <2>2. Ready(e) /\ SameHistory(c, e) /\ e.cursor_x = c.cursor_x + (i - 1)
    <3>1. CASE i = 1
      BY <1>2, <1>3, <3>1 DEF SameHistory
    <3>2. CASE i # 1
      BY <1>5, <3>2, LiveFacts
    <3> QED
      BY <3>1, <3>2
  <2>3. d = console_putc(e, s[i])
    BY <1>2
  <2>4. Inside(e) /\ e.cursor_x + 1 = c.cursor_x + i
    BY <1>1, <1>3, <2>1, <2>2 DEF Inside, n
  <2> HIDE DEF e, d
  <2>5. Live(d) /\ InSync(d) /\ SameHistory(e, d) /\ d.cursor_x = e.cursor_x + 1
    BY <1>4, <2>2, <2>3, <2>4, PutcFacts
  <2> QED
    BY <2>2, <2>4, <2>5 DEF SameHistory, d
<1>6. Bad = {}
  <2> SUFFICES ASSUME Bad # {} PROVE FALSE
    OBVIOUS
  <2>1. Bad \in SUBSET Nat
    OBVIOUS
  <2>2. PICK i \in Bad : \A j \in Bad : i <= j
    <3> HIDE DEF Bad
    <3> QED
      BY <2>1, LeastNatural
  <2>3. i \in 1..n /\ ~Fine(i)
    BY <2>2
  <2>4. i # 1 => i - 1 \in 1..n /\ ~(i <= i - 1)
    BY <1>1, <2>3
  <2>5. i # 1 => Fine(i - 1)
    BY <2>2, <2>4
  <2> HIDE DEF Fine, Bad
  <2> QED
    BY <1>5, <2>3, <2>5
<1>7. Fine(n)
  <2>1. n \in 1..n
    BY <1>1
  <2> QED
    BY <1>6, <2>1
<1> QED
  BY <1>2, <1>7
-----------------------------------------------------------------------------
(* The calls of the console, one by one.                                   *)

(* Con, before the screen was cleared for the first time. *)
Memory ==
  [screen : [Row -> Line \cup {GarbageLine}], vga : [Row -> Line \cup {GarbageLine}],
   scrollback : [Slot -> Line \cup {GarbageLine}],
   sb_start : Slot, sb_count : 0..SCROLLBACK_LINES, sb_view : 0..SCROLLBACK_LINES,
   cursor_x : Col, cursor_y : Row, hw : Int]

LEMMA ClearFacts ==
  ASSUME NEW c \in Memory
  PROVE  LET d == console_clear(c)
         IN  /\ Live(d) /\ InSync(d) /\ d.sb_count = 0
             /\ d.screen = [y \in Row |-> BlankLine]
<1> DEFINE new == [y \in Row |-> BlankLine]
           e == [c EXCEPT !.screen = new, !.vga = new, !.sb_start = 0, !.sb_count = 0,
                          !.sb_view = 0, !.cursor_x = 0, !.cursor_y = 0]
           d == update_cursor(e)
<1>1. console_clear(c) = d
  BY DEF console_clear
<1>2. new \in [Row -> Line]
  BY BlankLineFacts
<1>3. 0 \in Col /\ 0 \in Row /\ 0 \in Slot /\ 0 \in 0..SCROLLBACK_LINES
  BY Sizes DEF Col, Row, Slot
<1> HIDE DEF new
<1>4. e \in Con /\ e.screen = new /\ e.vga = new /\ e.sb_count = 0 /\ e.sb_view = 0
  BY <1>2, <1>3 DEF Con, Memory
<1> HIDE DEF e
<1>5. /\ d \in Con /\ InSync(d) /\ d.screen = new /\ d.vga = new /\ d.sb_count = 0 /\ d.sb_view = 0
  BY <1>4, CursorFacts DEF SameHistory
<1> HIDE DEF d
<1>6. Kept(d)
  BY <1>5 DEF Kept
<1> QED
  BY <1>1, <1>5, <1>6 DEF Live, new

LEMMA QuadrantFacts ==
  ASSUME NEW c, Good(c)
  PROVE  LET d == console_draw_quadrants(c)
         IN  Live(d) /\ InSync(d) /\ SameHistory(c, d)
<1> DEFINE midX == VGA_COLS \div 2
           midY == VGA_ROWS \div 2
           Cross(x, y) == CASE x = midX /\ y = midY -> Coloured(LineCross)
                            [] y = midY /\ x # midX -> Coloured(LineHorz)
                            [] x = midX /\ y # midY -> Coloured(LineVert)
                            [] OTHER                -> c.screen[y][x]
           new == [y \in Row |-> [x \in Col |-> Cross(x, y)]]
           e == [c EXCEPT !.screen = new, !.cursor_x = 1, !.cursor_y = midY + 1]
           shown == Show(e)
           q == IF c.sb_view = 0 THEN update_cursor(shown) ELSE shown
<1>1. console_draw_quadrants(c) = console_write(q, Prompt)
  BY DEF console_draw_quadrants
<1>2. c \in Con /\ Kept(c) /\ c.screen \in [Row -> Line]
  BY DEF Good, Con
<1>3. new \in [Row -> Line]
  <2> SUFFICES ASSUME NEW y \in Row, NEW x \in Col PROVE Cross(x, y) \in Cell
    BY DEF Line
  <2>1. c.screen[y][x] \in Cell
    BY <1>2 DEF Line
  <2>2. {Coloured(LineCross), Coloured(LineHorz), Coloured(LineVert)} \subseteq Cell
    BY DEF Cell
  <2> HIDE DEF midX, midY
  <2> QED
    BY <2>1, <2>2
<1>4. 1 \in Col /\ midY + 1 \in Row
  <2>1. VGA_ROWS \div 2 \in Nat /\ VGA_ROWS \div 2 + 1 <= VGA_ROWS - 1
    BY Sizes
  <2> QED
    BY <2>1, Sizes DEF Col, Row
<1> HIDE DEF midX, midY, new
<1>5. /\ e \in Con /\ SameHistory(c, e) /\ e.screen = new /\ e.cursor_x = 1
      /\ e.sb_view = c.sb_view
  BY <1>2, <1>3, <1>4 DEF Con, SameHistory
<1> HIDE DEF e
<1>6. /\ shown \in Con /\ SameHistory(e, shown) /\ shown.cursor_x = 1 /\ shown.sb_view = c.sb_view
      /\ c.sb_view = 0 => shown.vga = shown.screen
  BY <1>3, <1>5 DEF Show, Con, SameHistory
<1> HIDE DEF shown
<1>7. /\ q \in Con /\ SameHistory(c, q) /\ q.cursor_x = 1 /\ q.sb_view = c.sb_view
      /\ c.sb_view = 0 => q.vga = q.screen
  BY <1>5, <1>6, CursorFacts DEF SameHistory, SameCursor
<1> HIDE DEF q
<1>8. Ready(q)
  BY <1>2, <1>7, SameStored DEF Ready
<1>9. Prompt \in Seq(32..126) /\ Len(Prompt) > 0 /\ q.cursor_x + Len(Prompt) < VGA_COLS
  <2>1. Prompt \in Seq(32..126) /\ Len(Prompt) \in 1..(VGA_COLS - 2)
    BY ConsoleAssumption
  <2>2. Len(Prompt) > 0 /\ 1 + Len(Prompt) < VGA_COLS
    BY <2>1, Sizes
  <2> QED
    BY <1>7, <2>1, <2>2
<1>10. \A i \in 1..Len(Prompt) : CharCell(Prompt[i]) \in Cell
  BY DEF Cell
<1> DEFINE d == console_write(q, Prompt)
<1>11. Live(d) /\ InSync(d) /\ SameHistory(q, d)
  BY <1>8, <1>9, <1>10, WriteFacts
<1> HIDE DEF d
<1> QED
  BY <1>1, <1>7, <1>11 DEF SameHistory, d

LEMMA SetCursorFacts ==
  ASSUME NEW c, Good(c), NEW x \in Nat, NEW y \in Nat
  PROVE  LET d == console_set_cursor(c, x, y)
         IN  /\ Good(d) /\ SameHistory(c, d)
             /\ d.screen = c.screen /\ d.vga = c.vga /\ d.sb_view = c.sb_view
<1> DEFINE nx == IF x < VGA_COLS THEN x ELSE c.cursor_x
           ny == IF y < VGA_ROWS THEN y ELSE c.cursor_y
           e == [c EXCEPT !.cursor_x = nx, !.cursor_y = ny]
           d == update_cursor(e)
<1>1. console_set_cursor(c, x, y) = d
  BY DEF console_set_cursor, Good, Con
<1>2. c \in Con /\ Kept(c) /\ c.sb_view <= c.sb_count /\ c.vga = View(c)
  BY DEF Good
<1>3. nx \in Col /\ ny \in Row
  BY <1>2, Sizes DEF Con, Col, Row
<1> HIDE DEF nx, ny
<1>4. /\ e \in Con /\ SameHistory(c, e) /\ e.screen = c.screen /\ e.vga = c.vga
      /\ e.sb_view = c.sb_view
  BY <1>2, <1>3 DEF Con, SameHistory
<1> HIDE DEF e
<1>5. /\ d \in Con /\ InSync(d) /\ SameHistory(c, d) /\ d.screen = c.screen /\ d.vga = c.vga
      /\ d.sb_view = c.sb_view
  BY <1>4, CursorFacts DEF SameHistory
<1> HIDE DEF d
<1>6. Kept(d) /\ View(d) = View(c)
  BY <1>2, <1>5, SameStored DEF View, SameHistory
<1>7. Good(d)
  BY <1>2, <1>5, <1>6 DEF Good, SameHistory
<1> QED
  BY <1>1, <1>5, <1>7

LEMMA ScrollViewFacts ==
  ASSUME NEW c, Good(c), NEW up \in BOOLEAN
  PROVE  LET d == ScrollView(c, up)
         IN  /\ Good(d) /\ SameHistory(c, d) /\ d.screen = c.screen
             /\ d.sb_view \in {c.sb_view - 1, c.sb_view, c.sb_view + 1}
<1> DEFINE v == IF up THEN (IF c.sb_view < c.sb_count THEN c.sb_view + 1 ELSE c.sb_view)
                      ELSE (IF c.sb_view > 0 THEN c.sb_view - 1 ELSE c.sb_view)
           e == [c EXCEPT !.sb_view = v]
           d == render_view(e)
<1>1. c \in Con /\ Kept(c) /\ c.sb_view <= c.sb_count
  BY DEF Good
<1>2. ScrollView(c, up) = d
  BY <1>1 DEF ScrollView, Con
<1>3. v \in 0..SCROLLBACK_LINES /\ v <= c.sb_count /\ v \in {c.sb_view - 1, c.sb_view, c.sb_view + 1}
  BY <1>1, Sizes DEF Con
<1> HIDE DEF v
<1>4. e \in Con /\ SameHistory(c, e) /\ e.screen = c.screen /\ e.sb_view = v /\ e.sb_view <= e.sb_count
  BY <1>1, <1>3 DEF Con, SameHistory
<1> HIDE DEF e
<1>5. Kept(e)
  BY <1>1, <1>4, SameStored
<1>6. Good(d) /\ SameHistory(e, d) /\ d.screen = e.screen /\ d.sb_view = e.sb_view
  BY <1>4, <1>5, RenderFacts
<1> HIDE DEF d
<1> QED
  BY <1>2, <1>3, <1>4, <1>6 DEF SameHistory
-----------------------------------------------------------------------------
(* The roll of paper.                                                      *)

History(c) == [i \in 1..c.sb_count |-> Stored(c, i - 1)]

Window(c) ==
  SubSeq(History(c) \o Lines(c.screen),
         Len(History(c)) - c.sb_view + 1, Len(History(c)) - c.sb_view + VGA_ROWS)

LEMMA FunctionIsSequence ==
  ASSUME NEW S, NEW n \in Nat, NEW f \in [1..n -> S]
  PROVE  f \in Seq(S) /\ Len(f) = n
  BY IsASeq, LenProperties

LEMMA HistoryFacts ==
  ASSUME NEW c \in Con, Kept(c)
  PROVE  /\ History(c) \in Seq(Line) /\ Len(History(c)) = c.sb_count
         /\ \A i \in 1..c.sb_count : History(c)[i] = Stored(c, i - 1)
<1> DEFINE n == c.sb_count
<1>1. n \in Nat
  BY Sizes DEF Con
<1>2. \A i \in 1..n : i - 1 \in 0..(n - 1)
  BY <1>1
<1>3. History(c) \in [1..n -> Line] /\ \A i \in 1..n : History(c)[i] = Stored(c, i - 1)
  BY <1>2 DEF History, Kept
<1> HIDE DEF n
<1>4. History(c) \in Seq(Line) /\ Len(History(c)) = n
  BY <1>1, <1>3, FunctionIsSequence
<1> QED
  BY <1>3, <1>4 DEF n

LEMMA LinesFacts ==
  ASSUME NEW f \in [Row -> Line]
  PROVE  /\ Lines(f) \in Seq(Line) /\ Len(Lines(f)) = VGA_ROWS
         /\ \A i \in 1..VGA_ROWS : Lines(f)[i] = f[i - 1]
<1>1. VGA_ROWS \in Nat /\ \A i \in 1..VGA_ROWS : i - 1 \in Row
  BY Sizes DEF Row
<1>2. Lines(f) \in [1..VGA_ROWS -> Line] /\ \A i \in 1..VGA_ROWS : Lines(f)[i] = f[i - 1]
  BY <1>1 DEF Lines
<1> QED
  BY <1>1, <1>2, FunctionIsSequence

LEMMA SameRoll ==
  ASSUME NEW c, NEW d, SameHistory(c, d)
  PROVE  History(d) = History(c)
<1>1. d.sb_count = c.sb_count /\ \A i : Stored(d, i) = Stored(c, i)
  BY DEF SameHistory, Stored
<1> QED
  BY <1>1, Zenon DEF History

(* The VGA buffer shows the window of the roll. *)
LEMMA WindowFacts ==
  ASSUME NEW c, Good(c)
  PROVE  Lines(c.vga) = Window(c)
<1> DEFINE n == c.sb_count
           v == c.sb_view
           H == History(c)
           P == H \o Lines(c.screen)
           R == VGA_ROWS
<1>1. c \in Con /\ Kept(c) /\ v <= n /\ c.vga = View(c) /\ c.vga \in [Row -> Line] /\ c.screen \in [Row -> Line]
  BY DEF Good, Con
<1>2. n \in Nat /\ v \in Nat /\ R \in Nat
  BY <1>1, Sizes DEF Con
<1>3. H \in Seq(Line) /\ Len(H) = n /\ \A i \in 1..n : H[i] = Stored(c, i - 1)
  BY <1>1, HistoryFacts
<1>4. /\ Lines(c.screen) \in Seq(Line) /\ Len(Lines(c.screen)) = R
      /\ \A i \in 1..R : Lines(c.screen)[i] = c.screen[i - 1]
  BY <1>1, LinesFacts
<1>5. /\ Lines(c.vga) \in Seq(Line) /\ Len(Lines(c.vga)) = R
      /\ \A i \in 1..R : Lines(c.vga)[i] = c.vga[i - 1]
  BY <1>1, LinesFacts
<1> HIDE DEF H, n, v
<1>6. /\ P \in Seq(Line) /\ Len(P) = n + R
      /\ \A i \in 1..(n + R) : P[i] = IF i <= n THEN H[i] ELSE Lines(c.screen)[i - n]
  BY <1>3, <1>4, ConcatProperties
<1> HIDE DEF P
<1> DEFINE a == n - v + 1
           b == n - v + R
<1>7. a \in Int /\ b \in Int /\ b - a + 1 = R /\ a <= b /\ \A i \in a..b : i \in 1..(n + R)
  BY <1>1, <1>2, Sizes
<1>8. \A i \in a..b : P[i] \in Line
  BY <1>6, <1>7, ElementOfSeq
<1>9. a + 1 - 1 = a /\ \A i \in 1..R : a + i - 1 \in 1..(n + R) /\ a + i - 1 = n - v + i
  BY <1>1, <1>2
<1> DEFINE W == SubSeq(P, a, b)
<1> HIDE DEF a, b
<1>10. W \in Seq(Line) /\ Len(W) = R /\ \A i \in 1..R : W[i] = P[a + i - 1]
  BY <1>7, <1>8, SubSeqProperties
<1> HIDE DEF W
<1>11. ASSUME NEW i \in 1..R PROVE Lines(c.vga)[i] = W[i]
  <2>1. i \in Nat /\ i >= 1 /\ i - 1 \in Row /\ i - 1 \in Nat
    BY <1>2 DEF Row
  <2>2. W[i] = P[n - v + i] /\ n - v + i \in 1..(n + R)
    BY <1>9, <1>10
  <2>3. Lines(c.vga)[i] = View(c)[i - 1]
    BY <1>1, <1>5
  <2>4. CASE i - 1 < v
    <3>1. n - v + i <= n /\ n - v + i \in 1..n /\ (n - v + i) - 1 = n - v + (i - 1)
      BY <1>1, <1>2, <2>1, <2>4
    <3>2. P[n - v + i] = Stored(c, n - v + (i - 1))
      BY <1>3, <1>6, <2>2, <3>1
    <3> QED
      BY <2>1, <2>2, <2>3, <2>4, <3>2 DEF View, n, v
  <2>5. CASE ~(i - 1 < v)
    <3>1. /\ ~(n - v + i <= n) /\ (n - v + i) - n = i - v /\ i - v \in 1..R
          /\ (i - v) - 1 = (i - 1) - v
      BY <1>1, <1>2, <2>1, <2>5
    <3>2. P[n - v + i] = Lines(c.screen)[i - v]
      BY <1>6, <2>2, <3>1
    <3>3. P[n - v + i] = c.screen[(i - 1) - v]
      BY <1>4, <3>1, <3>2
    <3> QED
      BY <2>1, <2>2, <2>3, <2>5, <3>3 DEF View, v
  <2> QED
    BY <2>4, <2>5
<1>12. Lines(c.vga) = W
  BY <1>5, <1>10, <1>11, SeqEqual
<1> QED
  BY <1>3, <1>12 DEF Window, W, P, H, a, b, n, v

(* A line that joins the ring joins the roll. *)
LEMMA RollExtends ==
  ASSUME NEW c \in Con, Kept(c), NEW d \in Con, Kept(d), NEW line \in Line, Extends(c, d, line)
  PROVE  History(d) = T!LastOf(SCROLLBACK_LINES, Append(History(c), line))
<1> DEFINE N == SCROLLBACK_LINES
           n == c.sb_count
           H == History(c)
           A == Append(H, line)
           D == History(d)
<1>1. N \in Nat \ {0} /\ n \in 0..N /\ d.sb_count \in 0..N
  BY Sizes DEF Con
<1>2. H \in Seq(Line) /\ Len(H) = n /\ \A i \in 1..n : H[i] = Stored(c, i - 1)
  BY HistoryFacts
<1>3. D \in Seq(Line) /\ Len(D) = d.sb_count /\ \A i \in 1..d.sb_count : D[i] = Stored(d, i - 1)
  BY HistoryFacts
<1> HIDE DEF H, D
<1>4. A \in Seq(Line) /\ Len(A) = n + 1 /\ A[n + 1] = line /\ \A i \in 1..n : A[i] = H[i]
  BY <1>2, AppendProperties
<1> HIDE DEF A, n
<1>5. CASE /\ n < N /\ d.sb_count = n + 1
           /\ \A i \in 0..(n - 1) : Stored(d, i) = Stored(c, i)
           /\ Stored(d, d.sb_count - 1) = line
  <2>1. ASSUME NEW i \in 1..(n + 1) PROVE D[i] = A[i]
    <3>1. CASE i = n + 1
      BY <1>1, <1>3, <1>4, <1>5, <3>1
    <3>2. CASE i # n + 1
      <4>1. i \in 1..n /\ i - 1 \in 0..(n - 1)
        BY <1>1, <3>2
      <4> QED
        BY <1>2, <1>3, <1>4, <1>5, <4>1
    <3> QED
      BY <3>1, <3>2
  <2>2. D = A
    BY <1>3, <1>4, <1>5, <2>1, SeqEqual
  <2>3. ~(Len(A) > N)
    BY <1>1, <1>4, <1>5
  <2>4. T!LastOf(N, A) = A
    BY <2>3 DEF T!LastOf
  <2> QED
    BY <2>2, <2>4 DEF D, A, H
<1>6. CASE /\ n = N /\ d.sb_count = N
           /\ \A i \in 0..(n - 2) : Stored(d, i) = Stored(c, i + 1)
           /\ Stored(d, d.sb_count - 1) = line
  <2> DEFINE B == SubSeq(A, 2, N + 1)
  <2>1. Len(A) > N /\ Len(A) = N + 1 /\ Len(A) - N + 1 = 2
    BY <1>1, <1>4, <1>6
  <2>2. T!LastOf(N, A) = SubSeq(A, Len(A) - N + 1, Len(A))
    BY <2>1 DEF T!LastOf
  <2>3. T!LastOf(N, A) = B
    BY <2>1, <2>2
  <2>4. 2 \in Int /\ N + 1 \in Int /\ 2 <= N + 1 /\ (N + 1) - 2 + 1 = N /\ \A i \in 2..(N + 1) : i \in 1..Len(A)
    BY <1>1, <2>1
  <2>5. \A i \in 2..(N + 1) : A[i] \in Line
    BY <1>4, <2>4, ElementOfSeq
  <2>6. B \in Seq(Line) /\ Len(B) = N /\ \A i \in 1..N : B[i] = A[2 + i - 1]
    BY <2>4, <2>5, SubSeqProperties
  <2> HIDE DEF B
  <2>7. ASSUME NEW i \in 1..N PROVE D[i] = B[i]
    <3>1. i \in Nat /\ 2 + i - 1 = i + 1
      BY <1>1
    <3>2. D[i] = Stored(d, i - 1) /\ B[i] = A[i + 1]
      BY <1>3, <1>6, <2>6, <3>1
    <3>3. CASE i = N
      BY <1>4, <1>6, <3>2, <3>3
    <3>4. CASE i # N
      <4>1. i - 1 \in 0..(n - 2) /\ i + 1 \in 1..n /\ (i - 1) + 1 = i /\ (i + 1) - 1 = i
        BY <1>1, <1>6, <3>1, <3>4
      <4>2. Stored(d, i - 1) = Stored(c, (i - 1) + 1)
        BY <1>6, <4>1
      <4>3. A[i + 1] = Stored(c, (i + 1) - 1)
        BY <1>2, <1>4, <4>1
      <4> QED
        BY <3>2, <4>1, <4>2, <4>3
    <3> QED
      BY <3>3, <3>4
  <2>8. D = B
    BY <1>3, <1>6, <2>6, <2>7, SeqEqual
  <2> QED
    BY <2>3, <2>8 DEF D, A, H
<1> QED
  BY <1>5, <1>6 DEF Extends, n
-----------------------------------------------------------------------------
(* The inductive invariant: every field has its type, the ring's lines     *)
(* were once on the screen, the VGA buffer is the view, and the hardware   *)
(* cursor is in step.                                                      *)
IInv == Good(con) /\ ctrl \in BOOLEAN

(* The terminal in the words of the proofs. *)
LEMMA TerminalWindow == T!Window = Window(con) /\ (T!Window)' = Window(con')
  BY DEF T!Window, Window, History

LEMMA Blanked ==
  ASSUME NEW c, Live(c), c.sb_count = 0, c.screen = [y \in Row |-> BlankLine]
  PROVE  /\ History(c) = <<>> /\ c.sb_view = 0
         /\ Lines(c.screen) = [i \in 1..VGA_ROWS |-> BlankLine]
<1>1. History(c) = <<>>
  BY DEF History
<1>2. \A i \in 1..VGA_ROWS : i - 1 \in Row
  BY Sizes DEF Row
<1>3. Lines(c.screen) = [i \in 1..VGA_ROWS |-> BlankLine]
  BY <1>2 DEF Lines
<1> QED
  BY <1>1, <1>3 DEF Live

LEMMA InitFacts == Init => IInv /\ T!Init
<1> SUFFICES ASSUME Init PROVE IInv /\ T!Init
  OBVIOUS
<1>1. PowerOn \in Memory
  <2>1. 0 \in Col /\ 0 \in Row /\ 0 \in Slot /\ 0 \in 0..SCROLLBACK_LINES
    BY Sizes DEF Col, Row, Slot
  <2> QED
    BY <2>1 DEF PowerOn, Memory, Slot
<1>2. con = console_clear(PowerOn) /\ ctrl = FALSE
  BY DEF Init, console_init
<1>3. Live(con) /\ InSync(con) /\ con.sb_count = 0 /\ con.screen = [y \in Row |-> BlankLine]
  BY <1>1, <1>2, ClearFacts
<1>4. Good(con)
  BY <1>3, LiveFacts
<1>5. /\ History(con) = <<>> /\ con.sb_view = 0
      /\ Lines(con.screen) = [i \in 1..VGA_ROWS |-> BlankLine]
  BY <1>3, Blanked
<1>6. T!Blanked
  BY <1>5 DEF T!Blanked, History
<1>7. Lines(con.vga) = T!Window
  BY <1>4, WindowFacts, TerminalWindow
<1>8. T!Init
  BY <1>6, <1>7 DEF T!Init
<1>9. ctrl \in BOOLEAN
  BY <1>2, Zenon
<1> QED
  BY <1>4, <1>8, <1>9 DEF IInv

LEMMA ClearStep ==
  ASSUME IInv, Clear
  PROVE  IInv' /\ T!Next
<1>1. con' = console_clear(con) /\ ctrl' = ctrl
  BY DEF Clear, Call
<1>2. con \in Memory
  BY DEF IInv, Good, Con, Memory
<1>3. Live(con') /\ InSync(con') /\ con'.sb_count = 0 /\ con'.screen = [y \in Row |-> BlankLine]
  BY <1>1, <1>2, ClearFacts
<1>4. Good(con')
  BY <1>3, LiveFacts
<1>5. /\ History(con') = <<>> /\ con'.sb_view = 0
      /\ Lines(con'.screen) = [i \in 1..VGA_ROWS |-> BlankLine]
  BY <1>3, Blanked
<1>6. T!Clear
  BY <1>5 DEF T!Clear, T!Blanked, History
<1>7. Lines(con'.vga) = (T!Window)'
  BY <1>4, WindowFacts, TerminalWindow
<1>8. T!Next
  BY <1>6, <1>7 DEF T!Next
<1> QED
  BY <1>1, <1>4, <1>8 DEF IInv

(* A step that leaves the console live, with the history it had. *)
LEMMA WriteStep ==
  ASSUME Good(con), Good(con'), con'.sb_view = 0, SameHistory(con, con')
  PROVE  T!Next
<1>1. History(con') = History(con)
  BY SameRoll
<1>2. con'.screen \in [Row -> Line]
  BY DEF Good, Con
<1>3. Len(Lines(con'.screen)) = VGA_ROWS
  BY <1>2, LinesFacts
<1>4. T!Write
  BY <1>1, <1>3 DEF T!Write, History
<1>5. Lines(con'.vga) = (T!Window)'
  BY WindowFacts, TerminalWindow
<1> QED
  BY <1>4, <1>5 DEF T!Next

LEMMA OutputStep ==
  ASSUME IInv, Output
  PROVE  IInv' /\ T!Next
<1>1. PICK ch \in Glyph \cup {Newline, Backspace} : con' = console_putc(con, ch) /\ ctrl' = ctrl
  BY DEF Output, Call
<1>2. ch \in {Newline, Backspace} \/ CharCell(ch) \in Cell
  BY DEF Cell
<1>3. Good(con) /\ Ready(con)
  BY GoodFacts DEF IInv
<1>4. Live(con') /\ InSync(con') /\ Printed(con, con')
  BY <1>1, <1>2, <1>3, PutcFacts
<1>5. Good(con') /\ con'.sb_view = 0
  BY <1>4, LiveFacts DEF Live
<1>6. CASE SameHistory(con, con')
  BY <1>1, <1>3, <1>5, <1>6, WriteStep DEF IInv
<1>7. CASE /\ Extends(con, con', con.screen[0])
           /\ \A y \in Row : y < VGA_ROWS - 2 => con'.screen[y] = con.screen[y + 1]
           /\ con'.screen[VGA_ROWS - 1] = BlankLine
  <2>1. /\ con \in Con /\ Kept(con) /\ con' \in Con /\ Kept(con')
        /\ con.screen \in [Row -> Line] /\ con'.screen \in [Row -> Line]
    BY <1>3, <1>5 DEF Good, Con
  <2>2. 0 \in Row /\ VGA_ROWS \in Nat /\ VGA_ROWS >= 3
    BY Sizes DEF Row
  <2>3. History(con') = T!LastOf(SCROLLBACK_LINES, Append(History(con), con.screen[0]))
    BY <1>7, <2>1, <2>2, RollExtends
  <2>4. /\ Len(Lines(con'.screen)) = VGA_ROWS
        /\ \A i \in 1..VGA_ROWS : Lines(con'.screen)[i] = con'.screen[i - 1]
        /\ \A i \in 1..VGA_ROWS : Lines(con.screen)[i] = con.screen[i - 1]
    BY <2>1, LinesFacts
  <2>5. Lines(con.screen)[1] = con.screen[0] /\ Lines(con'.screen)[VGA_ROWS] = BlankLine
    BY <1>7, <2>2, <2>4
  <2>6. ASSUME NEW i \in 1..(VGA_ROWS - 2) PROVE Lines(con'.screen)[i] = Lines(con.screen)[i + 1]
    <3>1. /\ i \in 1..VGA_ROWS /\ i + 1 \in 1..VGA_ROWS /\ i - 1 \in Row /\ i - 1 < VGA_ROWS - 2
          /\ (i - 1) + 1 = i /\ (i + 1) - 1 = i
      BY <2>2 DEF Row
    <3>2. Lines(con'.screen)[i] = con'.screen[i - 1] /\ Lines(con.screen)[i + 1] = con.screen[(i + 1) - 1]
      BY <2>4, <3>1
    <3>3. con'.screen[i - 1] = con.screen[(i - 1) + 1]
      BY <1>7, <3>1
    <3> QED
      BY <3>1, <3>2, <3>3
  <2>7. T!Advance
    BY <1>5, <2>3, <2>4, <2>5, <2>6 DEF T!Advance, History
  <2>8. Lines(con'.vga) = (T!Window)'
    BY <1>5, WindowFacts, TerminalWindow
  <2>9. T!Next
    BY <2>7, <2>8 DEF T!Next
  <2> QED
    BY <1>1, <1>5, <2>9 DEF IInv
<1> QED
  BY <1>4, <1>6, <1>7 DEF Printed

LEMMA MoveStep ==
  ASSUME IInv, MoveCursor
  PROVE  IInv' /\ UNCHANGED T!vars
<1>1. PICK x \in CursorX, y \in CursorY : con' = console_set_cursor(con, x, y) /\ ctrl' = ctrl
  BY DEF MoveCursor, Call
<1>2. x \in Nat /\ y \in Nat /\ Good(con)
  BY ConsoleCallsAssumption DEF IInv
<1>3. /\ Good(con') /\ SameHistory(con, con')
      /\ con'.screen = con.screen /\ con'.vga = con.vga /\ con'.sb_view = con.sb_view
  BY <1>1, <1>2, SetCursorFacts
<1>4. History(con') = History(con)
  BY <1>3, SameRoll
<1>5. UNCHANGED T!vars
  BY <1>3, <1>4 DEF T!vars, History
<1> QED
  BY <1>1, <1>3, <1>5 DEF IInv

LEMMA QuadrantsStep ==
  ASSUME IInv, Quadrants
  PROVE  IInv' /\ T!Next
<1>1. con' = console_draw_quadrants(con) /\ ctrl' = ctrl /\ Good(con)
  BY DEF Quadrants, Call, IInv
<1>2. Live(con') /\ InSync(con') /\ SameHistory(con, con')
  BY <1>1, QuadrantFacts
<1>3. Good(con') /\ con'.sb_view = 0
  BY <1>2, LiveFacts DEF Live
<1> QED
  BY <1>1, <1>2, <1>3, WriteStep DEF IInv

LEMMA ArrowStep ==
  ASSUME IInv, PressArrow
  PROVE  IInv' /\ [T!Next]_(T!vars)
<1>1. PICK up \in BOOLEAN : con' = ScrollView(con, up)
  BY DEF PressArrow
<1>2. Good(con) /\ ctrl' \in BOOLEAN
  BY Zenon DEF IInv, PressArrow
<1>3. /\ Good(con') /\ SameHistory(con, con') /\ con'.screen = con.screen
      /\ con'.sb_view \in {con.sb_view - 1, con.sb_view, con.sb_view + 1}
  BY <1>1, <1>2, ScrollViewFacts
<1>4. History(con') = History(con)
  BY <1>3, SameRoll
<1>5. Lines(con'.vga) = (T!Window)'
  BY <1>3, WindowFacts, TerminalWindow
<1>6. CASE con'.sb_view # con.sb_view
  <2>1. Len(History(con)) = con.sb_count /\ con'.sb_view \in 0..con.sb_count
    BY <1>2, <1>3, HistoryFacts, Sizes DEF Good, Con, SameHistory
  <2>2. con'.sb_view \in {con.sb_view - 1, con.sb_view + 1} \cap 0..Len(History(con))
    BY <1>3, <1>6, <2>1
  <2>3. T!Browse
    BY <1>3, <1>4, <2>2 DEF T!Browse, History
  <2> QED
    BY <1>2, <1>3, <1>5, <2>3 DEF T!Next, IInv
<1>7. CASE con'.sb_view = con.sb_view
  <2>1. Window(con') = Window(con)
    BY <1>3, <1>4, <1>7 DEF Window
  <2>2. Lines(con'.vga) = Lines(con.vga)
    BY <1>2, <1>3, <2>1, WindowFacts
  <2>3. UNCHANGED T!vars
    BY <1>3, <1>4, <1>7, <2>2 DEF T!vars, History
  <2> QED
    BY <1>2, <1>3, <2>3 DEF IInv
<1> QED
  BY <1>6, <1>7

LEMMA StepFacts == IInv /\ [Next]_vars => IInv' /\ [T!Next]_(T!vars)
<1> SUFFICES ASSUME IInv, [Next]_vars PROVE IInv' /\ [T!Next]_(T!vars)
  OBVIOUS
<1>1. CASE PressCtrl \/ UNCHANGED vars
  <2>1. con' = con /\ ctrl' \in BOOLEAN
    BY <1>1, Zenon DEF PressCtrl, vars, IInv
  <2>2. UNCHANGED T!vars
    BY <2>1 DEF T!vars, Lines, Stored
  <2> QED
    BY <2>1, <2>2 DEF IInv
<1> QED
  BY <1>1, OutputStep, ClearStep, MoveStep, QuadrantsStep, ArrowStep DEF Next

THEOREM Invariance == Spec => []IInv
<1>1. IInv /\ [Next]_vars => IInv'
  BY StepFacts
<1> QED
  BY <1>1, InitFacts, PTL DEF Spec

(* Type correctness: whatever is printed, cleared, drawn or browsed, no    *)
(* index leaves its array and no uncleared memory gets on the screen.      *)
THEOREM Types == Spec => []TypeOK
<1>1. IInv => TypeOK
  <2> SUFFICES ASSUME IInv PROVE TypeOK
    OBVIOUS
  <2>1. con \in Con /\ con.sb_view <= con.sb_count /\ ctrl \in BOOLEAN
    BY DEF IInv, Good
  <2>2. con.sb_view \in 0..con.sb_count
    BY <2>1, Sizes DEF Con
  <2> QED
    BY <2>1, <2>2 DEF TypeOK, Con, Slot
<1> QED
  BY <1>1, Invariance, PTL

(* The hardware cursor is always where the next character goes             *)
(* (update_cursor at the end of every function that moves it).             *)
THEOREM Cursor == Spec => []CursorInSync
<1>1. IInv => CursorInSync
  BY DEF IInv, Good, InSync, CursorInSync
<1> QED
  BY <1>1, Invariance, PTL

(* The console implements the roll of paper of Terminal: render_view shows *)
(* the right window and scrollback_push loses no line too early, for every *)
(* size of the screen and of the ring.                                     *)
THEOREM PaperRoll == Spec => ImplementsTerminal
<1>1. Init => IInv /\ T!Init
  BY InitFacts
<1>2. IInv /\ [Next]_vars => [T!Next]_(T!vars)
  BY StepFacts
<1> QED
  BY <1>1, <1>2, Invariance, PTL DEF Spec, ImplementsTerminal, T!Spec
=============================================================================
