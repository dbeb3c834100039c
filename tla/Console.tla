------------------------------- MODULE Console ------------------------------
(***************************************************************************)
(* The text console, src/kernel/console/console.c: the in-memory screen,   *)
(* the scrollback ring, the VGA text buffer and the cursor.                *)
(*                                                                         *)
(* The console is one record, and each C function that changes it an       *)
(* operator from record to record, so that the functions that print more   *)
(* than one character (here and in the shell and the panes) compose them.  *)
(* The kernel is single-threaded between two sched_yield calls, so a       *)
(* whole call is one step.  Rows and columns count from 0, as in the code. *)
(***************************************************************************)
EXTENDS Integers, Sequences

CONSTANTS
  VGA_COLS, VGA_ROWS, SCROLLBACK_LINES,  \* 80, 25 and 100 in the code
  Prompt                                 \* what shell_show_prompt writes

ASSUME ConsoleAssumption ==
  /\ VGA_COLS \in 2..255
  /\ VGA_ROWS \in 3..255
  /\ SCROLLBACK_LINES \in Nat \ {0}
  /\ Prompt \in Seq(32..126)
  /\ Len(Prompt) \in 1..(VGA_COLS - 2)

Row == 0..(VGA_ROWS - 1)
Col == 0..(VGA_COLS - 1)

(* Characters are their codes. *)
Backspace == 8
Newline == 10
Space == 32
LineVert == 179
LineHorz == 196
LineCross == 197

(* A VGA cell: attribute in the high byte, light grey on black being 7.    *)
(* `(vga_color << 8) | c' extends the sign of a char before it is cut to   *)
(* 16 bits, so that a code above 127 also sets every attribute bit.        *)
Coloured(code) == 7 * 256 + code

CharCell(c) == IF c < 128 THEN Coloured(c) ELSE 255 * 256 + c

Blank == Coloured(Space)
BlankLine == [x \in Col |-> Blank]

(* hw is the position last sent to the CRT controller. *)
update_cursor(con) == [con EXCEPT !.hw = con.cursor_y * VGA_COLS + con.cursor_x]

(* The line of the scrollback that is i lines after the oldest one. *)
Stored(con, i) == con.scrollback[(con.sb_start + i) % SCROLLBACK_LINES]

(* Fault: when the ring is full, its oldest line stays the first. *)
scrollback_push_StartKept(con, line) ==
  LET idx == (con.sb_start + con.sb_count) % SCROLLBACK_LINES
  IN  [con EXCEPT !.scrollback[idx] = line,
                  !.sb_count = IF @ < SCROLLBACK_LINES THEN @ + 1 ELSE @]

scrollback_push(con, line) ==
  LET idx  == (con.sb_start + con.sb_count) % SCROLLBACK_LINES
      full == con.sb_count = SCROLLBACK_LINES
  IN  [con EXCEPT
         !.scrollback[idx] = line,
         !.sb_count = IF full THEN @ ELSE @ + 1,
         !.sb_start = IF full THEN (@ + 1) % SCROLLBACK_LINES ELSE @]

render_view(con) ==
  LET view == IF con.sb_view > con.sb_count THEN con.sb_count ELSE con.sb_view
      first == con.sb_count - view
      Shown(row) ==
        IF first + row < con.sb_count
        THEN Stored(con, first + row)
        ELSE IF first + row - con.sb_count < VGA_ROWS
             THEN con.screen[first + row - con.sb_count]
             ELSE BlankLine
  IN  update_cursor([con EXCEPT !.sb_view = view, !.vga = [row \in Row |-> Shown(row)]])

(* `if (sb_view == 0)' the VGA buffer follows the screen. *)
Show(con) == IF con.sb_view = 0 THEN [con EXCEPT !.vga = con.screen] ELSE con

scroll_screen(con) ==
  LET pushed == scrollback_push(con, con.screen[0])
  IN  Show([pushed EXCEPT
              !.screen = [y \in Row |-> IF y < VGA_ROWS - 1 THEN con.screen[y + 1]
                                                            ELSE BlankLine]])

ensure_bottom(con) ==
  IF con.sb_view # 0 THEN render_view([con EXCEPT !.sb_view = 0]) ELSE con

console_clear(con) ==
  update_cursor([con EXCEPT
    !.screen = [y \in Row |-> BlankLine],
    !.vga = [y \in Row |-> BlankLine],
    !.sb_start = 0, !.sb_count = 0, !.sb_view = 0,
    !.cursor_x = 0, !.cursor_y = 0])

(* One cell of the screen and, in the live view, of the VGA buffer. *)
SetCell(con, x, y, cell) ==
  LET drawn == [con EXCEPT !.screen[y][x] = cell]
  IN  IF con.sb_view = 0 THEN [drawn EXCEPT !.vga[y][x] = cell] ELSE drawn

NextLine(con) ==
  IF con.cursor_y + 1 >= VGA_ROWS
  THEN [scroll_screen(con) EXCEPT !.cursor_x = 0, !.cursor_y = VGA_ROWS - 1]
  ELSE [con EXCEPT !.cursor_x = 0, !.cursor_y = @ + 1]

StepBack(con) ==
  CASE con.cursor_x > 0 -> [con EXCEPT !.cursor_x = @ - 1]
    [] con.cursor_x = 0 /\ con.cursor_y > 0 ->
         [con EXCEPT !.cursor_x = VGA_COLS - 1, !.cursor_y = @ - 1]
    [] OTHER -> con

EraseAt(con) == SetCell(con, con.cursor_x, con.cursor_y, Blank)

PutGlyph(con, c) ==
  LET drawn == SetCell(con, con.cursor_x, con.cursor_y, CharCell(c))
  IN  IF con.cursor_x + 1 >= VGA_COLS THEN NextLine(drawn)
                                      ELSE [drawn EXCEPT !.cursor_x = @ + 1]

(* console_putc in the live view; the cursor is sent to the hardware last. *)
PutLive(con, c) ==
  LET done == CASE c = Newline   -> NextLine(con)
                [] c = Backspace -> EraseAt(StepBack(con))
                [] OTHER         -> PutGlyph(con, c)
  IN  IF done.sb_view = 0 THEN update_cursor(done) ELSE done

(* op(con), and no more than that: the bound c makes TLC evaluate con      *)
(* before op, so that long drawings do not nest.                           *)
Then(con, op(_)) == CHOOSE r \in {op(c) : c \in {con}} : TRUE

(* Any output first returns to the live view. *)
console_putc(con, c) == Then(con, LAMBDA k : PutLive(ensure_bottom(k), c))

(* The console after each of the first characters of a string. *)
Written(con, s) ==
  LET after[i \in 0..Len(s)] == IF i = 0 THEN con ELSE console_putc(after[i - 1], s[i])
  IN  after

console_write(con, s) == Then(con, LAMBDA c : Written(c, s)[Len(s)])

(* Faults: coordinates are not checked; the hardware cursor is not moved.  *)
console_set_cursor_Unchecked(con, x, y) ==
  update_cursor([con EXCEPT !.cursor_x = x, !.cursor_y = y])

console_set_cursor_NoUpdate(con, x, y) ==
  [con EXCEPT !.cursor_x = IF x < VGA_COLS THEN x ELSE @,
              !.cursor_y = IF y < VGA_ROWS THEN y ELSE @]

(* A coordinate outside the screen is ignored. *)
console_set_cursor(con, x, y) ==
  update_cursor([con EXCEPT
    !.cursor_x = IF x < VGA_COLS THEN x ELSE @,
    !.cursor_y = IF y < VGA_ROWS THEN y ELSE @])

console_draw_quadrants(con) ==
  LET midX == VGA_COLS \div 2
      midY == VGA_ROWS \div 2
      Cross(x, y) == CASE x = midX /\ y = midY -> Coloured(LineCross)
                       [] y = midY /\ x # midX -> Coloured(LineHorz)
                       [] x = midX /\ y # midY -> Coloured(LineVert)
                       [] OTHER                -> con.screen[y][x]
      drawn == Show([con EXCEPT !.screen = [y \in Row |-> [x \in Col |-> Cross(x, y)]],
                                !.cursor_x = 1,
                                !.cursor_y = midY + 1])
  IN  console_write(IF con.sb_view = 0 THEN update_cursor(drawn) ELSE drawn, Prompt)

(* console_poll_input's branch for an arrow key while Ctrl is latched or   *)
(* the view is scrolled.                                                   *)
ScrollView(con, up) ==
  render_view([con EXCEPT
    !.sb_view = IF up THEN (IF @ < con.sb_count THEN @ + 1 ELSE @)
                      ELSE (IF @ > 0 THEN @ - 1 ELSE @)])

(* Memory that no code has written: the loader does not clear .bss. *)
Garbage == 0
GarbageLine == [x \in Col |-> Garbage]

PowerOn ==
  [screen |-> [y \in Row |-> GarbageLine], vga |-> [y \in Row |-> GarbageLine],
   scrollback |-> [i \in 0..(SCROLLBACK_LINES - 1) |-> GarbageLine],
   sb_start |-> 0, sb_count |-> 0, sb_view |-> 0,
   cursor_x |-> 0, cursor_y |-> 0, hw |-> 0]

console_init == console_clear(PowerOn)
=============================================================================
