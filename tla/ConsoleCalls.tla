---------------------------- MODULE ConsoleCalls ----------------------------
(***************************************************************************)
(* The console on its own: any caller may print, clear, move the cursor    *)
(* and draw the quadrants, and the user may press Ctrl and the arrows, in  *)
(* any order.                                                              *)
(***************************************************************************)
EXTENDS Console

CONSTANTS
  Glyph,      \* the printable characters tried
  CursorX, CursorY,  \* the coordinates given to console_set_cursor
  MAX_CALLS   \* bound of the model: calls that print, clear, move or draw

ASSUME ConsoleCallsAssumption ==
  /\ CursorX \subseteq Nat /\ CursorY \subseteq Nat
  /\ MAX_CALLS \in Nat

VARIABLES
  con,
  calls,
  ctrl   \* console_poll_input's static flag: Ctrl was seen, no arrow since

vars == <<con, calls, ctrl>>

Init == con = console_init /\ calls = 0 /\ ctrl = FALSE

(* A call from the kernel that leaves the console in state c. *)
Call(c) ==
  /\ calls < MAX_CALLS
  /\ calls' = calls + 1
  /\ con' = c
  /\ UNCHANGED ctrl

Output == \E c \in Glyph \cup {Newline, Backspace} : Call(console_putc(con, c))

Clear == Call(console_clear(con))

MoveCursor ==
  \E x \in CursorX, y \in CursorY : Call(console_set_cursor(con, x, y))

Quadrants == Call(console_draw_quadrants(con))

PressCtrl == ctrl' = TRUE /\ UNCHANGED <<con, calls>>

PressArrow ==
  /\ ctrl \/ con.sb_view # 0
  /\ \E up \in BOOLEAN : con' = ScrollView(con, up)
  /\ ctrl' = FALSE
  /\ UNCHANGED calls

Next == Output \/ Clear \/ MoveCursor \/ Quadrants \/ PressCtrl \/ PressArrow

Spec == Init /\ [][Next]_vars
-----------------------------------------------------------------------------
Cell == {CharCell(c) : c \in Glyph \cup {Prompt[i] : i \in 1..Len(Prompt)}}
        \cup {Blank} \cup {Coloured(c) : c \in {LineVert, LineHorz, LineCross}}
Line == [Col -> Cell]

(* Type correctness; the garbage of uncleared memory is only ever in slots *)
(* of the scrollback that were not written, never on the screen.           *)
TypeOK ==
  /\ \A y \in Row : con.screen[y] \in Line /\ con.vga[y] \in Line
  /\ \A i \in 0..(SCROLLBACK_LINES - 1) : con.scrollback[i] \in Line \cup {GarbageLine}
  /\ con.sb_start \in 0..(SCROLLBACK_LINES - 1)
  /\ con.sb_count \in 0..SCROLLBACK_LINES
  /\ con.sb_view \in 0..con.sb_count
  /\ con.cursor_x \in Col
  /\ con.cursor_y \in Row
  /\ ctrl \in BOOLEAN

(* The hardware cursor is where the next character goes, whichever of the  *)
(* console's functions moved it and whether or not the view was scrolled.  *)
CursorInSync == con.hw = con.cursor_y * VGA_COLS + con.cursor_x

(* The screen as the terminal's user sees it: the ring unrolled. *)
Lines(f) == [i \in 1..VGA_ROWS |-> f[i - 1]]

T == INSTANCE Terminal WITH
       Height <- VGA_ROWS, Depth <- SCROLLBACK_LINES,
       history <- [i \in 1..con.sb_count |-> Stored(con, i - 1)],
       screen <- Lines(con.screen), offset <- con.sb_view, display <- Lines(con.vga)

(* Whatever is printed, cleared, drawn or browsed, and wherever the ring   *)
(* wraps, the VGA buffer shows the right window of the paper roll, no line *)
(* of the history is lost or reordered before SCROLLBACK_LINES newer ones, *)
(* and any output returns to the live view.                                *)
ImplementsTerminal == T!Spec
=============================================================================
