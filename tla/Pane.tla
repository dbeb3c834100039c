-------------------------------- MODULE Pane --------------------------------
(***************************************************************************)
(* The grid of panes, src/kernel/hmi/pane.c: how many columns and rows     *)
(* there are, which pane is active, and how they are laid out and drawn on *)
(* the console.  The grid is a record; each operation that changes it is   *)
(* an operator from record to record, and ends in the code with a redraw   *)
(* of the whole screen, DrawGrid.  The prompt that follows belongs to the  *)
(* shell, which resets its line when it shows one: see Shell.              *)
(***************************************************************************)
EXTENDS Console

CONSTANTS
  MAX_GRID,  \* 4 in the code
  WORD,      \* one more than the largest unsigned int
  Junk       \* what widths[0] and heights[0] may hold before they are set

ASSUME PaneAssumption ==
  /\ MAX_GRID \in Nat \ {0, 1}  \* pane_gui_start makes two columns and rows
  /\ WORD \in Nat
  /\ VGA_COLS < WORD /\ VGA_ROWS < WORD
  /\ Junk \subseteq (0..(WORD - 1)) \X (0..(WORD - 1))

OnePane == [grid_w |-> 1, grid_h |-> 1, active_x |-> 0, active_y |-> 0, gui_active |-> FALSE]

(* These two do nothing, not even redraw, when gui_active says that they   *)
(* are done already: their callers here test it.                           *)
pane_gui_start(p) ==
  [grid_w |-> 2, grid_h |-> 2, active_x |-> 0, active_y |-> 1, gui_active |-> TRUE]

pane_gui_stop(p) == OnePane

(* The active column (row) a of n, when there is one less of them. *)
Shrunk(a, n) == IF a >= n - 1 THEN n - 2 ELSE a

pane_resize_width(p, delta) ==
  CASE delta > 0 /\ p.grid_w < MAX_GRID -> [p EXCEPT !.grid_w = @ + 1]
    [] delta < 0 /\ p.grid_w > 1 ->
         [p EXCEPT !.grid_w = @ - 1, !.active_x = Shrunk(@, p.grid_w)]
    [] OTHER -> p

pane_resize_height(p, delta) ==
  CASE delta > 0 /\ p.grid_h < MAX_GRID -> [p EXCEPT !.grid_h = @ + 1]
    [] delta < 0 /\ p.grid_h > 1 ->
         [p EXCEPT !.grid_h = @ - 1, !.active_y = Shrunk(@, p.grid_h)]
    [] OTHER -> p

pane_move_left(p) == [p EXCEPT !.active_x = IF @ > 0 THEN @ - 1 ELSE @]
pane_move_right(p) == [p EXCEPT !.active_x = IF @ + 1 < p.grid_w THEN @ + 1 ELSE @]
pane_move_up(p) == [p EXCEPT !.active_y = IF @ > 0 THEN @ - 1 ELSE @]
pane_move_down(p) == [p EXCEPT !.active_y = IF @ + 1 < p.grid_h THEN @ + 1 ELSE @]

(* The sums of the first spans: where each column (row) begins and where   *)
(* the last one ends.                                                      *)
Sums(spans, n) ==
  LET sum[i \in 0..n] == IF i = 0 THEN 0 ELSE sum[i - 1] + spans[i - 1]
  IN  sum

(* The shares before the last one is corrected: `active' gets half of      *)
(* total, the others equal parts of the rest.  With one column its width   *)
(* is read before it is ever set, and may be any number junk.              *)
Shares(n, active, total, junk) ==
  LET half   == total \div 2
      normal == IF n > 1 THEN (total - half) \div (n - 1) ELSE total
  IN  [i \in 0..(n - 1) |-> CASE i # active           -> normal
                              [] i = active /\ n > 1  -> half
                              [] i = active /\ n <= 1 -> junk]

(* Fault: what the division leaves over is given to nobody. *)
compute_layout_RestLost(n, active, total, junk) == Shares(n, active, total, total)

(* compute_layout for one direction: n columns (rows) of total cells.  The *)
(* last takes what is left over, and there the junk cancels out in the     *)
(* arithmetic of unsigned int.                                             *)
compute_layout(n, active, total, junk) ==
  LET share == Shares(n, active, total, junk)
      sum   == Sums(share, n)[n] % WORD
  IN  [share EXCEPT ![n - 1] = (@ + total - sum) % WORD]

xpos(p, junk) ==
  Sums(compute_layout(p.grid_w, p.active_x, VGA_COLS, junk[1]), p.grid_w)
ypos(p, junk) ==
  Sums(compute_layout(p.grid_h, p.active_y, VGA_ROWS, junk[2]), p.grid_h)

(* The points of the columns xs in the rows ys, one column after another. *)
Points(xs, ys) ==
  [k \in 1..(Len(xs) * Len(ys)) |->
     <<xs[((k - 1) \div Len(ys)) + 1], ys[((k - 1) % Len(ys)) + 1]>>]

DrawAt(con, at, ch) ==
  Then(con, LAMBDA c : console_putc(console_set_cursor(c, at[1], at[2]), ch))

(* The console after each of the first points. *)
Dotted(con, points, ch) ==
  LET after[k \in 0..Len(points)] ==
        IF k = 0 THEN con ELSE DrawAt(after[k - 1], points[k], ch)
  IN  after

DrawPoints(con, points, ch) == Then(con, LAMBDA c : Dotted(c, points, ch)[Len(points)])

(* Fault: the line starts in the column where the last one ended. *)
DrawRow_ColumnKept(con, y) ==
  console_write(console_set_cursor(con, con.cursor_x, y), [x \in 1..VGA_COLS |-> LineHorz])

DrawRow(con, y) ==
  console_write(console_set_cursor(con, 0, y), [x \in 1..VGA_COLS |-> LineHorz])

(* The console after each of the first rows. *)
Lined(con, ys) ==
  LET after[j \in 0..Len(ys)] == IF j = 0 THEN con ELSE DrawRow(after[j - 1], ys[j])
  IN  after

DrawRows(con, ys) == Then(con, LAMBDA c : Lined(c, ys)[Len(ys)])

(* Where the columns (rows) after the first begin: a divider stands there. *)
Dividers(starts, n) == [i \in 1..(n - 1) |-> starts[i]]

AllRows == [y \in 1..VGA_ROWS |-> y - 1]

(* The dividers of the columns, then those of the rows over them, then the *)
(* crossings.                                                              *)
Ruled(con, p, junk) ==
  LET xs == Dividers(xpos(p, junk), p.grid_w)
      ys == Dividers(ypos(p, junk), p.grid_h)
      columns == DrawPoints(con, Points(xs, AllRows), LineVert)
  IN  DrawPoints(DrawRows(columns, ys), Points(xs, ys), LineCross)

(* Fault: the prompt is put on the divider above the active pane. *)
DrawGrid_OnDivider(con, p, junk) ==
  console_set_cursor(Ruled(console_clear(con), p, junk),
                     xpos(p, junk)[p.active_x] + 1, ypos(p, junk)[p.active_y])

(* pane_draw_internal up to the prompt: the grid on a cleared screen, and  *)
(* the cursor in the corner of the active pane.                            *)
DrawGrid(con, p, junk) ==
  console_set_cursor(Ruled(console_clear(con), p, junk),
                     xpos(p, junk)[p.active_x] + 1, ypos(p, junk)[p.active_y] + 1)

pane_draw_no_prompt(con, p, junk) == DrawGrid(con, p, junk)
=============================================================================
