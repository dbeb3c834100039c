----------------------------- MODULE PaneCalls ------------------------------
(***************************************************************************)
(* The panes on the console, driven in any order by the keys of            *)
(* console_poll_input and by the two calls that start and stop the grid.   *)
(***************************************************************************)
EXTENDS Pane

VARIABLES con, pane, prompted

panesVars == <<con, pane, prompted>>

PanesInit ==
  \E junk \in Junk :
    /\ pane = OnePane
    /\ con = pane_draw_no_prompt(console_init, OnePane, junk)
    /\ prompted = FALSE

Redraw(p) ==
  /\ pane' = p
  /\ \E junk \in Junk : con' = console_write(DrawGrid(con, p, junk), Prompt)
  /\ prompted' = TRUE

PanesNext ==
  \/ ~pane.gui_active /\ Redraw(pane_gui_start(pane))
  \/ pane.gui_active /\ Redraw(pane_gui_stop(pane))
  \/ \E delta \in {-1, 1} : Redraw(pane_resize_width(pane, delta))
  \/ \E delta \in {-1, 1} : Redraw(pane_resize_height(pane, delta))
  \/ Redraw(pane_move_left(pane))
  \/ Redraw(pane_move_right(pane))
  \/ Redraw(pane_move_up(pane))
  \/ Redraw(pane_move_down(pane))

PanesSpec == PanesInit /\ [][PanesNext]_panesVars
-----------------------------------------------------------------------------
(* The prompt and a row below the divider fit in every pane that may be    *)
(* the active one, and every other pane has room beside its divider.       *)
Roomy(total) ==
  /\ total < WORD
  /\ total \div 2 >= 2
  /\ total - total \div 2 >= 2 * (MAX_GRID - 1)

(* The layout is checked for the screen of the model and the real one. *)
Sizes == {<<VGA_COLS, VGA_ROWS>>, <<80, 25>>}

ASSUME PaneCallsAssumption ==
  /\ \A size \in Sizes : Roomy(size[1]) /\ Roomy(size[2])
  /\ Len(Prompt) + 1 < VGA_COLS \div 2

Widths == compute_layout(pane.grid_w, pane.active_x, VGA_COLS, 0)
Heights == compute_layout(pane.grid_h, pane.active_y, VGA_ROWS, 0)

Fills(spans, n, active, total) ==
  /\ Sums(spans, n)[n] = total
  /\ \A i \in 0..(n - 1) : spans[i] \in 2..total
  /\ n > 1 => spans[active] \in (total \div 2)..(total \div 2 + MAX_GRID - 2)

(* The columns and the rows fill the screen exactly, whatever the grid,    *)
(* the active pane and the uninitialised words are, and the active one has *)
(* "roughly half" (dynamic_panes.txt): no less than half, no more than     *)
(* half and the remainder of the division.                                 *)
LayoutFillsScreen ==
  \A junk \in Junk, size \in Sizes :
    /\ Fills(compute_layout(pane.grid_w, pane.active_x, size[1], junk[1]),
             pane.grid_w, pane.active_x, size[1])
    /\ Fills(compute_layout(pane.grid_h, pane.active_y, size[2], junk[2]),
             pane.grid_h, pane.active_y, size[2])

(* The cells of the screen that the prompt takes. *)
PromptCells ==
  IF prompted THEN (con.cursor_x - Len(Prompt))..(con.cursor_x - 1) ELSE {}

(* The screen is the grid and nothing else: every divider stands, complete *)
(* and where the layout puts it, although the characters that draw them    *)
(* wrap at the right edge; nothing scrolled.                               *)
ScreenIsGrid ==
  LET xs == {Sums(Widths, pane.grid_w)[i] : i \in 1..(pane.grid_w - 1)}
      ys == {Sums(Heights, pane.grid_h)[j] : j \in 1..(pane.grid_h - 1)}
      Cell(x, y) == CASE x \in xs /\ y \in ys -> CharCell(LineCross)
                      [] x \in xs /\ y \notin ys -> CharCell(LineVert)
                      [] x \notin xs /\ y \in ys -> CharCell(LineHorz)
                      [] OTHER -> Blank
  IN  /\ con.sb_count = 0
      /\ \A y \in Row, x \in Col :
           (y = con.cursor_y /\ x \in PromptCells) \/ con.vga[y][x] = Cell(x, y)

(* "After any resize or focus change the command prompt is redisplayed in  *)
(* the active pane" (dynamic_panes.txt): the whole prompt, and the cell    *)
(* where typing starts, lie inside the pane and off its dividers.          *)
PromptInActivePane ==
  LET left == Sums(Widths, pane.grid_w)[pane.active_x]
      top  == Sums(Heights, pane.grid_h)[pane.active_y]
      first == con.cursor_x - (IF prompted THEN Len(Prompt) ELSE 0)
  IN  /\ left < first /\ con.cursor_x < left + Widths[pane.active_x]
      /\ top < con.cursor_y /\ con.cursor_y < top + Heights[pane.active_y]
      /\ prompted => \A k \in 1..Len(Prompt) :
                       con.vga[con.cursor_y][first + k - 1] = CharCell(Prompt[k])
=============================================================================
