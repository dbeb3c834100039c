-------------------------------- MODULE Hmi ---------------------------------
(***************************************************************************)
(* The text interface as a whole: console_poll_input takes a key from the  *)
(* keyboard and either acts on it (scrollback and panes) or stores it in   *)
(* the input ring; shell_task takes a key from the ring and edits, or runs *)
(* a command.  Both change the same screen.  They run in different tasks,  *)
(* so that any number of polls may fall between a key's arrival in the     *)
(* ring and the shell's reading it.                                        *)
(***************************************************************************)
EXTENDS Shell

CONSTANTS
  INPUT_BUF_SIZE,
  Key,        \* the characters keyboard_read_char returns, NoChar not included
  MAX_KEYS    \* bound of the model: keys pressed in a run

ASSUME HmiAssumption ==
  /\ MAX_KEYS \in Nat
  /\ INPUT_BUF_SIZE \in Nat \ {0, 1}
  /\ Key \subseteq (-128..127) \ {NoChar}

VARIABLES
  ui,      \* console, panes and shell
  ctrl,    \* console_poll_input's static flag
  input_buf, input_head, input_tail, got,  \* the input ring
  keys     \* the number of keys pressed

ringVars == <<input_buf, input_head, input_tail, got>>
vars == <<ui, ctrl, ringVars, keys>>

DEL == 127

Ring == INSTANCE InputRing WITH
          Char <- Key \cup {Backspace}, NUL <- NoChar, BS <- Backspace

Init ==
  /\ \E junk \in Junk : ui = ReadyUI(junk)
  /\ ctrl = FALSE
  /\ Ring!Init
  /\ keys = 0

(* The branches of console_poll_input for a key c. *)
CtrlKey(c) ==
  /\ c = KEY_CTRL
  /\ ctrl' = TRUE
  /\ UNCHANGED <<ui, ringVars>>

Scrolls(c) == c \in {KEY_UP, KEY_DOWN} /\ (ctrl \/ ui.con.sb_view # 0)

ScrollKey(c) ==
  /\ Scrolls(c)
  /\ ui' = [ui EXCEPT !.con = ScrollView(@, c = KEY_UP)]
  /\ ctrl' = FALSE
  /\ UNCHANGED ringVars

PaneKeys == {KEY_ALT_R, KEY_FN, KEY_F1, KEY_F2, KEY_F3, KEY_F4}

(* The grid that a pane key asks for. *)
NewGrid(c) ==
  LET p == ui.pane
  IN  CASE c = KEY_ALT_R -> IF ctrl THEN pane_move_up(p) ELSE pane_move_left(p)
        [] c = KEY_FN    -> IF ctrl THEN pane_move_down(p) ELSE pane_move_right(p)
        [] c = KEY_F1    -> pane_resize_width(p, -1)
        [] c = KEY_F2    -> pane_resize_width(p, 1)
        [] c = KEY_F3    -> pane_resize_height(p, -1)
        [] c = KEY_F4    -> pane_resize_height(p, 1)

(* The function keys leave the latch alone. *)
PaneKey(c) ==
  /\ c \in PaneKeys
  /\ \E junk \in Junk : ui' = pane_draw(ui, NewGrid(c), junk)
  /\ ctrl' = IF c \in {KEY_ALT_R, KEY_FN} THEN FALSE ELSE ctrl
  /\ UNCHANGED ringVars

OrdinaryKey(c) ==
  /\ c \notin PaneKeys \cup {KEY_CTRL}
  /\ ~Scrolls(c)
  /\ Ring!StoreKey(c)
  /\ UNCHANGED <<ui, ctrl, got>>

console_poll_input(c) ==
  /\ ~ui.halted
  /\ keys < MAX_KEYS
  /\ keys' = keys + 1
  /\ CtrlKey(c) \/ ScrollKey(c) \/ PaneKey(c) \/ OrdinaryKey(c)

(* One iteration of shell_task up to its sched_yield. *)
shell_task ==
  /\ ~ui.halted
  /\ Ring!console_getc
  /\ \/ got' = NoChar /\ UNCHANGED ui
     \/ got' # NoChar /\ \E junk \in Junk : ui' = HandleKey(ui, got', junk)
  /\ UNCHANGED <<ctrl, keys>>

Next == shell_task \/ \E c \in Key : console_poll_input(c)

Spec == Init /\ [][Next]_vars
-----------------------------------------------------------------------------
sh == ui.sh

(* Type correctness: every index of the shell, the panes and the ring is   *)
(* in its array, with room for the zero at the end of the command.         *)
TypeOK ==
  /\ sh.cmd_len \in 0..(CMD_BUF_SIZE - 1)
  /\ sh.cmd_pos \in 0..sh.cmd_len
  /\ sh.history_count \in 0..HISTORY_LEN
  /\ sh.history_index \in 0..(HISTORY_LEN - 1)
  /\ sh.history_nav \in -1..(sh.history_count - 1)
  /\ sh.prompt_x \in Col /\ sh.prompt_y \in Row
  /\ ui.pane.grid_w \in 1..MAX_GRID /\ ui.pane.active_x \in 0..(ui.pane.grid_w - 1)
  /\ ui.pane.grid_h \in 1..MAX_GRID /\ ui.pane.active_y \in 0..(ui.pane.grid_h - 1)
  /\ Ring!TypeOK

Editor == INSTANCE LineEditor WITH
            MaxLine <- CMD_BUF_SIZE - 1, MaxHistory <- HISTORY_LEN,
            Letter <- Key,
            before <- SubSeq(LineOf(sh), 1, sh.cmd_pos),
            after <- SubSeq(LineOf(sh), sh.cmd_pos + 1, sh.cmd_len),
            recent <- [i \in 1..sh.history_count |-> history_get(sh, i - 1)],
            browse <- sh.history_nav + 1

(* The shell is a line editor with a history: shifting cmd_buf inserts and *)
(* erases at the cursor and nowhere else, a full buffer takes no more, and *)
(* the ring of commands gives back the latest ones in order, wherever its  *)
(* index wraps and whatever else happens on the screen.                    *)
ImplementsEditor == Editor!Spec

(* A cell of the screen, the rows counted through, and which one is k      *)
(* characters after the prompt.                                            *)
Cell(k) == ui.con.screen[k \div VGA_COLS][k % VGA_COLS]
At(k) == sh.prompt_y * VGA_COLS + sh.prompt_x + k

(* What is on the screen is the line that Enter would run: it stands right *)
(* after the prompt, running on into the next row if it has to, and the    *)
(* cursor is where the next character goes.  interactive_shell.txt: the    *)
(* task "echoes characters to the screen while building an input buffer".  *)
ScreenShowsLine ==
  ~ui.halted =>
    /\ \A i \in 1..sh.cmd_len :
         /\ At(i - 1) < VGA_ROWS * VGA_COLS
         /\ Cell(At(i - 1)) = CharCell(LineOf(sh)[i])
    /\ ui.con.cursor_y * VGA_COLS + ui.con.cursor_x = At(sh.cmd_pos)

(* Nothing of a longer line that was there before is left behind it: the   *)
(* cells that the line may still grow into are blank.                      *)
NothingLeftBehind ==
  ~ui.halted =>
    \A x \in (sh.prompt_x + sh.cmd_len)..(sh.prompt_x + CMD_BUF_SIZE - 2) :
      x \in Col => ui.con.screen[sh.prompt_y][x] \in
                     {Blank, CharCell(LineVert), CharCell(LineHorz), CharCell(LineCross)}
=============================================================================
