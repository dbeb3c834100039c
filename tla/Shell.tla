------------------------------- MODULE Shell --------------------------------
(***************************************************************************)
(* The interactive shell, src/kernel/console/shell.c, and the command      *)
(* parser it calls, cmd.c: line editing in cmd_buf, the ring of past       *)
(* commands, and what both write to the console.                           *)
(*                                                                         *)
(* A user interface `ui' is a record of the console, the pane grid, the    *)
(* shell's own variables and whether a command has stopped the machine;    *)
(* the C functions are operators from record to record.  A command line is *)
(* a sequence of characters; Command gives the lines that the parser knows *)
(* and Reply what the commands that only print write.                      *)
(***************************************************************************)
EXTENDS Pane, Keys

CONSTANTS
  CMD_BUF_SIZE, HISTORY_LEN,  \* 128 and 8 in the code
  Command,  \* the lines "help", "clear", "info", "gui start", "exit", ...
  Reply     \* what is printed for a command, or for an unknown one

ASSUME ShellAssumption ==
  /\ CMD_BUF_SIZE \in Nat \ {0}
  /\ HISTORY_LEN \in Nat \ {0}
  /\ DOMAIN Command \subseteq {"help", "info", "clear", "gui start", "stop"}
  /\ \A what \in {"boot", "unknown"} \cup (DOMAIN Command \cap {"help", "info", "stop"}) :
       what \in DOMAIN Reply /\ Reply[what] \in Seq(0..127)

ShellInit ==
  [cmd_buf |-> [i \in 0..(CMD_BUF_SIZE - 1) |-> NoChar],
   cmd_len |-> 0, cmd_pos |-> 0, disp_len |-> 0, prompt_x |-> 0, prompt_y |-> 0,
   history |-> [i \in 0..(HISTORY_LEN - 1) |-> <<>>],
   history_count |-> 0, history_index |-> 0, history_nav |-> -1]

(* The string in cmd_buf. *)
LineOf(sh) == [i \in 1..sh.cmd_len |-> sh.cmd_buf[i - 1]]

history_add(sh, cmd) ==
  [sh EXCEPT !.history[sh.history_index] = cmd,
             !.history_index = (@ + 1) % HISTORY_LEN,
             !.history_count = IF @ < HISTORY_LEN THEN @ + 1 ELSE @]

(* The offset-th command before the latest. *)
history_get(sh, offset) ==
  LET idx == sh.history_index - 1 - offset
  IN  IF offset < 0 \/ offset >= sh.history_count THEN <<>>
      ELSE sh.history[IF idx < 0 THEN idx + HISTORY_LEN ELSE idx]

(* Fault: the line that was shown before is not wiped first. *)
redraw_line_NotWiped(ui) ==
  LET sh    == ui.sh
      typed == console_write(console_set_cursor(ui.con, sh.prompt_x, sh.prompt_y), LineOf(sh))
  IN  [ui EXCEPT
         !.con = console_set_cursor(typed, sh.prompt_x + sh.cmd_pos, sh.prompt_y),
         !.sh.disp_len = sh.cmd_len]

(* Back to the prompt, the old line wiped, the new one written, the cursor *)
(* set into it.  The row of the prompt is the one where it was shown.      *)
redraw_line(ui) ==
  LET sh    == ui.sh
      Home(con) == console_set_cursor(con, sh.prompt_x, sh.prompt_y)
      wiped == console_write(Home(ui.con), [i \in 1..sh.disp_len |-> Space])
      typed == console_write(Home(wiped), LineOf(sh))
  IN  [ui EXCEPT
         !.con = console_set_cursor(typed, sh.prompt_x + sh.cmd_pos, sh.prompt_y),
         !.sh.disp_len = sh.cmd_len]

shell_show_prompt(ui) ==
  LET con == console_write(ui.con, Prompt)
  IN  [ui EXCEPT !.con = con,
                 !.sh.cmd_len = 0, !.sh.cmd_pos = 0, !.sh.disp_len = 0,
                 !.sh.prompt_x = con.cursor_x, !.sh.prompt_y = con.cursor_y]

(* Fault: the shell is not told that its line is gone. *)
pane_draw_LineKept(ui, p, junk) ==
  [ui EXCEPT !.pane = p, !.con = console_write(DrawGrid(ui.con, p, junk), Prompt)]

pane_draw(ui, p, junk) ==
  shell_show_prompt([ui EXCEPT !.pane = p, !.con = DrawGrid(ui.con, p, junk)])

(* The end of kernel_init: what was written before it, then the prompt. *)
ReadyUI(junk) ==
  shell_show_prompt(
    [con |-> console_write(pane_draw_no_prompt(console_init, OnePane, junk), Reply["boot"]),
     pane |-> OnePane, sh |-> ShellInit, halted |-> FALSE])

Answer(ui, what) == [ui EXCEPT !.con = console_write(@, Reply[what])]

(* exit, restart and shutdown print and never return. *)
console_execute_command(ui, cmd, junk) ==
  LET Is(name) == name \in DOMAIN Command /\ cmd = Command[name]
  IN  CASE Is("help")  -> Answer(ui, "help")
        [] Is("info")  -> Answer(ui, "info")
        [] Is("clear") -> [ui EXCEPT !.con = console_clear(@)]
        [] Is("stop")  -> [Answer(ui, "stop") EXCEPT !.halted = TRUE]
        [] Is("gui start") ->
             IF ui.pane.gui_active THEN ui ELSE pane_draw(ui, pane_gui_start(ui.pane), junk)
        [] OTHER -> IF cmd = <<>> THEN ui ELSE Answer(ui, "unknown")

(* Enter. *)
EnterKey(ui, junk) ==
  LET sh   == ui.sh
      cmd  == LineOf(sh)
      con  == console_putc(console_set_cursor(ui.con, sh.prompt_x + sh.disp_len, sh.prompt_y),
                           Newline)
      kept == IF sh.cmd_len > 0 THEN history_add(sh, cmd) ELSE sh
      done == console_execute_command(
                [ui EXCEPT !.con = con,
                           !.sh = [kept EXCEPT !.cmd_buf[sh.cmd_len] = NoChar,
                                               !.history_nav = -1]],
                cmd, junk)
  IN  IF done.halted THEN done ELSE shell_show_prompt(done)

BackspaceKey(ui) ==
  LET sh == ui.sh
      shifted == [i \in DOMAIN sh.cmd_buf |->
                    IF sh.cmd_pos - 1 <= i /\ i < sh.cmd_len - 1
                    THEN sh.cmd_buf[i + 1] ELSE sh.cmd_buf[i]]
  IN  IF sh.cmd_pos = 0 THEN ui
      ELSE redraw_line([ui EXCEPT !.sh.cmd_buf = shifted,
                                  !.sh.cmd_len = @ - 1, !.sh.cmd_pos = @ - 1])

(* The left and right arrows. *)
MoveTo(ui, pos) ==
  [ui EXCEPT !.sh.cmd_pos = pos,
             !.con = console_set_cursor(@, ui.sh.prompt_x + pos, ui.sh.prompt_y)]

LeftKey(ui) == IF ui.sh.cmd_pos > 0 THEN MoveTo(ui, ui.sh.cmd_pos - 1) ELSE ui

RightKey(ui) == IF ui.sh.cmd_pos < ui.sh.cmd_len THEN MoveTo(ui, ui.sh.cmd_pos + 1) ELSE ui

(* The line replaced by the command at position nav of the history. *)
Recall(ui, nav) ==
  LET cmd == history_get(ui.sh, nav)
  IN  redraw_line([ui EXCEPT
        !.sh.history_nav = nav,
        !.sh.cmd_buf = [i \in DOMAIN @ |-> IF i < Len(cmd) THEN cmd[i + 1] ELSE @[i]],
        !.sh.cmd_len = Len(cmd), !.sh.cmd_pos = Len(cmd)])

(* Fault: goes on past the oldest command. *)
UpKey_OneTooFar(ui) ==
  IF ui.sh.history_nav < ui.sh.history_count THEN Recall(ui, ui.sh.history_nav + 1) ELSE ui

UpKey(ui) ==
  IF ui.sh.history_nav < ui.sh.history_count - 1 THEN Recall(ui, ui.sh.history_nav + 1) ELSE ui

DownKey(ui) ==
  IF ui.sh.history_nav >= 0 THEN Recall(ui, ui.sh.history_nav - 1) ELSE ui

(* Fault: the rest of the line is overwritten, not moved. *)
InsertKey_Overwrite(ui, c) ==
  LET sh == ui.sh
  IN  IF sh.cmd_len >= CMD_BUF_SIZE - 1 THEN ui
      ELSE redraw_line([ui EXCEPT !.sh.cmd_buf[sh.cmd_pos] = c, !.sh.cmd_len = @ + 1,
                                  !.sh.cmd_pos = @ + 1, !.sh.history_nav = -1])

(* Any other character is inserted at the cursor while there is room. *)
InsertKey(ui, c) ==
  LET sh == ui.sh
      shifted == [i \in DOMAIN sh.cmd_buf |->
                    CASE i = sh.cmd_pos -> c
                      [] sh.cmd_pos < i /\ i <= sh.cmd_len -> sh.cmd_buf[i - 1]
                      [] OTHER -> sh.cmd_buf[i]]
      typed == IF sh.cmd_len < CMD_BUF_SIZE - 1
               THEN redraw_line([ui EXCEPT !.sh.cmd_buf = shifted,
                                           !.sh.cmd_len = @ + 1, !.sh.cmd_pos = @ + 1])
               ELSE ui
  IN  [typed EXCEPT !.sh.history_nav = -1]

(* What shell_task does with one character. *)
HandleKey(ui, c, junk) ==
  CASE c = Newline   -> EnterKey(ui, junk)
    [] c = Backspace -> BackspaceKey(ui)
    [] c = KEY_LEFT  -> LeftKey(ui)
    [] c = KEY_RIGHT -> RightKey(ui)
    [] c = KEY_UP    -> UpKey(ui)
    [] c = KEY_DOWN  -> DownKey(ui)
    [] OTHER         -> InsertKey(ui, c)
=============================================================================
