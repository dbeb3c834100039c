------------------------------- MODULE Kernel -------------------------------
(***************************************************************************)
(* The running kernel: the three tasks that kmain starts (src/kernel/      *)
(* main.c), the keyboard they share, the console's input ring and the line *)
(* of text that src/gui/gui.c keeps and draws.                             *)
(*                                                                         *)
(* One action is one iteration of a task's endless loop.  It ends with     *)
(* sched_yield, which gives the CPU to the next task as RoundRobin says;   *)
(* the scheduler implements that.  Between two yields nothing else runs:   *)
(* the kernel has no interrupt handler.                                    *)
(***************************************************************************)
EXTENDS Keyboard, Framebuffer

CONSTANTS
  INPUT_BUF_SIZE,  \* the console's ring
  GUI_BUF_SIZE,    \* 128 in the code
  Key,             \* the keys of the keyboard that the user presses
  Make, Break,     \* the scancodes a key sends when pressed and when released
  KBD_SIZE,        \* bound of the model: bytes the controller can hold
  MAX_PRESSES      \* bound of the model: keys pressed in a run

(* The keys have one code, with or without the prefix; a release has the   *)
(* high bit set (96 is left out, because its release would be the prefix). *)
(* A full line fits on the screen: 127 characters of 8 points in the code. *)
ASSUME KernelAssumption ==
  /\ GUI_BUF_SIZE \in Nat \ {0}
  /\ KBD_SIZE \in Nat
  /\ MAX_PRESSES \in Nat
  /\ \A k \in Key : \E sc \in (0..127) \ {96} :
       \/ Make[k] = <<sc>> /\ Break[k] = <<sc + 128>>
       \/ Make[k] = <<Prefix, sc>> /\ Break[k] = <<Prefix, sc + 128>>
  /\ (GUI_BUF_SIZE - 1) * GLYPH <= FB_WIDTH

VARIABLES
  ready, turn,  \* the run queue and the position of the running task
  input_buf, input_head, input_tail, got,  \* the console's ring
  text,       \* gui.c's input_buf up to input_len
  fb,         \* the picture in the framebuffer
  pressed,    \* history: the keys pressed, in order
  typed,      \* history: the line that they should leave
  held        \* the keys that are down

ringVars == <<input_buf, input_head, input_tail, got>>
guiVars == <<text, fb>>
vars == <<kbd, have_e0, ready, turn, ringVars, guiVars, pressed, typed, held>>

(* The tasks kmain creates and adds, in this order. *)
Tasks == <<"idle", "shell", "gui">>

CPU == INSTANCE RoundRobin

Backspace == 8

Ring == INSTANCE InputRing WITH
          Char <- (-128..127) \ {NoChar}, NUL <- NoChar, BS <- Backspace, DEL <- 127

Init ==
  /\ kbd = <<>>
  /\ have_e0 = FALSE
  /\ CPU!Init
  /\ Ring!Init
  /\ text = <<>>
  /\ fb = redraw(fb_clear(White), <<>>)  \* gui_init
  /\ pressed = <<>>
  /\ typed = <<>>
  /\ held = {}

(* kmain after kernel_init: it adds the tasks and starts the first. *)
kmain ==
  /\ turn = 0
  /\ \/ /\ Len(ready) < Len(Tasks)
        /\ ready' = Append(ready, Tasks[Len(ready) + 1])
        /\ UNCHANGED turn
     \/ /\ Len(ready) = Len(Tasks)
        /\ CPU!Begin
  /\ UNCHANGED <<kbd, have_e0, ringVars, guiVars, pressed, typed, held>>

Running(task) == turn # 0 /\ ready[turn] = task

(* Fault: the idle task does not yield. *)
idle_task_NoYield ==
  /\ Running("idle")
  /\ UNCHANGED <<ready, turn, kbd, have_e0, ringVars, guiVars, pressed, typed, held>>

idle_task ==
  /\ Running("idle")
  /\ CPU!Pass
  /\ UNCHANGED <<kbd, have_e0, ringVars, guiVars, pressed, typed, held>>

(* What the shell does with a character is not part of this module: no     *)
(* character ever reaches it here.                                         *)
shell_task ==
  /\ Running("shell")
  /\ Ring!console_getc
  /\ CPU!Pass
  /\ UNCHANGED <<kbd, have_e0, guiVars, pressed, typed, held>>

(* Fault: no room is kept for the final zero. *)
gui_handle_key_Full(line, c) ==
  IF c = Backspace
  THEN IF line = <<>> THEN line ELSE SubSeq(line, 1, Len(line) - 1)
  ELSE IF c >= 32 /\ Len(line) < GUI_BUF_SIZE THEN Append(line, c) ELSE line

(* Backspace shortens the line; a printable character extends it while     *)
(* there is room for the final zero; any other code, the negative KEY_     *)
(* codes included, changes nothing.  The line is drawn again in any case.  *)
gui_handle_key(line, c) ==
  IF c = Backspace
  THEN IF line = <<>> THEN line ELSE SubSeq(line, 1, Len(line) - 1)
  ELSE IF c >= 32 /\ Len(line) < GUI_BUF_SIZE - 1 THEN Append(line, c) ELSE line

gui_task ==
  /\ Running("gui")
  /\ keyboard_read_char
  /\ \/ CharRead = NoChar /\ UNCHANGED guiVars
     \/ /\ CharRead # NoChar
        /\ text' = gui_handle_key(text, CharRead)
        /\ fb' = redraw(fb, text')
  /\ CPU!Pass
  /\ UNCHANGED <<ringVars, pressed, typed, held>>

(* What a user expects of a key: the character of its entry in the table   *)
(* if that is printable or backspace.  The keys that the driver takes      *)
(* apart and the prefixed keys have no character.                          *)
Meaning(k) ==
  LET sc == Make[k][1]
  IN  IF /\ Len(Make[k]) = 1
         /\ sc \notin {29, 56, 59, 60, 61, 62}
         /\ scancode_ascii[sc] \in Printable \cup {Backspace}
      THEN scancode_ascii[sc] ELSE NoChar

(* What a user expects of a line, on which the buffer is the limit. *)
TypeOn(line, c) ==
  CASE c \in Printable -> IF Len(line) < GUI_BUF_SIZE - 1 THEN Append(line, c) ELSE line
    [] c = Backspace   -> IF line = <<>> THEN line ELSE SubSeq(line, 1, Len(line) - 1)
    [] OTHER           -> line

(* The user.  A key that is held down repeats.  The controller takes the   *)
(* bytes of a key all or none.                                             *)
PressKey(k) ==
  /\ Len(pressed) < MAX_PRESSES
  /\ Len(kbd) + Len(Make[k]) <= KBD_SIZE
  /\ kbd' = kbd \o Make[k]
  /\ pressed' = Append(pressed, k)
  /\ typed' = TypeOn(typed, Meaning(k))
  /\ held' = held \cup {k}
  /\ UNCHANGED <<have_e0, ready, turn, ringVars, guiVars>>

ReleaseKey(k) ==
  /\ k \in held
  /\ Len(kbd) + Len(Break[k]) <= KBD_SIZE
  /\ kbd' = kbd \o Break[k]
  /\ held' = held \ {k}
  /\ UNCHANGED <<have_e0, ready, turn, ringVars, guiVars, pressed, typed>>

CPUStep == kmain \/ idle_task \/ shell_task \/ gui_task

Next == CPUStep \/ \E k \in Key : PressKey(k) \/ ReleaseKey(k)

(* The processor never stops: kmain or some task always takes its      *)
(* next step.  Nothing is assumed of the user.                             *)
Spec == Init /\ [][Next]_vars /\ WF_vars(CPUStep)
-----------------------------------------------------------------------------
Byte == 0..255

(* Type correctness; the GUI's line leaves room for its final zero. *)
TypeOK ==
  /\ kbd \in Seq(Byte) /\ Len(kbd) <= KBD_SIZE
  /\ have_e0 \in BOOLEAN
  /\ turn \in 0..Len(ready) /\ Len(ready) <= Len(Tasks)
  /\ text \in Seq(Printable) /\ Len(text) <= GUI_BUF_SIZE - 1
  /\ typed \in Seq(Printable)
  /\ pressed \in Seq(Key)
  /\ held \subseteq Key

(* Once the controller is empty the GUI shows what was typed: no prefix,   *)
(* no release code and no key it does not know adds, drops or alters a     *)
(* character, however the bytes of the keys fall between the polls.        *)
LineIsWhatWasTyped == kbd = <<>> => text = typed

(* The picture is that of the line and of nothing else, whatever was typed *)
(* and erased before: a full buffer still fits between the edges, the line *)
(* is in the middle to within one point, each character is in its own cell *)
(* and every other point of the screen is white.                           *)
PictureShowsLine ==
  \E left \in 0..FB_WIDTH :
    LET right == FB_WIDTH - left - GLYPH * Len(text)
        top == baseline - GLYPH
        Cell(x) == (x - left) \div GLYPH + 1
    IN  /\ right >= 0 /\ left - right \in -1..1
        /\ \A x \in 0..(FB_WIDTH - 1), y \in 0..(FB_HEIGHT - 1) :
             fb[WordAt(x, y)] = Black <=>
               /\ Cell(x) \in 1..Len(text)
               /\ <<y - top, (x - left) % GLYPH>> \in font8x8_basic[text[Cell(x)]]
=============================================================================
