------------------------------ MODULE Keyboard ------------------------------
(***************************************************************************)
(* The PS/2 keyboard driver, src/drivers/keyboard/keyboard.c.  Scancodes   *)
(* are the bytes of set 1.                                                 *)
(***************************************************************************)
EXTENDS Keys, Sequences

CONSTANT scancode_ascii  \* the table: [0..127 -> 0..127], 0 where it has no entry

ASSUME KeyboardAssumption == scancode_ascii \in [0..127 -> 0..127]

VARIABLES
  kbd,      \* external: the scancodes the controller holds for port 0x60
  have_e0   \* the driver saw the prefix 0xE0

Prefix == 224  \* 0xE0

handle_extended(sc) ==
  CASE sc = 72 -> KEY_UP
    [] sc = 80 -> KEY_DOWN
    [] sc = 75 -> KEY_LEFT
    [] sc = 77 -> KEY_RIGHT
    [] sc = 56 -> KEY_ALT_R
    [] sc = 93 -> KEY_FN
    [] OTHER   -> NoChar

(* A scancode without prefix; the high bit marks the release of a key. *)
handle_plain(sc) ==
  CASE sc >= 128 -> NoChar
    [] sc = 59   -> KEY_F1
    [] sc = 60   -> KEY_F2
    [] sc = 61   -> KEY_F3
    [] sc = 62   -> KEY_F4
    [] sc = 29   -> KEY_CTRL
    [] sc = 56   -> KEY_ALT_R
    [] OTHER     -> scancode_ascii[sc]

(* The value that keyboard_read_char returns ... *)
CharRead ==
  IF kbd = <<>> \/ Head(kbd) = Prefix THEN NoChar
  ELSE IF have_e0 THEN handle_extended(Head(kbd)) ELSE handle_plain(Head(kbd))

(* Fault: the prefix is not remembered until the next call. *)
keyboard_read_char_PrefixLost ==
  /\ kbd' = IF kbd = <<>> THEN kbd ELSE Tail(kbd)
  /\ have_e0' = FALSE

(* ... and what it does: one byte of the controller, if there is one, and  *)
(* the prefix flag.                                                        *)
keyboard_read_char ==
  \/ /\ kbd = <<>>
     /\ UNCHANGED <<kbd, have_e0>>
  \/ /\ kbd # <<>>
     /\ kbd' = Tail(kbd)
     /\ have_e0' = (Head(kbd) = Prefix)
=============================================================================
