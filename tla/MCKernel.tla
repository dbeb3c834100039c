------------------------------ MODULE MCKernel ------------------------------
(***************************************************************************)
(* A keyboard with two letters, backspace, the up arrow and volume up.     *)
(* The last two are prefixed; the second byte of volume up is, without its *)
(* prefix, the letter b.                                                   *)
(***************************************************************************)
EXTENDS Kernel

Keys == {"a", "b", "backspace", "up", "volume up"}

MakeCodes ==
  [k \in Keys |-> CASE k = "a" -> <<30>> [] k = "b" -> <<48>> [] k = "backspace" -> <<14>>
                    [] k = "up" -> <<224, 72>> [] k = "volume up" -> <<224, 48>>]

BreakCodes ==
  [k \in Keys |-> [i \in 1..Len(MakeCodes[k]) |->
                     IF MakeCodes[k][i] = 224 THEN 224 ELSE MakeCodes[k][i] + 128]]

(* The entries of the table that these keys can reach. *)
Table ==
  [sc \in 0..127 |-> CASE sc = 30 -> 97 [] sc = 48 -> 98 [] sc = 14 -> 8 [] OTHER -> 0]
-----------------------------------------------------------------------------
(* Characters of two by two points. *)
Font == [c \in 32..127 |-> CASE c = 97 -> {<<0, 0>>, <<0, 1>>, <<1, 1>>}
                            [] c = 98 -> {<<0, 0>>, <<1, 0>>}
                            [] OTHER -> {}]
-----------------------------------------------------------------------------
(* Every byte the keyboard sends is read in the end: one task in three     *)
(* polls the keyboard, one byte at a time.                                 *)
KeyboardIsDrained == (kbd # <<>>) ~> (kbd = <<>>)

(* Keys reach the shell, as input_handling.txt says: "The kernel's idle    *)
(* task calls console_poll_input() on every loop iteration to ensure       *)
(* keystrokes are collected".                                              *)
TypedKeysReachShell == (pressed # <<>> /\ Head(pressed) = "a") ~> (got # NoChar)
=============================================================================
