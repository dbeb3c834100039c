-------------------------------- MODULE Keys --------------------------------
(***************************************************************************)
(* The characters keyboard_read_char returns, src/drivers/keyboard/        *)
(* keyboard.h.  A C char is signed in this build: the KEY_ codes           *)
(* 0x80..0x8A are the numbers -128..-118.                                  *)
(***************************************************************************)
EXTENDS Integers

SignedChar(code) == IF code < 128 THEN code ELSE code - 256

NoChar == 0
KEY_UP == SignedChar(128)
KEY_DOWN == SignedChar(129)
KEY_LEFT == SignedChar(130)
KEY_RIGHT == SignedChar(131)
KEY_F1 == SignedChar(132)
KEY_F2 == SignedChar(133)
KEY_F3 == SignedChar(134)
KEY_F4 == SignedChar(135)
KEY_CTRL == SignedChar(136)
KEY_ALT_R == SignedChar(137)
KEY_FN == SignedChar(138)
=============================================================================
