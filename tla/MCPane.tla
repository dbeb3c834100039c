------------------------------- MODULE MCPane -------------------------------
(* The console of PaneCalls with a short prompt. *)
EXTENDS PaneCalls

ShortPrompt == <<62, 32>>  \* the end of the real one, "> "

(* Nothing, the size of the screen, and the largest value. *)
JunkValues == {<<0, 0>>, <<VGA_COLS, VGA_ROWS>>, <<WORD - 1, WORD - 1>>}
=============================================================================
