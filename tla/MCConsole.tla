------------------------------ MODULE MCConsole -----------------------------
(* The console with a prompt of one character. *)
EXTENDS ConsoleCalls

ShortPrompt == <<97>>
=============================================================================
