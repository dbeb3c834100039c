------------------------------- MODULE MCHmi --------------------------------
(***************************************************************************)
(* Small screens, a prompt of one character, a history of two commands,    *)
(* and a parser that knows "a" (clear), "g" (gui start) and "ag", one of   *)
(* the commands that stop the machine.                                     *)
(***************************************************************************)
EXTENDS Hmi

A == 97
G == 103

ShortPrompt == <<62>>
KnownCommands == [k \in {"clear", "gui start", "stop"} |->
                    CASE k = "clear" -> <<A>> [] k = "gui start" -> <<G>>
                      [] k = "stop" -> <<A, G>>]
Replies == [k \in {"boot", "stop", "unknown"} |->
              CASE k = "boot" -> <<Newline>> [] k = "stop" -> <<33, Newline>>
                [] k = "unknown" -> <<63, Newline>>]
SomeJunk == {<<0, 0>>, <<WORD - 1, WORD - 1>>}

TypingKeys == {A, G, Newline, Backspace, KEY_LEFT, KEY_UP, KEY_DOWN}
SomeKeys == TypingKeys \cup {KEY_CTRL, KEY_FN, KEY_F2}
=============================================================================
