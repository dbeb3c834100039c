------------------------------ MODULE Terminal ------------------------------
(***************************************************************************)
(* What the console promises its user: a roll of paper.  The lines that    *)
(* scrolled off the screen, the newest Depth of them, stand above the      *)
(* lines of the screen; the display is a window of Height lines on the     *)
(* roll, and any output brings the window back to the bottom.              *)
(***************************************************************************)
EXTENDS Integers, Sequences

CONSTANTS Height, Depth, BlankLine

VARIABLES
  history,  \* lines that left the screen, oldest first
  screen,   \* the Height lines that can be written
  offset,   \* how far the window is above the bottom
  display   \* the lines that are seen

vars == <<history, screen, offset, display>>

LastOf(n, s) == IF Len(s) > n THEN SubSeq(s, Len(s) - n + 1, Len(s)) ELSE s

Window ==
  LET paper == history \o screen
  IN  SubSeq(paper, Len(history) - offset + 1, Len(history) - offset + Height)

Blanked == history = <<>> /\ screen = [i \in 1..Height |-> BlankLine] /\ offset = 0

Init == Blanked /\ display = Window

Clear == Blanked'

(* Output that stays on the screen leaves the history alone. *)
Write ==
  /\ Len(screen') = Height
  /\ offset' = 0
  /\ UNCHANGED history

(* Output that does not: the top line joins the history, the lines below   *)
(* move up, the last of them with what was just written to it.             *)
Advance ==
  /\ history' = LastOf(Depth, Append(history, screen[1]))
  /\ Len(screen') = Height
  /\ \A i \in 1..(Height - 2) : screen'[i] = screen[i + 1]
  /\ screen'[Height] = BlankLine
  /\ offset' = 0

Browse ==
  /\ offset' \in {offset - 1, offset + 1} \cap 0..Len(history)
  /\ UNCHANGED <<history, screen>>

Next == (Clear \/ Write \/ Advance \/ Browse) /\ display' = Window'

Spec == Init /\ [][Next]_vars
=============================================================================
