----------------------------- MODULE LineEditor -----------------------------
(***************************************************************************)
(* What the shell promises whoever types: a line with a cursor in it, and  *)
(* the latest MaxHistory commands, which the arrow keys bring back.        *)
(***************************************************************************)
EXTENDS Integers, Sequences

CONSTANTS MaxLine, MaxHistory, Letter

VARIABLES
  before, after,  \* the line on either side of the cursor
  recent,         \* the commands entered, newest first
  browse          \* how many steps back in recent; 0 when not browsing

vars == <<before, after, recent, browse>>

Init == before = <<>> /\ after = <<>> /\ recent = <<>> /\ browse = 0

Last(s) == s[Len(s)]
Front(s) == SubSeq(s, 1, Len(s) - 1)

Type ==
  /\ browse' = 0
  /\ \/ /\ Len(before) + Len(after) < MaxLine
        /\ \E c \in Letter : before' = Append(before, c)
     \/ /\ Len(before) + Len(after) = MaxLine
        /\ UNCHANGED before
  /\ UNCHANGED <<after, recent>>

Erase ==
  /\ before # <<>>
  /\ before' = Front(before)
  /\ UNCHANGED <<after, recent, browse>>

Left ==
  /\ before # <<>>
  /\ before' = Front(before)
  /\ after' = <<Last(before)>> \o after
  /\ UNCHANGED <<recent, browse>>

Right ==
  /\ after # <<>>
  /\ before' = Append(before, Head(after))
  /\ after' = Tail(after)
  /\ UNCHANGED <<recent, browse>>

(* One command back, or forward to the one after it and in the end to an   *)
(* empty line.                                                             *)
Browse(n) ==
  /\ n \in 0..Len(recent)
  /\ browse' = n
  /\ before' = IF n = 0 THEN <<>> ELSE recent[n]
  /\ after' = <<>>
  /\ UNCHANGED recent

(* The line is run and a new one begins, unless it stops the machine. *)
Enter ==
  LET line == before \o after
      all  == <<line>> \o recent
  IN  /\ recent' = CASE line = <<>>                               -> recent
                     [] line # <<>> /\ Len(all) <= MaxHistory -> all
                     [] OTHER                                    -> Front(all)
      /\ browse' = 0
      /\ \/ before' = <<>> /\ after' = <<>>
         \/ UNCHANGED <<before, after>>

(* A redraw of the panes starts a new line. *)
Discard == before' = <<>> /\ after' = <<>> /\ UNCHANGED <<recent, browse>>

Next ==
  \/ Type \/ Erase \/ Left \/ Right
  \/ Browse(browse + 1) \/ Browse(browse - 1)
  \/ Enter \/ Discard

Spec == Init /\ [][Next]_vars
=============================================================================
