----------------------------- MODULE RoundRobin -----------------------------
(***************************************************************************)
(* What the scheduler promises: tasks that have been made ready take the   *)
(* CPU in the order they were added, over and over, and none is skipped.   *)
(***************************************************************************)
EXTENDS Integers, Sequences

VARIABLES
  ready,  \* the ready tasks, in the order they were added
  turn    \* position in ready of the running task; 0 before the first one

vars == <<ready, turn>>

Init == ready = <<>> /\ turn = 0

TasksOf(s) == {s[i] : i \in 1..Len(s)}

(* A task that is not ready yet joins at the end. *)
Add ==
  /\ \E t \in TasksOf(ready') \ TasksOf(ready) : ready' = Append(ready, t)
  /\ UNCHANGED turn

Begin ==
  /\ turn = 0
  /\ ready # <<>>
  /\ turn' = 1
  /\ UNCHANGED ready

Pass ==
  /\ turn # 0
  /\ turn' = IF turn = Len(ready) THEN 1 ELSE turn + 1
  /\ UNCHANGED ready

Next == Add \/ Begin \/ Pass

Spec == Init /\ [][Next]_vars
=============================================================================
