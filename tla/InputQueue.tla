----------------------------- MODULE InputQueue -----------------------------
(***************************************************************************)
(* What the console's input buffer promises: a first-in first-out queue of *)
(* at most Capacity keys.  A key that arrives when the queue is full is    *)
(* lost; a key once accepted is delivered, once, in order.                 *)
(***************************************************************************)
EXTENDS Integers, Sequences

CONSTANTS
  Key,       \* the keys that reach the queue
  NUL,       \* what a reader gets from an empty queue
  Capacity

VARIABLES
  keys,  \* the keys accepted and not yet delivered
  got    \* the answer to the latest read

vars == <<keys, got>>

Init == keys = <<>> /\ got = NUL

Put ==
  /\ Len(keys) < Capacity
  /\ \E k \in Key : keys' = Append(keys, k)
  /\ UNCHANGED got

Get ==
  /\ got' = IF keys = <<>> THEN NUL ELSE Head(keys)
  /\ keys' = IF keys = <<>> THEN keys ELSE Tail(keys)

Next == Put \/ Get

Spec == Init /\ [][Next]_vars
=============================================================================
