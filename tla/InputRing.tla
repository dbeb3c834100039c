------------------------------ MODULE InputRing -----------------------------
(***************************************************************************)
(* The ring buffer between console_poll_input and console_getc,            *)
(* src/kernel/console/console.c.  One slot always stays empty, so that     *)
(* head = tail means empty.                                                *)
(***************************************************************************)
EXTENDS Integers, Sequences

CONSTANTS
  INPUT_BUF_SIZE,  \* 128 in the code
  Char,            \* the characters keyboard_read_char may return, not NUL
  NUL,             \* the character 0
  BS, DEL          \* '\b' and 0x7F

ASSUME InputRingAssumption ==
  /\ INPUT_BUF_SIZE \in Nat \ {0, 1}
  /\ NUL \notin Char
  /\ BS \in Char \ {DEL}

VARIABLES
  input_buf, input_head, input_tail,
  got   \* what the latest console_getc returned

ringVars == <<input_buf, input_head, input_tail>>

vars == <<input_buf, input_head, input_tail, got>>

Slot == 0..(INPUT_BUF_SIZE - 1)

Init ==
  /\ input_buf = [i \in Slot |-> NUL]
  /\ input_head = 0
  /\ input_tail = 0
  /\ got = NUL

(* Fault: the index does not wrap. *)
Advance_NoWrap(i) == i + 1

Advance(i) == (i + 1) % INPUT_BUF_SIZE

(* Both codes for backspace are stored as '\b'. *)
Normalise(c) == IF c = BS \/ c = DEL THEN BS ELSE c

(* Faults: the key goes to the slot after head; a full buffer is not       *)
(* noticed.                                                                *)
StoreKey_SlotAfterHead(c) ==
  \/ /\ Advance(input_head) # input_tail
     /\ input_buf' = [input_buf EXCEPT ![Advance(input_head)] = Normalise(c)]
     /\ input_head' = Advance(input_head)
     /\ UNCHANGED input_tail
  \/ /\ Advance(input_head) = input_tail
     /\ UNCHANGED ringVars

StoreKey_FullIgnored(c) ==
  /\ input_buf' = [input_buf EXCEPT ![input_head] = Normalise(c)]
  /\ input_head' = Advance(input_head)
  /\ UNCHANGED input_tail

(* The end of console_poll_input, reached by a key the console does not    *)
(* take for itself.  A full buffer drops the key.                          *)
StoreKey(c) ==
  \/ /\ Advance(input_head) # input_tail
     /\ input_buf' = [input_buf EXCEPT ![input_head] = Normalise(c)]
     /\ input_head' = Advance(input_head)
     /\ UNCHANGED input_tail
  \/ /\ Advance(input_head) = input_tail
     /\ UNCHANGED ringVars

console_poll_input(c) == StoreKey(c) /\ UNCHANGED got

console_getc ==
  \/ /\ input_head = input_tail
     /\ got' = NUL
     /\ UNCHANGED ringVars
  \/ /\ input_head # input_tail
     /\ got' = input_buf[input_tail]
     /\ input_tail' = Advance(input_tail)
     /\ UNCHANGED <<input_buf, input_head>>

Next == (\E c \in Char : console_poll_input(c)) \/ console_getc

Spec == Init /\ [][Next]_vars
-----------------------------------------------------------------------------
(* Type correctness: both indices stay inside the buffer. *)
TypeOK ==
  /\ input_buf \in [Slot -> Char \cup {NUL}]
  /\ input_head \in Slot
  /\ input_tail \in Slot
  /\ got \in Char \cup {NUL}

(* The number of keys between tail and head, and the keys themselves. *)
Count == (input_head - input_tail) % INPUT_BUF_SIZE

SlotAt(t, i) == (t + i - 1) % INPUT_BUF_SIZE

Contents == [i \in 1..Count |-> input_buf[SlotAt(input_tail, i)]]

(* Between tail and head there are only keys: console_getc returns NUL     *)
(* (which its caller takes for "no key") only from an empty buffer.        *)
NoEmptySlotInQueue == \A i \in 1..Count : Contents[i] # NUL

Q == INSTANCE InputQueue WITH
       Key <- Char \ {DEL}, Capacity <- INPUT_BUF_SIZE - 1, keys <- Contents

(* However polls and reads interleave and wherever the indices wrap, the   *)
(* ring is a queue of INPUT_BUF_SIZE - 1 keys: nothing accepted is lost,   *)
(* repeated, reordered or overwritten.                                     *)
ImplementsQueue == Q!Spec
=============================================================================
