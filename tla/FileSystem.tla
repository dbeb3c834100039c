----------------------------- MODULE FileSystem -----------------------------
(***************************************************************************)
(* The in-memory file table, src/kernel/fs/fs.c.  A `struct file *' is the *)
(* index of its slot, and NULL is -1.                                      *)
(*                                                                         *)
(* A name is a member of Name.  copy_name keeps 31 characters: stored[n]   *)
(* is what it leaves of n, so that a name is short when stored[n] = n, and *)
(* names with the same first 31 characters have the same stored form.      *)
(***************************************************************************)
EXTENDS Integers, Sequences

CONSTANTS
  MAX_FILES,  \* 16 in the code
  DATA_SIZE,  \* bytes of content in a struct file, 4096 in the code
  Name, stored,
  Byte,
  Payload,    \* the buffers given to fs_write
  Lengths     \* the lengths given to fs_read

ASSUME FileSystemAssumption ==
  /\ MAX_FILES \in Nat \ {0}
  /\ DATA_SIZE \in Nat
  /\ stored \in [Name -> Name]
  /\ \A n \in Name : stored[stored[n]] = stored[n]
  /\ Payload \subseteq Seq(Byte)
  /\ Lengths \subseteq Nat

VARIABLES
  files,    \* the static table
  issued,   \* the pointers callers were given, kept after a delete too
  ret,      \* what the latest call returned
  asked,    \* history: the name each file was last given by its user
  written,  \* history: what was last written to each file
  careful   \* history: no caller created a name in use or gave a long name

vars == <<files, issued, ret, asked, written, careful>>

Slot == 0..(MAX_FILES - 1)
Offset == 0..(DATA_SIZE - 1)
NULL == -1

Used == {i \in Slot : files[i].used}

Named(n) == {i \in Used : files[i].name = n}

(* The loops over the table go upwards. *)
Lowest(S) == CHOOSE i \in S : \A j \in S : i <= j
Highest(S) == CHOOSE i \in S : \A j \in S : j <= i

Cap(len, limit) == IF len > limit THEN limit ELSE len

(* fs_init clears only `used'; the rest of a slot is whatever memory held. *)
fs_init ==
  files \in [Slot -> [name : Name, data : [Offset -> Byte],
                      size : {0, DATA_SIZE}, used : {FALSE}]]

Init ==
  /\ fs_init
  /\ issued = {}
  /\ ret = NULL
  /\ asked = [i \in Slot |-> files[i].name]
  /\ written = [i \in Slot |-> <<>>]
  /\ careful = TRUE

(* Fault: the size a slot had before is kept. *)
fs_create_SizeKept(n) ==
  LET free == Slot \ Used
      i    == Lowest(free)
  IN  /\ free # {}
      /\ files' = [files EXCEPT ![i].name = stored[n], ![i].used = TRUE]
      /\ ret' = i
      /\ issued' = issued \cup {i}
      /\ asked' = [asked EXCEPT ![i] = n]
      /\ written' = [written EXCEPT ![i] = <<>>]
      /\ careful' = (careful /\ Named(n) = {} /\ stored[n] = n)

fs_create(n) ==
  LET free == Slot \ Used
      i    == Lowest(free)
  IN  \/ /\ free = {}
         /\ ret' = NULL
         /\ UNCHANGED <<files, issued, asked, written, careful>>
      \/ /\ free # {}
         /\ files' = [files EXCEPT ![i].name = stored[n], ![i].size = 0, ![i].used = TRUE]
         /\ ret' = i
         /\ issued' = issued \cup {i}
         /\ asked' = [asked EXCEPT ![i] = n]
         /\ written' = [written EXCEPT ![i] = <<>>]
         /\ careful' = (careful /\ Named(n) = {} /\ stored[n] = n)

Found(n) == IF Named(n) = {} THEN NULL ELSE Lowest(Named(n))

fs_open(n) ==
  /\ ret' = Found(n)
  /\ issued' = issued \cup (IF Found(n) = NULL THEN {} ELSE {Found(n)})
  /\ UNCHANGED <<files, asked, written, careful>>

(* A null pointer and a slot that is not in use are refused. *)
Refused(f) == f = NULL \/ (f # NULL /\ f \notin Used)

(* Fault: the length is not cut to the room there is. *)
fs_write_Uncut(f, d) ==
  /\ ~Refused(f)
  /\ files' = [files EXCEPT
       ![f].data = [k \in Offset |-> IF k < Len(d) THEN d[k + 1] ELSE @[k]],
       ![f].size = Len(d)]
  /\ ret' = Len(d)
  /\ written' = [written EXCEPT ![f] = d]
  /\ UNCHANGED <<issued, asked, careful>>

fs_write(f, d) ==
  LET len == Cap(Len(d), DATA_SIZE)
  IN  \/ /\ Refused(f)
         /\ ret' = -1
         /\ UNCHANGED <<files, issued, asked, written, careful>>
      \/ /\ ~Refused(f)
         /\ files' = [files EXCEPT
              ![f].data = [k \in Offset |-> IF k < len THEN d[k + 1] ELSE @[k]],
              ![f].size = len]
         /\ ret' = len
         /\ written' = [written EXCEPT ![f] = SubSeq(d, 1, len)]
         /\ UNCHANGED <<issued, asked, careful>>

(* The answer of fs_read is the buffer it fills; its length is the result. *)
fs_read(f, len) ==
  LET n == Cap(len, files[f].size)
  IN  /\ \/ Refused(f) /\ ret' = -1
         \/ ~Refused(f) /\ ret' = [k \in 1..n |-> files[f].data[k - 1]]
      /\ UNCHANGED <<files, issued, asked, written, careful>>

(* The answer of fs_list: the first max slots in use, in table order. *)
fs_list(max) ==
  LET active == SelectSeq([k \in 1..MAX_FILES |-> k - 1], LAMBDA i : i \in Used)
  IN  /\ ret' = SubSeq(active, 1, Cap(Len(active), max))
      /\ issued' = issued \cup {i \in Used : \E k \in 1..Len(ret') : ret'[k] = i}
      /\ UNCHANGED <<files, asked, written, careful>>

fs_delete(n) ==
  LET i == Lowest(Named(n))
  IN  \/ /\ Named(n) = {}
         /\ ret' = -1
         /\ UNCHANGED <<files, issued, asked, written, careful>>
      \/ /\ Named(n) # {}
         /\ files' = [files EXCEPT ![i].used = FALSE, ![i].size = 0]
         /\ ret' = 0
         /\ UNCHANGED <<issued, asked, written, careful>>

(* Fault: the new name may be in use. *)
fs_rename_Unchecked(old, new) ==
  LET i == Highest(Named(old))
  IN  /\ Named(old) # {}
      /\ files' = [files EXCEPT ![i].name = stored[new]]
      /\ ret' = 0
      /\ asked' = [asked EXCEPT ![i] = new]
      /\ careful' = (careful /\ stored[new] = new)
      /\ UNCHANGED <<issued, written>>

(* The scan keeps the last slot with the old name and gives up at the      *)
(* first one with the new name.                                            *)
fs_rename(old, new) ==
  LET i == Highest(Named(old))
  IN  \/ /\ Named(new) # {} \/ Named(old) = {}
         /\ ret' = -1
         /\ UNCHANGED <<files, issued, asked, written, careful>>
      \/ /\ Named(new) = {}
         /\ Named(old) # {}
         /\ files' = [files EXCEPT ![i].name = stored[new]]
         /\ ret' = 0
         /\ asked' = [asked EXCEPT ![i] = new]
         /\ careful' = (careful /\ stored[new] = new)
         /\ UNCHANGED <<issued, written>>

(* A pointer that a caller holds may be stale. *)
Next ==
  \/ \E n \in Name : fs_create(n)
  \/ \E n \in Name : fs_open(n)
  \/ \E f \in issued \cup {NULL}, d \in Payload : fs_write(f, d)
  \/ \E f \in issued \cup {NULL}, len \in Lengths : fs_read(f, len)
  \/ \E max \in Lengths : fs_list(max)
  \/ \E n \in Name : fs_delete(n)
  \/ \E old, new \in Name : fs_rename(old, new)

Spec == Init /\ [][Next]_vars
-----------------------------------------------------------------------------
(* Type correctness; a file in use never claims more than a slot holds. *)
TypeOK ==
  /\ files \in [Slot -> [name : Name, data : [Offset -> Byte], size : 0..DATA_SIZE,
                         used : BOOLEAN]]
  /\ issued \subseteq Slot
  /\ asked \in [Slot -> Name]
  /\ written \in [Slot -> Seq(Byte)]
  /\ careful \in BOOLEAN

(* What fs_read can return is exactly what was last written to the file    *)
(* that is in the slot now: nothing of an earlier file of the slot, of     *)
(* memory before boot or of a longer earlier write shows through.          *)
ContentIsLastWrite ==
  \A i \in Used :
    /\ files[i].size = Len(written[i])
    /\ \A k \in 1..files[i].size : files[i].data[k - 1] = written[i][k]

(* As long as callers create a file only when fs_open does not find it and *)
(* keep to names that fit (overview.txt: files are "identified by a short  *)
(* name"), the name a file was created or renamed with leads back to that  *)
(* file and no other, whatever is deleted, reused and renamed between.     *)
NamesIdentifyFiles == careful => \A i \in Used : Found(asked[i]) = i
=============================================================================
