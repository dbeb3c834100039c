-------------------------- MODULE FileSystemProofs --------------------------
(***************************************************************************)
(* Proofs about FileSystem, for every table size, slot size and set of     *)
(* names.                                                                  *)
(***************************************************************************)
EXTENDS FileSystem, SelectionProofs

(* The scans of the table: each returns a slot of the set it looks for. *)
LEMMA LowestFacts ==
  ASSUME NEW S \in SUBSET Slot, S # {}
  PROVE  Lowest(S) \in S /\ \A j \in S : Lowest(S) <= j
<1>1. S \in SUBSET Nat
  BY FileSystemAssumption DEF Slot
<1>2. \E i \in S : \A j \in S : i <= j
  BY <1>1, LeastNatural
<1> QED
  BY <1>2 DEF Lowest

LEMMA HighestFacts ==
  ASSUME NEW S \in SUBSET Slot, S # {}
  PROVE  Highest(S) \in S /\ \A j \in S : j <= Highest(S)
<1> DEFINE T == {MAX_FILES - j : j \in S}
<1>1. S \in SUBSET (0..(MAX_FILES - 1)) /\ MAX_FILES \in Nat
  BY FileSystemAssumption DEF Slot
<1>2. T \in SUBSET Nat /\ T # {}
  BY <1>1
<1>3. PICK t \in T : \A u \in T : t <= u
  <2> HIDE DEF T
  <2> QED
    BY <1>2, LeastNatural
<1>4. PICK i \in S : t = MAX_FILES - i
  BY <1>3
<1>5. \A j \in S : j <= i
  <2> TAKE j \in S
  <2>1. MAX_FILES - j \in T
    OBVIOUS
  <2>2. MAX_FILES - i <= MAX_FILES - j
    BY <1>3, <1>4, <2>1
  <2>3. i \in Int /\ j \in Int /\ MAX_FILES \in Int
    BY <1>1
  <2> QED
    BY <2>2, <2>3
<1>6. \E k \in S : \A j \in S : j <= k
  BY <1>5
<1> QED
  BY <1>6 DEF Highest

-----------------------------------------------------------------------------
(* While callers keep to the rules, a slot in use holds the very name its  *)
(* user gave, and no two slots in use were given the same name.            *)
SlotsHoldNames ==
  careful => /\ \A i \in Used : files[i].name = asked[i] /\ stored[asked[i]] = asked[i]
             /\ \A i, j \in Used : asked[i] = asked[j] => i = j

IInv == TypeOK /\ ContentIsLastWrite /\ SlotsHoldNames

FileRecord == [name : Name, data : [Offset -> Byte], size : 0..DATA_SIZE, used : BOOLEAN]

LEMMA InitFacts == Init => IInv
<1> SUFFICES ASSUME Init PROVE IInv
  OBVIOUS
<1>1. {0, DATA_SIZE} \subseteq 0..DATA_SIZE
  BY FileSystemAssumption
<1>2. files \in [Slot -> FileRecord] /\ \A i \in Slot : ~files[i].used
  BY <1>1 DEF Init, fs_init, FileRecord
<1>3. Used = {}
  BY <1>2 DEF Used
<1>4. TypeOK
  BY <1>2 DEF TypeOK, Init, FileRecord
<1> QED
  BY <1>3, <1>4 DEF IInv, ContentIsLastWrite, SlotsHoldNames

(* Calls that leave the table and the names alone. *)
LEMMA TableUnchanged ==
  ASSUME IInv, UNCHANGED <<files, asked, written, careful>>, issued' \subseteq Slot
  PROVE  IInv'
  BY DEF IInv, TypeOK, ContentIsLastWrite, SlotsHoldNames, Used

(* fs_create fills a free slot under a name that nobody uses. *)
LEMMA CreateFacts ==
  ASSUME IInv, NEW n \in Name, fs_create(n)
  PROVE  IInv'
<1> DEFINE free == Slot \ Used
           i == Lowest(free)
<1>1. CASE free = {}
  <2>1. UNCHANGED <<files, issued, asked, written, careful>>
    BY <1>1 DEF fs_create
  <2> QED
    BY <2>1, TableUnchanged DEF IInv, TypeOK
<1>2. CASE free # {}
  <2>1. i \in Slot /\ i \notin Used
    <3> HIDE DEF i
    <3>1. free \in SUBSET Slot
      OBVIOUS
    <3>2. i \in free
      BY <1>2, <3>1, LowestFacts DEF i
    <3> QED
      BY <3>2
  <2>2. /\ files' = [files EXCEPT ![i].name = stored[n], ![i].size = 0, ![i].used = TRUE]
        /\ issued' = issued \cup {i}
        /\ asked' = [asked EXCEPT ![i] = n]
        /\ written' = [written EXCEPT ![i] = <<>>]
        /\ careful' = (careful /\ Named(n) = {} /\ stored[n] = n)
    BY <1>2 DEF fs_create
  <2> HIDE DEF i, free
  <2>3. files \in [Slot -> FileRecord] /\ stored[n] \in Name /\ 0 \in 0..DATA_SIZE
    BY FileSystemAssumption DEF IInv, TypeOK, FileRecord
  <2>4. /\ files' \in [Slot -> FileRecord]
        /\ files'[i].name = stored[n] /\ files'[i].size = 0 /\ files'[i].used
        /\ \A j \in Slot : j # i => files'[j] = files[j]
    BY <2>1, <2>2, <2>3 DEF FileRecord
  <2>5. Used' = Used \cup {i}
    BY <2>1, <2>4 DEF Used
  <2>6. TypeOK'
    BY <2>1, <2>2, <2>4 DEF IInv, TypeOK, FileRecord
  <2>7. /\ asked'[i] = n /\ written'[i] = <<>>
        /\ \A j \in Slot : j # i => asked'[j] = asked[j] /\ written'[j] = written[j]
    BY <2>1, <2>2 DEF IInv, TypeOK
  <2>8. ContentIsLastWrite'
    <3> SUFFICES ASSUME NEW j \in Used'
                 PROVE  /\ files'[j].size = Len(written'[j])
                        /\ \A k \in 1..files'[j].size : files'[j].data[k - 1] = written'[j][k]
      BY DEF ContentIsLastWrite
    <3>1. CASE j = i
      BY <2>4, <2>7, <3>1
    <3>2. CASE j # i
      BY <2>4, <2>5, <2>7, <3>2 DEF IInv, ContentIsLastWrite, Used
    <3> QED
      BY <3>1, <3>2
  <2>9. SlotsHoldNames'
    <3> SUFFICES ASSUME careful' PROVE SlotsHoldNames'
      BY DEF SlotsHoldNames
    <3>1. careful /\ Named(n) = {} /\ stored[n] = n
      BY <2>2
    <3>2. \A j \in Used : asked[j] # n /\ j # i /\ j \in Slot
      BY <2>1, <3>1 DEF Named, Used, IInv, SlotsHoldNames
    <3>3. \A j \in Used : files'[j].name = asked'[j] /\ asked'[j] = asked[j]
                          /\ stored[asked[j]] = asked[j]
      BY <2>4, <2>7, <3>1, <3>2 DEF IInv, SlotsHoldNames
    <3>4. \A j, k \in Used' : asked'[j] = asked'[k] => j = k
      BY <2>5, <2>7, <3>1, <3>2, <3>3 DEF IInv, SlotsHoldNames
    <3> QED
      BY <2>4, <2>5, <2>7, <3>1, <3>3, <3>4 DEF SlotsHoldNames
  <2> QED
    BY <2>6, <2>8, <2>9 DEF IInv
<1> QED
  BY <1>1, <1>2

LEMMA OpenFacts ==
  ASSUME IInv, NEW n \in Name, fs_open(n)
  PROVE  IInv'
<1>1. Found(n) # NULL => Found(n) \in Slot
  <2>1. CASE Named(n) = {}
    BY <2>1 DEF Found
  <2>2. CASE Named(n) # {}
    <3>1. Named(n) \in SUBSET Slot
      BY DEF Named, Used
    <3>2. Lowest(Named(n)) \in Named(n)
      BY <2>2, <3>1, LowestFacts
    <3> QED
      BY <2>2, <3>1, <3>2 DEF Found
  <2> QED
    BY <2>1, <2>2
<1>2. issued' \subseteq Slot
  BY <1>1 DEF fs_open, IInv, TypeOK
<1> QED
  BY <1>2, TableUnchanged DEF fs_open

(* A length cut to a limit. *)
LEMMA CapFacts ==
  ASSUME NEW len \in Nat, NEW limit \in Nat
  PROVE  Cap(len, limit) \in 0..limit /\ Cap(len, limit) \in 0..len
  BY DEF Cap

(* fs_write replaces the content of one slot by the part that fits. *)
LEMMA WriteFacts ==
  ASSUME IInv, NEW f \in issued \cup {NULL}, NEW d \in Payload, fs_write(f, d)
  PROVE  IInv'
<1> DEFINE len == Cap(Len(d), DATA_SIZE)
<1>1. CASE Refused(f)
  <2>1. UNCHANGED <<files, issued, asked, written, careful>>
    BY <1>1 DEF fs_write
  <2> QED
    BY <2>1, TableUnchanged DEF IInv, TypeOK
<1>2. CASE ~Refused(f)
  <2> DEFINE old == files[f].data
             new == [k \in Offset |-> IF k < len THEN d[k + 1] ELSE old[k]]
  <2>1. f \in Slot /\ f \in Used
    BY <1>2 DEF Refused, Used
  <2>2. d \in Seq(Byte) /\ len \in 0..DATA_SIZE /\ len \in 0..Len(d) /\ len \in Nat
        /\ DATA_SIZE \in Nat
    <3>1. d \in Seq(Byte) /\ Len(d) \in Nat /\ DATA_SIZE \in Nat
      BY FileSystemAssumption
    <3>2. len \in 0..DATA_SIZE /\ len \in 0..Len(d)
      BY <3>1, CapFacts
    <3> HIDE DEF len
    <3> QED
      BY <3>1, <3>2
  <2>3. /\ files' = [files EXCEPT ![f].data = new, ![f].size = len]
        /\ written' = [written EXCEPT ![f] = SubSeq(d, 1, len)]
        /\ UNCHANGED <<issued, asked, careful>>
    BY <1>2 DEF fs_write
  <2>4. files \in [Slot -> FileRecord]
    BY DEF IInv, TypeOK, FileRecord
  <2>5. new \in [Offset -> Byte]
    <3>1. old \in [Offset -> Byte]
      BY <2>1, <2>4 DEF FileRecord
    <3>2. ASSUME NEW k \in Offset, k < len PROVE d[k + 1] \in Byte
      <4>1. k + 1 \in 1..Len(d)
        BY <2>2, <3>2 DEF Offset
      <4> QED
        BY <2>2, <4>1
    <3> HIDE DEF old, len
    <3> QED
      BY <3>1, <3>2
  <2>6. \A k \in 1..len : new[k - 1] = d[k]
    <3> SUFFICES ASSUME NEW k \in 1..len PROVE new[k - 1] = d[k]
      OBVIOUS
    <3>1. k - 1 \in Offset /\ k - 1 < len /\ (k - 1) + 1 = k
      BY <2>2 DEF Offset
    <3> HIDE DEF old, len
    <3> QED
      BY <3>1
  <2> HIDE DEF new, len
  <2>7. /\ files' \in [Slot -> FileRecord]
        /\ files'[f].data = new /\ files'[f].size = len
        /\ files'[f].name = files[f].name /\ files'[f].used = files[f].used
        /\ \A j \in Slot : j # f => files'[j] = files[j]
    BY <2>1, <2>2, <2>3, <2>4, <2>5 DEF FileRecord
  <2>8. Used' = Used
    BY <2>1, <2>7 DEF Used
  <2>9. /\ SubSeq(d, 1, len) \in Seq(Byte) /\ Len(SubSeq(d, 1, len)) = len
        /\ \A k \in 1..len : SubSeq(d, 1, len)[k] = d[k]
    <3>1. 1 \in 1..(Len(d) + 1) /\ len \in (1 - 1)..Len(d)
      BY <2>2
    <3> QED
      BY <2>2, <3>1, SubSeqProperties
  <2>10. TypeOK'
    BY <2>1, <2>3, <2>7, <2>9 DEF IInv, TypeOK, FileRecord
  <2>11. /\ written'[f] = SubSeq(d, 1, len)
         /\ \A j \in Slot : j # f => written'[j] = written[j]
    BY <2>1, <2>3 DEF IInv, TypeOK
  <2>12. ContentIsLastWrite'
    <3> SUFFICES ASSUME NEW j \in Used'
                 PROVE  /\ files'[j].size = Len(written'[j])
                        /\ \A k \in 1..files'[j].size : files'[j].data[k - 1] = written'[j][k]
      BY DEF ContentIsLastWrite
    <3>1. CASE j = f
      BY <2>6, <2>7, <2>9, <2>11, <3>1
    <3>2. CASE j # f
      BY <2>7, <2>8, <2>11, <3>2 DEF IInv, ContentIsLastWrite, Used
    <3> QED
      BY <3>1, <3>2
  <2>13. SlotsHoldNames'
    <3>1. \A j \in Used : files'[j].name = files[j].name
      BY <2>7 DEF Used
    <3> QED
      BY <2>3, <2>8, <3>1 DEF IInv, SlotsHoldNames
  <2> QED
    BY <2>10, <2>12, <2>13 DEF IInv
<1> QED
  BY <1>1, <1>2

(* fs_read and fs_list change no file. *)
LEMMA ReadFacts ==
  ASSUME IInv, NEW f \in issued \cup {NULL}, NEW len \in Lengths, fs_read(f, len)
  PROVE  IInv'
<1>1. UNCHANGED <<files, issued, asked, written, careful>>
  BY DEF fs_read
<1> QED
  BY <1>1, TableUnchanged DEF IInv, TypeOK

LEMMA ListFacts ==
  ASSUME IInv, NEW max \in Lengths, fs_list(max)
  PROVE  IInv'
<1>1. UNCHANGED <<files, asked, written, careful>>
  BY DEF fs_list
<1>2. issued' \subseteq Slot
  BY DEF fs_list, IInv, TypeOK, Used
<1> QED
  BY <1>1, <1>2, TableUnchanged

(* fs_delete only frees a slot. *)
LEMMA DeleteFacts ==
  ASSUME IInv, NEW n \in Name, fs_delete(n)
  PROVE  IInv'
<1> DEFINE i == Lowest(Named(n))
<1>1. CASE Named(n) = {}
  <2>1. UNCHANGED <<files, issued, asked, written, careful>>
    BY <1>1 DEF fs_delete
  <2> QED
    BY <2>1, TableUnchanged DEF IInv, TypeOK
<1>2. CASE Named(n) # {}
  <2>1. i \in Slot /\ i \in Used
    <3>1. Named(n) \in SUBSET Slot
      BY DEF Named, Used
    <3>2. i \in Named(n)
      BY <1>2, <3>1, LowestFacts
    <3> QED
      BY <3>2 DEF Named, Used
  <2>2. /\ files' = [files EXCEPT ![i].used = FALSE, ![i].size = 0]
        /\ UNCHANGED <<issued, asked, written, careful>>
    BY <1>2 DEF fs_delete
  <2> HIDE DEF i
  <2>3. files \in [Slot -> FileRecord] /\ 0 \in 0..DATA_SIZE
    BY FileSystemAssumption DEF IInv, TypeOK, FileRecord
  <2>4. /\ files' \in [Slot -> FileRecord]
        /\ ~files'[i].used
        /\ \A j \in Slot : j # i => files'[j] = files[j]
    BY <2>1, <2>2, <2>3 DEF FileRecord
  <2>5. Used' = Used \ {i}
    BY <2>1, <2>4 DEF Used
  <2>6. \A j \in Used' : files'[j] = files[j] /\ j \in Used
    BY <2>4, <2>5 DEF Used
  <2>7. TypeOK'
    BY <2>2, <2>4 DEF IInv, TypeOK, FileRecord
  <2>8. ContentIsLastWrite'
    <3> SUFFICES ASSUME NEW j \in Used'
                 PROVE  /\ files'[j].size = Len(written'[j])
                        /\ \A k \in 1..files'[j].size : files'[j].data[k - 1] = written'[j][k]
      BY DEF ContentIsLastWrite
    <3>1. files'[j] = files[j] /\ j \in Used /\ written' = written
      BY <2>2, <2>6
    <3>2. /\ files[j].size = Len(written[j])
          /\ \A k \in 1..files[j].size : files[j].data[k - 1] = written[j][k]
      BY <3>1 DEF IInv, ContentIsLastWrite
    <3> QED
      BY <3>1, <3>2
  <2>9. SlotsHoldNames'
    BY <2>2, <2>6 DEF IInv, SlotsHoldNames
  <2> QED
    BY <2>7, <2>8, <2>9 DEF IInv
<1> QED
  BY <1>1, <1>2

(* fs_rename gives one slot a name that nobody uses. *)
LEMMA RenameFacts ==
  ASSUME IInv, NEW old \in Name, NEW new \in Name, fs_rename(old, new)
  PROVE  IInv'
<1> DEFINE i == Highest(Named(old))
<1>1. CASE Named(new) # {} \/ Named(old) = {}
  <2>1. UNCHANGED <<files, issued, asked, written, careful>>
    BY <1>1 DEF fs_rename
  <2> QED
    BY <2>1, TableUnchanged DEF IInv, TypeOK
<1>2. CASE Named(new) = {} /\ Named(old) # {}
  <2>1. i \in Slot /\ i \in Used
    <3>1. Named(old) \in SUBSET Slot
      BY DEF Named, Used
    <3>2. i \in Named(old)
      BY <1>2, <3>1, HighestFacts
    <3> QED
      BY <3>2 DEF Named, Used
  <2>2. /\ files' = [files EXCEPT ![i].name = stored[new]]
        /\ asked' = [asked EXCEPT ![i] = new]
        /\ careful' = (careful /\ stored[new] = new)
        /\ UNCHANGED <<issued, written>>
    BY <1>2 DEF fs_rename
  <2> HIDE DEF i
  <2>3. files \in [Slot -> FileRecord] /\ stored[new] \in Name
    BY FileSystemAssumption DEF IInv, TypeOK, FileRecord
  <2>4. /\ files' \in [Slot -> FileRecord]
        /\ files'[i].name = stored[new]
        /\ \A j \in Slot : /\ files'[j].data = files[j].data
                           /\ files'[j].size = files[j].size
                           /\ files'[j].used = files[j].used
                           /\ j # i => files'[j].name = files[j].name
    BY <2>1, <2>2, <2>3 DEF FileRecord
  <2>5. Used' = Used
    BY <2>4 DEF Used
  <2>6. TypeOK'
    BY <2>1, <2>2, <2>4 DEF IInv, TypeOK, FileRecord
  <2>7. ContentIsLastWrite'
    <3>1. \A j \in Used' : /\ j \in Used
                          /\ files'[j].size = files[j].size
                          /\ files'[j].data = files[j].data
                          /\ written'[j] = written[j]
      BY <2>2, <2>4, <2>5 DEF Used
    <3> SUFFICES ASSUME NEW j \in Used'
                 PROVE  /\ files'[j].size = Len(written'[j])
                        /\ \A k \in 1..files'[j].size : files'[j].data[k - 1] = written'[j][k]
      BY DEF ContentIsLastWrite
    <3>2. /\ files[j].size = Len(written[j])
          /\ \A k \in 1..files[j].size : files[j].data[k - 1] = written[j][k]
      BY <3>1 DEF IInv, ContentIsLastWrite
    <3> QED
      BY <3>1, <3>2
  <2>8. asked'[i] = new /\ \A j \in Slot : j # i => asked'[j] = asked[j]
    BY <2>1, <2>2 DEF IInv, TypeOK
  <2>9. SlotsHoldNames'
    <3> SUFFICES ASSUME careful' PROVE SlotsHoldNames'
      BY DEF SlotsHoldNames
    <3>1. careful /\ stored[new] = new
      BY <2>2
    <3>2. \A j \in Used : j \in Slot /\ asked[j] # new
      BY <1>2, <3>1 DEF Named, Used, IInv, SlotsHoldNames
    <3>3. \A j \in Used : files'[j].name = asked'[j] /\ stored[asked'[j]] = asked'[j]
      BY <2>4, <2>8, <3>1, <3>2 DEF IInv, SlotsHoldNames
    <3>4. \A j, k \in Used : asked'[j] = asked'[k] => j = k
      BY <2>8, <3>1, <3>2 DEF IInv, SlotsHoldNames
    <3> QED
      BY <2>5, <3>3, <3>4 DEF SlotsHoldNames
  <2> QED
    BY <2>6, <2>7, <2>9 DEF IInv
<1> QED
  BY <1>1, <1>2

LEMMA NextFacts == IInv /\ [Next]_vars => IInv'
<1> SUFFICES ASSUME IInv, [Next]_vars PROVE IInv'
  OBVIOUS
<1>1. CASE \E n \in Name : fs_create(n)
  BY <1>1, CreateFacts
<1>2. CASE \E n \in Name : fs_open(n)
  BY <1>2, OpenFacts
<1>3. CASE \E f \in issued \cup {NULL}, d \in Payload : fs_write(f, d)
  BY <1>3, WriteFacts
<1>4. CASE \E f \in issued \cup {NULL}, len \in Lengths : fs_read(f, len)
  BY <1>4, ReadFacts
<1>5. CASE \E max \in Lengths : fs_list(max)
  BY <1>5, ListFacts
<1>6. CASE \E n \in Name : fs_delete(n)
  BY <1>6, DeleteFacts
<1>7. CASE \E old, new \in Name : fs_rename(old, new)
  BY <1>7, RenameFacts
<1>8. CASE UNCHANGED vars
  BY <1>8, TableUnchanged DEF vars, IInv, TypeOK
<1> QED
  BY <1>1, <1>2, <1>3, <1>4, <1>5, <1>6, <1>7, <1>8 DEF Next

LEMMA Inductive == Spec => []IInv
<1> QED
  BY InitFacts, NextFacts, PTL DEF Spec
-----------------------------------------------------------------------------
(* Every pointer handed out is a slot of the table, and no size exceeds    *)
(* what a slot holds, whatever sequence of calls is made.                  *)
THEOREM Types == Spec => []TypeOK
<1>1. IInv => TypeOK
  BY DEF IInv
<1> QED
  BY <1>1, Inductive, PTL

(* What fs_read returns is what fs_write last put in that file, through    *)
(* any reuse of its slot.                                                  *)
THEOREM ReadsReturnWrites == Spec => []ContentIsLastWrite
<1>1. IInv => ContentIsLastWrite
  BY DEF IInv
<1> QED
  BY <1>1, Inductive, PTL

(* fs_open finds every file under the name it was given, and only that     *)
(* one, as long as callers do not create a name in use or a name too long. *)
THEOREM NamesIdentify == Spec => []NamesIdentifyFiles
<1>1. IInv => NamesIdentifyFiles
  <2> SUFFICES ASSUME IInv, careful, NEW i \in Used PROVE Found(asked[i]) = i
    BY DEF NamesIdentifyFiles
  <2>1. Named(asked[i]) = {i}
    BY DEF IInv, SlotsHoldNames, Named
  <2>2. Named(asked[i]) \in SUBSET Slot
    BY DEF Named, Used
  <2>3. Lowest(Named(asked[i])) \in Named(asked[i])
    BY <2>1, <2>2, LowestFacts
  <2> QED
    BY <2>1, <2>3 DEF Found
<1> QED
  BY <1>1, Inductive, PTL
=============================================================================
