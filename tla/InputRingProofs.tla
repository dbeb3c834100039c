-------------------------- MODULE InputRingProofs ---------------------------
(***************************************************************************)
(* Proofs about InputRing, for every buffer size and character set.        *)
(***************************************************************************)
EXTENDS InputRing, SequenceTheorems, TLAPS

(* A remainder over the range that index arithmetic in the ring can reach. *)
LEMMA WrapOnce ==
  ASSUME NEW n \in Nat \ {0}, NEW a \in (-n)..(2 * n - 1)
  PROVE  a % n = IF a < 0 THEN a + n ELSE IF a < n THEN a ELSE a - n
<1>1. CASE a < 0
  BY <1>1
<1>2. CASE a >= 0 /\ a < n
  BY <1>2
<1>3. CASE a >= n
  BY <1>3
<1> QED
  BY <1>1, <1>2, <1>3

(* The arithmetic of the ring without remainders. *)
LEMMA RingArithmetic ==
  ASSUME NEW h \in Slot, NEW t \in Slot
  PROVE  /\ (h - t) % INPUT_BUF_SIZE = IF h < t THEN h - t + INPUT_BUF_SIZE ELSE h - t
         /\ (h - t) % INPUT_BUF_SIZE \in Slot
         /\ Advance(t) = IF t = INPUT_BUF_SIZE - 1 THEN 0 ELSE t + 1
         /\ Advance(t) \in Slot
<1> DEFINE N == INPUT_BUF_SIZE
<1>1. N \in Nat \ {0, 1} /\ h \in 0..(N - 1) /\ t \in 0..(N - 1)
  BY InputRingAssumption DEF Slot
<1>2. ASSUME NEW a \in (-N)..(2 * N - 1)
      PROVE  a % N = IF a < 0 THEN a + N ELSE IF a < N THEN a ELSE a - N
  BY <1>1, WrapOnce
<1>3. h - t \in (-N)..(2 * N - 1) /\ t + 1 \in (-N)..(2 * N - 1)
  BY <1>1
<1>4. (h - t) % N = IF h < t THEN h - t + N ELSE h - t
  BY <1>1, <1>2, <1>3
<1>5. (t + 1) % N = IF t = N - 1 THEN 0 ELSE t + 1
  BY <1>1, <1>2, <1>3
<1> QED
  BY <1>1, <1>4, <1>5 DEF Advance, Slot

(* The slot of the i-th key. *)
LEMMA SlotOfKey ==
  ASSUME NEW t \in Slot, NEW i \in 1..INPUT_BUF_SIZE
  PROVE  SlotAt(t, i) = IF t + i - 1 < INPUT_BUF_SIZE THEN t + i - 1
                                                      ELSE t + i - 1 - INPUT_BUF_SIZE
<1> DEFINE N == INPUT_BUF_SIZE
           a == t + i - 1
<1>1. N \in Nat \ {0, 1} /\ t \in 0..(N - 1) /\ i \in 1..N
  BY InputRingAssumption DEF Slot
<1>2. a \in (-N)..(2 * N - 1) /\ ~(a < 0)
  BY <1>1
<1>3. a % N = IF a < 0 THEN a + N ELSE IF a < N THEN a ELSE a - N
  <2> HIDE DEF a
  <2> QED
    BY <1>1, <1>2, WrapOnce
<1>4. SlotAt(t, i) = a % N
  BY DEF SlotAt
<1> HIDE DEF a
<1>5. SlotAt(t, i) = IF a < N THEN a ELSE a - N
  BY <1>1, <1>2, <1>3, <1>4
<1> QED
  BY <1>1, <1>5 DEF a

(* Every position between tail and head holds a key in its stored form.    *)
StoredKeysOnly == \A i \in 1..Count : Contents[i] \in Char \ {DEL}

IInv == TypeOK /\ StoredKeysOnly

(* A function on 1..n is a sequence of length n. *)
LEMMA FunctionIsSeq ==
  ASSUME NEW S, NEW n \in Nat, NEW f \in [1..n -> S]
  PROVE  f \in Seq(S) /\ Len(f) = n
  BY IsASeq, LenProperties

(* Contents is a sequence of stored keys, Count long. *)
LEMMA ContentsSeq ==
  ASSUME IInv
  PROVE  /\ Count \in Slot /\ Count \in Nat
         /\ Contents \in Seq(Char \ {DEL})
         /\ Len(Contents) = Count
         /\ (Contents = <<>>) <=> (Count = 0)
<1>1. Count \in Slot /\ Count \in Nat
  BY RingArithmetic, InputRingAssumption DEF IInv, TypeOK, Count, Slot
<1>2. Contents \in [1..Count -> Char \ {DEL}]
  <2>1. Contents = [i \in 1..Count |-> Contents[i]]
    BY DEF Contents
  <2> QED
    BY <2>1 DEF IInv, StoredKeysOnly
<1>3. Contents \in Seq(Char \ {DEL}) /\ Len(Contents) = Count
  <2> HIDE DEF Contents
  <2> QED
    BY <1>1, <1>2, FunctionIsSeq
<1> QED
  BY <1>1, <1>3, EmptySeq

(* In the initial state the ring is empty. *)
LEMMA InitFacts == Init => IInv /\ Q!Init
<1> SUFFICES ASSUME Init PROVE IInv /\ Q!Init
  OBVIOUS
<1>1. TypeOK
  BY InputRingAssumption DEF Init, TypeOK, Slot
<1>2. Count = 0
  BY <1>1, RingArithmetic, InputRingAssumption DEF Init, Count, TypeOK
<1>3. IInv
  BY <1>1, <1>2 DEF IInv, StoredKeysOnly
<1>4. Contents = <<>>
  BY <1>2, <1>3, ContentsSeq
<1> QED
  BY <1>3, <1>4 DEF Init, Q!Init

(* console_poll_input: a stored key is appended, a dropped one changes     *)
(* nothing.                                                                *)
LEMMA PollFacts ==
  ASSUME IInv, NEW c \in Char, console_poll_input(c)
  PROVE  IInv' /\ [Q!Next]_(Q!vars)
<1> DEFINE N == INPUT_BUF_SIZE
<1> USE InputRingAssumption
<1>1. /\ TypeOK /\ StoredKeysOnly /\ Count \in Slot /\ N \in Nat \ {0, 1}
      /\ Slot = 0..(N - 1) /\ input_head \in Slot /\ input_tail \in Slot
      /\ Count = IF input_head < input_tail THEN input_head - input_tail + N
                                            ELSE input_head - input_tail
  BY RingArithmetic, ContentsSeq DEF IInv, TypeOK, Count, Slot
<1>2. CASE Advance(input_head) = input_tail
  <2>1. UNCHANGED vars
    BY <1>2 DEF console_poll_input, StoreKey, ringVars, vars
  <2> QED
    BY <2>1, <1>1 DEF vars, IInv, TypeOK, StoredKeysOnly, Count, Contents, Q!vars
<1>3. CASE Advance(input_head) # input_tail
  <2>1. /\ input_buf' = [input_buf EXCEPT ![input_head] = Normalise(c)]
        /\ input_head' = Advance(input_head)
        /\ UNCHANGED <<input_tail, got>>
    BY <1>3 DEF console_poll_input, StoreKey
  <2>2. Normalise(c) \in Char \ {DEL}
    BY DEF Normalise
  <2>3. TypeOK'
    BY <1>1, <2>1, <2>2, RingArithmetic DEF TypeOK
  <2>31. input_head' = IF input_head = N - 1 THEN 0 ELSE input_head + 1
    BY <1>1, <2>1, RingArithmetic
  <2>4. Count' \in Slot /\ Count' = Count + 1 /\ Count < N - 1
    <3>1. /\ Count' = IF input_head' < input_tail' THEN input_head' - input_tail' + N
                                                   ELSE input_head' - input_tail'
          /\ Count' \in Slot
      BY <2>3, RingArithmetic DEF TypeOK, Count
    <3> QED
      BY <1>1, <1>3, <2>1, <2>31, <3>1
  <2>5. \A i \in 1..(Count + 1) :
          Contents'[i] = input_buf'[SlotAt(input_tail, i)]
    BY <2>1, <2>4 DEF Contents
  <2>6. ASSUME NEW i \in 1..Count
        PROVE  Contents'[i] = Contents[i]
    <3>0. i \in 1..N
      BY <1>1
    <3>1. SlotAt(input_tail, i) \in Slot /\ SlotAt(input_tail, i) # input_head
      BY <1>1, <2>4, <3>0, SlotOfKey
    <3>2. input_buf'[SlotAt(input_tail, i)] = input_buf[SlotAt(input_tail, i)]
      BY <1>1, <2>1, <3>1 DEF TypeOK
    <3>3. i \in 1..(Count + 1)
      BY <1>1 DEF Slot
    <3> QED
      BY <2>5, <3>2, <3>3 DEF Contents
  <2>7. Contents'[Count + 1] = Normalise(c)
    <3>0. Count + 1 \in 1..N
      BY <1>1
    <3>1. SlotAt(input_tail, Count + 1) = input_head
      BY <1>1, <2>4, <3>0, SlotOfKey
    <3>2. Count + 1 \in 1..(Count + 1)
      BY <1>1 DEF Slot
    <3> QED
      BY <1>1, <2>1, <2>5, <3>1, <3>2 DEF TypeOK
  <2>8. IInv'
    <3>1. \A i \in 1..Count' : i \in 1..Count \/ i = Count + 1
      BY <1>1, <2>4 DEF Slot
    <3> QED
      BY <1>1, <2>2, <2>3, <2>6, <2>7, <3>1 DEF IInv, StoredKeysOnly
  <2>9. Contents' = Append(Contents, Normalise(c))
    <3>0. Contents' = [i \in 1..(Count + 1) |-> Contents'[i]]
      BY <2>4 DEF Contents
    <3>01. Contents' \in [1..(Count + 1) -> Char \ {DEL}]
      BY <3>0, <2>4, <2>8 DEF IInv, StoredKeysOnly
    <3>1. /\ Contents' \in Seq(Char \ {DEL}) /\ Len(Contents') = Count + 1
          /\ Contents \in Seq(Char \ {DEL}) /\ Len(Contents) = Count /\ Count \in Nat
      BY <1>1, <3>01, FunctionIsSeq, ContentsSeq
    <3>2. /\ Append(Contents, Normalise(c)) \in Seq(Char \ {DEL})
          /\ Len(Append(Contents, Normalise(c))) = Count + 1
          /\ \A i \in 1..Count : Append(Contents, Normalise(c))[i] = Contents[i]
          /\ Append(Contents, Normalise(c))[Count + 1] = Normalise(c)
      BY <2>2, <3>1, AppendProperties
    <3>3. \A i \in 1..(Count + 1) : Contents'[i] = Append(Contents, Normalise(c))[i]
      BY <2>6, <2>7, <3>1, <3>2
    <3> QED
      BY <3>1, <3>2, <3>3, SeqEqual
  <2>10. Len(Contents) < INPUT_BUF_SIZE - 1
    BY <2>4, ContentsSeq
  <2> QED
    BY <2>1, <2>2, <2>8, <2>9, <2>10 DEF Q!Next, Q!Put
<1> QED
  BY <1>2, <1>3

(* console_getc: the oldest key leaves, or there was none. *)
LEMMA GetFacts ==
  ASSUME IInv, console_getc
  PROVE  IInv' /\ [Q!Next]_(Q!vars)
<1> DEFINE N == INPUT_BUF_SIZE
<1> USE InputRingAssumption
<1>1. /\ TypeOK /\ StoredKeysOnly /\ Count \in Slot /\ N \in Nat \ {0, 1}
      /\ Slot = 0..(N - 1) /\ input_head \in Slot /\ input_tail \in Slot
      /\ Count = IF input_head < input_tail THEN input_head - input_tail + N
                                            ELSE input_head - input_tail
  BY RingArithmetic, ContentsSeq DEF IInv, TypeOK, Count, Slot
<1>2. (input_head = input_tail) <=> (Count = 0)
  BY <1>1
<1>3. CASE input_head = input_tail
  <2>1. got' = NUL /\ UNCHANGED ringVars
    BY <1>3 DEF console_getc
  <2>2. IInv' /\ Contents' = Contents
    BY <1>1, <2>1 DEF ringVars, IInv, TypeOK, StoredKeysOnly, Count, Contents
  <2> QED
    BY ContentsSeq, <1>2, <1>3, <2>1, <2>2 DEF Q!Next, Q!Get
<1>4. CASE input_head # input_tail
  <2>1. /\ got' = input_buf[input_tail]
        /\ input_tail' = Advance(input_tail)
        /\ UNCHANGED <<input_buf, input_head>>
    BY <1>4 DEF console_getc
  <2>2. TypeOK'
    BY <1>1, <2>1, RingArithmetic DEF TypeOK
  <2>21. input_tail' = IF input_tail = N - 1 THEN 0 ELSE input_tail + 1
    BY <1>1, <2>1, RingArithmetic
  <2>3. Count' \in Slot /\ Count' = Count - 1 /\ Count > 0
    <3>1. /\ Count' = IF input_head' < input_tail' THEN input_head' - input_tail' + N
                                                   ELSE input_head' - input_tail'
          /\ Count' \in Slot
      BY <2>2, RingArithmetic DEF TypeOK, Count
    <3> QED
      BY <1>1, <1>4, <2>1, <2>21, <3>1
  <2>4. ASSUME NEW i \in 1..(Count - 1)
        PROVE  Contents'[i] = Contents[i + 1]
    <3>1. /\ SlotAt(input_tail', i)
               = IF input_tail' + i - 1 < N THEN input_tail' + i - 1 ELSE input_tail' + i - 1 - N
          /\ SlotAt(input_tail, i + 1)
               = IF input_tail + (i + 1) - 1 < N THEN input_tail + (i + 1) - 1
                                                 ELSE input_tail + (i + 1) - 1 - N
      <4>1. i \in 1..N /\ i + 1 \in 1..N /\ input_tail' \in Slot
        BY <1>1, <2>2 DEF TypeOK
      <4> QED
        BY <1>1, <4>1, SlotOfKey
    <3>2. SlotAt(input_tail', i) = SlotAt(input_tail, i + 1)
      BY <1>1, <2>21, <3>1
    <3>3. i \in 1..Count' /\ i + 1 \in 1..Count
      BY <1>1, <2>3
    <3> QED
      BY <2>1, <3>2, <3>3 DEF Contents
  <2>5. Contents[1] = input_buf[input_tail]
    <3>0. 1 \in 1..N
      BY <1>1
    <3>1. SlotAt(input_tail, 1) = input_tail /\ 1 \in 1..Count
      BY <1>1, <2>3, <3>0, SlotOfKey
    <3> QED
      BY <3>1 DEF Contents
  <2>6. IInv'
    <3>1. \A i \in 1..Count' : i \in 1..(Count - 1) /\ i + 1 \in 1..Count
      BY <1>1, <2>3 DEF Slot
    <3> QED
      BY <1>1, <2>2, <2>4, <3>1 DEF IInv, StoredKeysOnly
  <2>7. Contents' = Tail(Contents)
    <3>0. Contents' = [i \in 1..(Count - 1) |-> Contents'[i]]
      BY <2>3 DEF Contents
    <3>01. Contents' \in [1..(Count - 1) -> Char \ {DEL}] /\ Count - 1 \in Nat
      BY <1>1, <3>0, <2>3, <2>6 DEF IInv, StoredKeysOnly
    <3>1. Contents' \in Seq(Char \ {DEL}) /\ Len(Contents') = Count - 1
      BY <3>01, FunctionIsSeq
    <3>2. /\ Tail(Contents) \in Seq(Char \ {DEL})
          /\ Len(Tail(Contents)) = Count - 1
          /\ \A i \in 1..(Count - 1) : Tail(Contents)[i] = Contents[i + 1]
      BY ContentsSeq, <2>3, HeadTailProperties
    <3> QED
      BY <2>4, <3>1, <3>2, SeqEqual
  <2>8. Head(Contents) = Contents[1] /\ Contents # <<>>
    BY ContentsSeq, <2>3
  <2> QED
    BY <2>1, <2>5, <2>6, <2>7, <2>8 DEF Q!Next, Q!Get
<1> QED
  BY <1>3, <1>4

LEMMA StepFacts == IInv /\ [Next]_vars => IInv' /\ [Q!Next]_(Q!vars)
<1> SUFFICES ASSUME IInv, [Next]_vars PROVE IInv' /\ [Q!Next]_(Q!vars)
  OBVIOUS
<1>1. CASE \E c \in Char : console_poll_input(c)
  BY <1>1, PollFacts
<1>2. CASE console_getc
  BY <1>2, GetFacts
<1>3. CASE UNCHANGED vars
  BY <1>3 DEF vars, IInv, TypeOK, StoredKeysOnly, Count, Contents, Q!vars
<1> QED
  BY <1>1, <1>2, <1>3 DEF Next

(* The indices never leave the buffer, whatever its size. *)
THEOREM RingTypeCorrect == Spec => []TypeOK
<1>1. IInv => TypeOK
  BY DEF IInv
<1> QED
  BY <1>1, InitFacts, StepFacts, PTL DEF Spec

(* console_getc never mistakes a stored key for an empty buffer. *)
THEOREM RingHoldsKeys == Spec => []NoEmptySlotInQueue
<1>1. IInv => NoEmptySlotInQueue
  BY InputRingAssumption DEF IInv, StoredKeysOnly, NoEmptySlotInQueue
<1> QED
  BY <1>1, InitFacts, StepFacts, PTL DEF Spec

(* The ring buffer implements the bounded queue, for every size. *)
THEOREM RingIsQueue == Spec => ImplementsQueue
  BY InitFacts, StepFacts, PTL DEF Spec, ImplementsQueue, Q!Spec
=============================================================================
