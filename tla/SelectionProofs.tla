-------------------------- MODULE SelectionProofs ---------------------------
(***************************************************************************)
(* Facts about Selection, and the least element of a set of numbers.       *)
(***************************************************************************)
EXTENDS Selection, SequenceTheorems, WellFoundedInduction, TLAPS

(* Every non-empty set of natural numbers has a least element. *)
LEMMA LeastNatural ==
  ASSUME NEW S \in SUBSET Nat, S # {}
  PROVE  \E i \in S : \A j \in S : i <= j
<1> DEFINE R == OpToRel(<, Nat)
<1>1. IsWellFoundedOn(R, Nat)
  BY NatLessThanWellFounded
<1>2. PICK i \in S : \A j \in S : ~(<<j, i>> \in R)
  <2> HIDE DEF R
  <2> QED
    BY <1>1, WFMin
<1>3. \A a, b \in Nat : a < b => <<a, b>> \in R
  BY DEF OpToRel
<1>4. \A j \in S : i <= j
  <2> SUFFICES ASSUME NEW j \in S PROVE ~(j < i)
    OBVIOUS
  <2>1. i \in Nat /\ j \in Nat
    OBVIOUS
  <2>2. ~(<<j, i>> \in R)
    BY <1>2
  <2> HIDE DEF R
  <2> QED
    BY <1>3, <2>1, <2>2
<1> QED
  BY <1>4

(* A loop that has kept nothing yet. *)
LEMMA SelectEmpty ==
  ASSUME NEW s
  PROVE  IsSelection(<<>>, s, {})
<1>1. Len(<<>>) = 0 /\ 1..0 = {}
  BY EmptySeq
<1> DEFINE pos == [k \in 1..Len(<<>>) |-> 0]
<1>2. pos \in [1..Len(<<>>) -> {}]
  BY <1>1
<1> QED
  BY <1>1, <1>2 DEF IsSelection

(* A loop that takes one more element. *)
LEMMA SelectAppend ==
  ASSUME NEW S, NEW t \in Seq(S), NEW s, NEW keep, NEW m \in Nat,
         keep \subseteq Nat, \A i \in keep : i < m, s[m] \in S,
         IsSelection(t, s, keep)
  PROVE  IsSelection(Append(t, s[m]), s, keep \cup {m})
<1> DEFINE n == Len(t)
           u == Append(t, s[m])
<1>1. n \in Nat /\ u \in Seq(S) /\ Len(u) = n + 1 /\ u[n + 1] = s[m]
      /\ \A k \in 1..n : u[k] = t[k]
  BY AppendProperties
<1>2. PICK pos \in [1..n -> keep] :
        /\ \A k, l \in 1..n : k < l => pos[k] < pos[l]
        /\ \A i \in keep : \E k \in 1..n : pos[k] = i
        /\ \A k \in 1..n : t[k] = s[pos[k]]
  BY DEF IsSelection
<1> DEFINE new == [k \in 1..(n + 1) |-> IF k = n + 1 THEN m ELSE pos[k]]
<1>3. new \in [1..(n + 1) -> keep \cup {m}]
  BY <1>1
<1>4. new[n + 1] = m /\ \A k \in 1..n : new[k] = pos[k] /\ new[k] \in keep
  BY <1>1
<1> HIDE DEF new, n, u
<1>5. \A k \in 1..(n + 1) : k = n + 1 \/ k \in 1..n
  BY <1>1
<1>6. \A k, l \in 1..(n + 1) : k < l => new[k] < new[l]
  <2> SUFFICES ASSUME NEW k \in 1..(n + 1), NEW l \in 1..(n + 1), k < l
               PROVE  new[k] < new[l]
    OBVIOUS
  <2>1. k \in 1..n
    BY <1>1
  <2>2. CASE l = n + 1
    BY <1>4, <2>1, <2>2
  <2>3. CASE l \in 1..n
    BY <1>2, <1>4, <2>1, <2>3
  <2> QED
    BY <1>5, <2>2, <2>3
<1>7. \A i \in keep \cup {m} : \E k \in 1..(n + 1) : new[k] = i
  <2>1. n + 1 \in 1..(n + 1) /\ \A k \in 1..n : k \in 1..(n + 1)
    BY <1>1
  <2> QED
    BY <1>2, <1>4, <2>1
<1>8. \A k \in 1..(n + 1) : u[k] = s[new[k]]
  BY <1>1, <1>2, <1>4, <1>5
<1> QED
  BY <1>1, <1>3, <1>6, <1>7, <1>8 DEF IsSelection, u

(* Only the elements at the positions kept matter. *)
LEMMA SelectSame ==
  ASSUME NEW t, NEW s, NEW r, NEW keep,
         \A i \in keep : s[i] = r[i], IsSelection(t, s, keep)
  PROVE  IsSelection(t, r, keep)
  BY DEF IsSelection

(* The list grows and there is room for the new element. *)
LEMMA FirstAppend ==
  ASSUME NEW S, NEW t \in Seq(S), NEW s \in Seq(S), NEW e \in S, NEW keep, NEW max,
         keep \subseteq 1..Len(s), Len(t) # max, SelectsFirst(t, s, keep, max)
  PROVE  SelectsFirst(Append(t, e), Append(s, e), keep \cup {Len(s) + 1}, max)
<1> DEFINE n == Len(s)
           r == Append(s, e)
<1>1. n \in Nat /\ r \in Seq(S) /\ Len(r) = n + 1 /\ r[n + 1] = e /\ \A k \in 1..n : r[k] = s[k]
  BY AppendProperties
<1>2. IsSelection(t, s, {i \in keep : i <= n})
  BY DEF SelectsFirst
<1> HIDE DEF r, n
<1>3. \A i \in keep : i \in Nat /\ i \in 1..n /\ i <= n
  <2> SUFFICES ASSUME NEW i \in keep PROVE i \in Nat /\ i \in 1..n /\ i <= n
    OBVIOUS
  <2>1. i \in 1..n
    BY DEF n
  <2> QED
    BY <1>1, <2>1
<1>4. {i \in keep : i <= n} = keep
  BY <1>3
<1>5. IsSelection(t, r, keep)
  BY <1>1, <1>2, <1>3, <1>4, SelectSame
<1>6. \A i \in keep : i < n + 1 /\ i <= n + 1
  BY <1>1, <1>3
<1>7. IsSelection(Append(t, e), r, keep \cup {n + 1})
  <2>1. n + 1 \in Nat /\ r[n + 1] \in S
    BY <1>1
  <2>2. IsSelection(Append(t, r[n + 1]), r, keep \cup {n + 1})
    BY <1>3, <1>5, <1>6, <2>1, SelectAppend
  <2> QED
    BY <1>1, <2>2
<1>8. {i \in keep \cup {n + 1} : i <= n + 1} = keep \cup {n + 1}
  <2>1. \A i \in keep \cup {n + 1} : i <= n + 1
    BY <1>1, <1>6
  <2> QED
    BY <2>1
<1>9. n + 1 \in 0..Len(r) /\ n + 1 = Len(r)
  BY <1>1
<1> QED
  BY <1>7, <1>8, <1>9 DEF SelectsFirst, r, n

(* The list grows by an element that is not kept. *)
LEMMA FirstSkip ==
  ASSUME NEW S, NEW t, NEW s \in Seq(S), NEW e \in S, NEW keep, NEW max,
         keep \subseteq 1..Len(s), SelectsFirst(t, s, keep, max)
  PROVE  SelectsFirst(t, Append(s, e), keep, max)
<1> DEFINE n == Len(s)
           r == Append(s, e)
<1>1. n \in Nat /\ r \in Seq(S) /\ Len(r) = n + 1 /\ \A k \in 1..n : r[k] = s[k]
  BY AppendProperties
<1>2. PICK m \in 0..n : (m = n \/ Len(t) = max) /\ IsSelection(t, s, {i \in keep : i <= m})
  BY DEF SelectsFirst
<1> HIDE DEF r, n
<1>3. keep \subseteq 1..n
  BY DEF n
<1>4. IsSelection(t, r, {i \in keep : i <= m})
  BY <1>1, <1>2, <1>3, SelectSame
<1>5. CASE m = n
  <2>1. {i \in keep : i <= n + 1} = {i \in keep : i <= n}
    <3> SUFFICES ASSUME NEW i \in keep PROVE i <= n + 1 <=> i <= n
      OBVIOUS
    <3>1. i \in 1..n
      BY <1>3
    <3> QED
      BY <1>1, <3>1
  <2>2. IsSelection(t, r, {i \in keep : i <= n + 1})
    BY <1>4, <1>5, <2>1
  <2>3. n + 1 \in 0..Len(r) /\ n + 1 = Len(r)
    BY <1>1
  <2> QED
    BY <2>2, <2>3 DEF SelectsFirst, r
<1>6. CASE m # n
  <2>1. m \in 0..Len(r) /\ Len(t) = max
    BY <1>1, <1>2, <1>6
  <2> QED
    BY <1>4, <2>1 DEF SelectsFirst, r
<1> QED
  BY <1>5, <1>6

(* The list grows by an element for which there is no room. *)
LEMMA FirstFull ==
  ASSUME NEW S, NEW t, NEW s \in Seq(S), NEW e \in S, NEW keep, NEW max,
         keep \subseteq 1..Len(s), Len(t) = max, SelectsFirst(t, s, keep, max)
  PROVE  SelectsFirst(t, Append(s, e), keep \cup {Len(s) + 1}, max)
<1> DEFINE n == Len(s)
           r == Append(s, e)
<1>1. n \in Nat /\ r \in Seq(S) /\ Len(r) = n + 1 /\ \A k \in 1..n : r[k] = s[k]
  BY AppendProperties
<1>2. PICK m \in 0..n : IsSelection(t, s, {i \in keep : i <= m})
  BY DEF SelectsFirst
<1> HIDE DEF r, n
<1>3. keep \subseteq 1..n
  BY DEF n
<1>4. IsSelection(t, r, {i \in keep : i <= m})
  BY <1>1, <1>2, <1>3, SelectSame
<1>5. {i \in keep \cup {n + 1} : i <= m} = {i \in keep : i <= m}
  BY <1>1, <1>2
<1>6. m \in 0..Len(r)
  BY <1>1
<1> QED
  BY <1>4, <1>5, <1>6 DEF SelectsFirst, r, n
=============================================================================
