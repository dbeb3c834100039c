----------------------------- MODULE Selection ------------------------------
(***************************************************************************)
(* Loops that keep some of the elements of a list, in order, in an array   *)
(* that may be too short: what the array then holds.                       *)
(***************************************************************************)
EXTENDS Naturals, Sequences

(* t consists of the elements of s at the positions in keep, in order. *)
IsSelection(t, s, keep) ==
  \E pos \in [1..Len(t) -> keep] :
    /\ \A k, l \in 1..Len(t) : k < l => pos[k] < pos[l]
    /\ \A i \in keep : \E k \in 1..Len(t) : pos[k] = i
    /\ \A k \in 1..Len(t) : t[k] = s[pos[k]]

(* The same up to a position m: at the end of s, or where t became full. *)
SelectsFirst(t, s, keep, max) ==
  \E m \in 0..Len(s) : /\ m = Len(s) \/ Len(t) = max
                       /\ IsSelection(t, s, {i \in keep : i <= m})
=============================================================================
