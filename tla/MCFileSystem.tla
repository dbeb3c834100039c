---------------------------- MODULE MCFileSystem ----------------------------
(***************************************************************************)
(* Small instances of FileSystem.  "p" and "q" are names that fit; "p+"    *)
(* and "q+" stand for longer ones whose first 31 characters are "p", "q".  *)
(***************************************************************************)
EXTENDS FileSystem

LongNames == {"p", "p+", "q+", "q"}

LongStored == [n \in LongNames |-> CASE n = "p+" -> "p" [] n = "q+" -> "q" [] OTHER -> n]

(* An empty write, one that fills a slot, one that does not fit. *)
Writes == {<<>>, <<1>>, <<2, 2>>, <<1, 2, 1>>}
=============================================================================
