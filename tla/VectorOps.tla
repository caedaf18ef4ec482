----------------------------- MODULE VectorOps -----------------------------
(***************************************************************************)
(* The way the program erases an element of a vector whose order does not  *)
(* matter: table.cc does so with cards and players.                        *)
(***************************************************************************)
EXTENDS Integers, Sequences

\* Remove position pos of s: the last element takes its place.
SwapOut(s, pos) ==
  [k \in 1..(Len(s) - 1) |-> IF k = pos THEN s[Len(s)] ELSE s[k]]
=============================================================================
