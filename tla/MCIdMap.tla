------------------------------ MODULE MCIdMap -------------------------------
(***************************************************************************)
(* Finite instances of the id map for TLC.                                 *)
(***************************************************************************)
EXTENDS IdMap, TLC

(* Ids and handles are only compared, and every hash is an initial state. *)
Symmetry == Permutations(Key) \cup Permutations(Value)

(***************************************************************************)
(* What TLC tells states apart by.  An answer is observed in the step that *)
(* gives it, which TLC checks whether or not it has seen the state the     *)
(* step leads to; no later step depends on it.                             *)
(***************************************************************************)
View == <<table, size, home, pc, arg, at, hole>>
=============================================================================
