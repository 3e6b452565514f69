--------------------------- MODULE MCPriceLevels ----------------------------
(***************************************************************************)
(* Finite instances of the price levels for TLC.                           *)
(***************************************************************************)
EXTENDS PriceLevels

(***************************************************************************)
(* What TLC tells states apart by.  An answer is observed in the step that *)
(* gives it, which TLC checks whether or not it has seen the state the     *)
(* step leads to; no later step depends on it.                             *)
(***************************************************************************)
View == <<side, levels, count>>
=============================================================================
