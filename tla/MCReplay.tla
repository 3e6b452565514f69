------------------------------ MODULE MCReplay -------------------------------
(***************************************************************************)
(* Finite instances of the replay for TLC.                                 *)
(***************************************************************************)
EXTENDS MCBook, Replay
==============================================================================
