------------------------------ MODULE MCBench --------------------------------
(***************************************************************************)
(* Finite instances of the benchmark programs for TLC.                     *)
(***************************************************************************)
EXTENDS Bench

(* The commands generate() can emit. *)
W1Commands ==
  {limit_command(id, s, p, q, id, "GTC") :
     id \in OrderId, s \in Side, p \in Price, q \in 1 .. MaxQty}
  \cup {cancel_command(id) : id \in OrderId}
==============================================================================
