-------------------------- MODULE MCBookRefinement --------------------------
(***************************************************************************)
(* Finite instances of the refinement for TLC.                             *)
(***************************************************************************)
EXTENDS MCBook, BookRefinement

(* Orders that never rest come from one account, and of the orders with no *)
(* quantity, all refused alike, one of each kind is enough.                *)
OracleCommands ==
  {c \in MCCommands :
     /\ c.kind = "Market" \/ c.tif # "GTC" => c.account = 0
     /\ c.qty = 0 /\ c.kind # "Cancel" => /\ c.side = "Buy" /\ c.account = 0
                                         /\ c.price = PriceMin /\ c.tif = "GTC"}

(***************************************************************************)
(* What TLC tells states apart by.  What the last command was and returned *)
(* is observed in the step in which it returns, which TLC checks whether   *)
(* or not it has seen the state the step leads to; no later step depends   *)
(* on it.                                                                  *)
(***************************************************************************)
View == <<poolVars, level, prices, id_map, counterVars,
          pc, cmd, left, idx, walked, total,
          IF pc = "idle" THEN <<>>
          ELSE <<result, before.orders, before.next_seq, before.next_trade_id>>>>
=============================================================================
