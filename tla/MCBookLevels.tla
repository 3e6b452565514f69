---------------------------- MODULE MCBookLevels ----------------------------
(***************************************************************************)
(* Finite instances of the book with its arrays for TLC.                   *)
(***************************************************************************)
EXTENDS MCBook, BookLevels

(* Fill-or-kill orders only read the levels: those of one account that     *)
(* sell at any price are enough to walk them.  A modify to the largest     *)
(* quantity keeps some orders in place and moves the others.               *)
LevelCommands ==
  {c \in MCCommands :
     /\ c.tif = "FOK" => /\ c.side = "Sell" /\ c.price = PriceMin
                         /\ c.account = 0 /\ c.qty = 2
     /\ c.kind = "Modify" => c.qty = 2}

(***************************************************************************)
(* What TLC tells states apart by: what a command returned is observed in  *)
(* the step in which it returns, and no later step depends on it.  Cells   *)
(* past the count are written before they are read.                        *)
(***************************************************************************)
View == <<poolVars, level, prices, id_map, counterVars, pc, cmd, left, idx,
          walked, total, IF pc = "idle" THEN <<>> ELSE result, ref,
          [s \in Side |-> [i \in 0 .. arrays[s].count - 1 |->
                             arrays[s].levels[i]]]>>
=============================================================================
