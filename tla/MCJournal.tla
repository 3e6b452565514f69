----------------------------- MODULE MCJournal ------------------------------
(***************************************************************************)
(* Finite instances of the journal for TLC.                                *)
(***************************************************************************)
EXTENDS Journal

CONSTANT Id

(* One command of each kind. *)
EveryKind == {cancel_command(Id), modify_command(Id, 1, 1),
              market_command(Id, "Sell", 1, 1),
              limit_command(Id, "Sell", 1, 1, 1, "IOC")}

(* The reader works on its copy: once that is taken, what the writer does  *)
(* changes nothing the properties speak of.                                *)
View == IF reader = "none" THEN <<writerVars, reader>> ELSE readerVars
=============================================================================
