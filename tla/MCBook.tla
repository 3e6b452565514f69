------------------------------- MODULE MCBook -------------------------------
(***************************************************************************)
(* Finite instances of the book for TLC.                                   *)
(***************************************************************************)
EXTENDS BookProperties, TLC

CONSTANTS Kinds,              \* the kinds of command submitted
          Quantities,         \* the quantities the commands carry
          Tifs                \* the times in force of the limit orders

AllCommands ==
  {limit_command(id, s, p, q, a, tif) :
     id \in OrderId, s \in Side, p \in Price, q \in Quantities,
     a \in Account, tif \in Tifs}
  \cup {market_command(id, s, q, a) :
          id \in OrderId, s \in Side, q \in Quantities, a \in Account}
  \cup {cancel_command(id) : id \in OrderId}
  \cup {modify_command(id, p, q) :
          id \in OrderId, p \in Price, q \in Quantities}

MCCommands == {c \in AllCommands : c.kind \in Kinds}

(* The same with an account per order id: one id has account 1 and the     *)
(* others have account 0, so a taker meets its own orders and others' in   *)
(* every order (which of the two accounts it has makes no difference).     *)
AccountCommands ==
  LET own == CHOOSE id \in OrderId : TRUE
  IN  {c \in MCCommands : IsAdd(c) => c.account = IF c.id = own THEN 1 ELSE 0}

(* The book only compares order ids for equality. *)
Symmetry == Permutations(OrderId)
=============================================================================
