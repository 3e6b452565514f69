---------------------------- MODULE EngineTypes ----------------------------
(***************************************************************************)
(* The vocabulary of the engine: include/engine/types.hpp and              *)
(* include/engine/command.hpp.  Integer types are ranges with named ends,  *)
(* so that the same modules are checked on small ranges and proved for     *)
(* every range, the ones of the code (int64 prices, uint32 quantities)     *)
(* included.                                                               *)
(***************************************************************************)
EXTENDS Integers

CONSTANTS OrderId,            \* the order identifiers a producer may use
          Account,            \* the accounts, compared by self-trade prevention
          PriceMin, PriceMax, \* the ends of the int64 price range
          QtyModulus,         \* 2^32 in the code: a Qty is a number below it
          Capacity,           \* the number of slots of the order pool
          Undef               \* the content of memory that holds no value

ASSUME PriceAssumption == /\ PriceMin \in Int
                          /\ PriceMax \in Int
                          /\ 0 \in PriceMin .. PriceMax

ASSUME AccountAssumption == 0 \in Account

ASSUME QtyAssumption == QtyModulus \in Nat \ {0}

ASSUME CapacityAssumption == Capacity \in Nat

-----------------------------------------------------------------------------

Price == PriceMin .. PriceMax

Qty == 0 .. QtyModulus - 1

(* kNilIndex is the largest Index of the code, which no pool can reach. *)
Index == 0 .. Capacity - 1

kNilIndex == -1

IndexOrNil == Index \cup {kNilIndex}

Side == {"Buy", "Sell"}

Opposite(side) == IF side = "Buy" THEN "Sell" ELSE "Buy"

TimeInForce == {"GTC", "IOC", "FOK"}

(***************************************************************************)
(* An order as its producer and the audit see it.  Its two link fields,    *)
(* next_idx and prev_idx, are kept apart (see FixedPool): only the level   *)
(* lists use them.                                                         *)
(***************************************************************************)
Order == [price: Price, qty: Qty, side: Side, order_id: OrderId,
          account: Account, seq_no: Nat]

CommandKind == {"Limit", "Market", "Cancel", "Modify"}

Command == [kind: CommandKind, id: OrderId, side: Side, tif: TimeInForce,
            price: Price, qty: Qty, account: Account]

ASSUME UndefAssumption == Undef \notin Order /\ Undef \notin Command
                          /\ Undef \notin IndexOrNil

(* The constructors leave the fields a kind does not use at their defaults. *)
limit_command(id, side, price, qty, account, tif) ==
  [kind |-> "Limit", id |-> id, side |-> side, tif |-> tif,
   price |-> price, qty |-> qty, account |-> account]

market_command(id, side, qty, account) ==
  [kind |-> "Market", id |-> id, side |-> side, tif |-> "GTC",
   price |-> 0, qty |-> qty, account |-> account]

cancel_command(id) ==
  [kind |-> "Cancel", id |-> id, side |-> "Buy", tif |-> "GTC",
   price |-> 0, qty |-> 0, account |-> 0]

modify_command(id, price, qty) ==
  [kind |-> "Modify", id |-> id, side |-> "Buy", tif |-> "GTC",
   price |-> price, qty |-> qty, account |-> 0]

(* Is price a ahead of price b among the resting orders of a side? *)
Better(side, a, b) == IF side = "Buy" THEN a > b ELSE a < b

(* Does an incoming order of this side and limit trade with a resting price? *)
Crosses(side, resting, limit) ==
  IF side = "Buy" THEN resting <= limit ELSE resting >= limit
=============================================================================
