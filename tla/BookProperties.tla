--------------------------- MODULE BookProperties ---------------------------
(***************************************************************************)
(* What makes the book correct.  The invariants are stated for every       *)
(* program point, not only between commands: they say what the code may    *)
(* rely on in the middle of a sweep or of a repositioning.                 *)
(***************************************************************************)
EXTENDS Book

-----------------------------------------------------------------------------
(* Vocabulary. *)

(* The slot holds an order that is linked into a level list: every order   *)
(* in the pool but the one that is being placed.                           *)
Placing(i) == pc \in {"move", "append"} /\ i = idx

Linked(i) == Live(i) /\ ~Placing(i)

Queue(side, price) ==
  {i \in Index : Linked(i) /\ slots[i].side = side /\ slots[i].price = price}

(* n is the link from i to the next order of Q in the direction Before. *)
Links(Q, i, n, Before(_, _)) ==
  IF n = kNilIndex
    THEN \A j \in Q \ {i} : Before(j, i)
    ELSE /\ n \in Q \ {i}
         /\ Before(i, n)
         /\ \A j \in Q \ {i, n} : Before(j, i) \/ Before(n, j)

Earlier(i, j) == slots[i].seq_no < slots[j].seq_no

Later(i, j) == Earlier(j, i)

(* i, which may be nil, is the first order of Q. *)
First(Q, i, Before(_, _)) ==
  IF i = kNilIndex THEN Q = {}
                   ELSE i \in Q /\ \A j \in Q \ {i} : Before(i, j)

(* Price-time priority between two resting orders of one side. *)
Ahead(a, b) == \/ a.side = "Buy" /\ a.price > b.price
               \/ a.side = "Sell" /\ a.price < b.price
               \/ a.price = b.price /\ a.seq_no < b.seq_no

(* The running add accepts to trade at this price. *)
Acceptable(price) == \/ cmd.kind = "Market"
                     \/ cmd.side = "Buy" /\ price <= cmd.price
                     \/ cmd.side = "Sell" /\ price >= cmd.price

(* The slots of the resting orders the running add could trade with. *)
Marketable == {i \in Index : /\ Linked(i)
                             /\ slots[i].side = Opposite(cmd.side)
                             /\ Acceptable(slots[i].price)}

(* The running command returns in this step. *)
Returns == pc # "idle" /\ pc' = "idle"

-----------------------------------------------------------------------------
(* Invariants. *)

(***************************************************************************)
(* The book is never crossed, at any program point: every bid level is     *)
(* below every ask level.  add_limit_order may only create a level once    *)
(* its sweep has removed everything it crosses, and modify_order refuses a *)
(* price that would trade (invariant_violation: "book is crossed").        *)
(***************************************************************************)
NotCrossed == \A b \in prices["Buy"], a \in prices["Sell"] : b < a

(***************************************************************************)
(* The links of level.hpp are exactly the time order of the orders at that *)
(* price: next_idx and prev_idx lead to the neighbours by seq_no, head and *)
(* tail are the first and last, and no order with quantity 0 rests.  These *)
(* are the list checks of check_side, at every program point.              *)
(***************************************************************************)
QueuesInTimeOrder ==
  \A side \in Side, price \in Price :
    LET Q == Queue(side, price)
    IN  /\ \A i \in Q : /\ slots[i].qty > 0
                        /\ Links(Q, i, next_idx[i], Earlier)
                        /\ Links(Q, i, prev_idx[i], Later)
        /\ First(Q, level[side][price].head, Earlier)
        /\ First(Q, level[side][price].tail, Later)

(***************************************************************************)
(* A side has a level exactly where it has orders: cross, cancel_order,    *)
(* modify_order and a failed rest all remove the level they empty.  Only   *)
(* the level of the order being placed may be empty.                       *)
(***************************************************************************)
LevelsHoldOrders ==
  \A side \in Side, price \in Price :
    \/ price \in prices[side] <=> Queue(side, price) # {}
    \/ pc = "allocate" /\ cmd.side = side /\ cmd.price = price
    \/ pc = "append" /\ slots[idx].side = side /\ slots[idx].price = price

(***************************************************************************)
(* A side never needs more levels than the constructor of Book gives it,   *)
(* so get_or_insert never writes past its array, not even while rest has   *)
(* made a level for an order that finds no slot.                           *)
(***************************************************************************)
LevelsFit == \A side \in Side : Cardinality(prices[side]) <= LevelRoom

(***************************************************************************)
(* The id map and the pool agree: every entry is a handle that validates   *)
(* and leads to the order of that id, and every order in the pool is found *)
(* by its id, except one that rest has not yet announced.                  *)
(***************************************************************************)
IdMapExact ==
  /\ \A id \in OrderId :
       contains(id) => /\ validate(id_map[id])
                       /\ Live(id_map[id].index)
                       /\ slots[id_map[id].index].order_id = id
  /\ \A i \in Index :
       Live(i) => \/ id_map[slots[i].order_id] = handle_of(i)
                  \/ /\ pc = "append" /\ i = idx /\ IsAdd(cmd)
                     /\ ~contains(slots[i].order_id)

(* The n-th slot of the free list, as free_slots() walks it. *)
FreeSlot[n \in 0 .. Capacity] ==
  IF n = 0 THEN free_head
           ELSE LET prev == FreeSlot[n - 1]
                IN  IF prev \in Index THEN next_free[prev] ELSE kNilIndex

(***************************************************************************)
(* The free list reaches every slot without an order once and ends: no     *)
(* slot is leaked, freed twice, or free and in use at the same time.       *)
(***************************************************************************)
FreeListExact ==
  LET Free == {i \in Index : ~Live(i)}
      n == Cardinality(Free)
  IN  /\ {FreeSlot[k] : k \in 0 .. n - 1} = Free
      /\ FreeSlot[n] = kNilIndex

-----------------------------------------------------------------------------
(* The inductive invariant.                                                *)

(***************************************************************************)
(* seq_no is a strict order on the orders in the pool, and the running     *)
(* command's own number is above all those of the orders it finds there.   *)
(* This is what makes a list by arrival a list by seq_no.                  *)
(***************************************************************************)
SeqNosOrdered ==
  /\ \A i \in Index : Live(i) => slots[i].seq_no < next_seq
  /\ \A i, j \in Index :
       Live(i) /\ Live(j) /\ i # j => slots[i].seq_no # slots[j].seq_no
  /\ pc \in {"fok", "cross", "rest", "allocate"} =>
       next_seq > 0 /\ \A i \in Index : Live(i) => slots[i].seq_no < seq
  /\ pc \in {"move", "append"} =>
       next_seq > 0 /\ slots[idx].seq_no = seq

(* The free list stays among the free slots, joins nowhere and does not    *)
(* come back to its head.                                                  *)
FreeLinks ==
  /\ free_head # kNilIndex => ~Live(free_head)
  /\ \A i \in Index : ~Live(i) =>
       /\ next_free[i] \in IndexOrNil
       /\ next_free[i] # kNilIndex =>
            /\ ~Live(next_free[i])
            /\ next_free[i] # free_head
            /\ \A j \in Index :
                 ~Live(j) /\ next_free[j] = next_free[i] => j = i

(* What each program point knows of the command it is in. *)
CommandOK ==
  /\ pc = "idle" => cmd = Undef
  /\ pc # "idle" => cmd \in Command
  /\ pc \in {"fok", "cross", "rest", "allocate"} =>
       IsAdd(cmd) /\ ~contains(cmd.id)
  /\ pc \in {"rest", "allocate"} => cmd.kind = "Limit" /\ left > 0
  /\ pc \in {"idle", "cross", "rest", "allocate"} => idx = kNilIndex
  /\ pc = "move" => cmd.kind = "Modify"
  /\ pc \in {"move", "append"} =>
       idx # kNilIndex /\ Live(idx) /\ slots[idx].qty > 0
  /\ pc = "fok" /\ idx # kNilIndex =>
       Live(idx) /\ slots[idx].side = Opposite(cmd.side)

(* The level an order is about to be appended to exists, once it has been  *)
(* asked for.                                                              *)
PendingLevel ==
  /\ pc = "allocate" => cmd.price \in prices[cmd.side]
  /\ pc = "append" => slots[idx].price \in prices[slots[idx].side]

(* The order about to be placed does not cross the opposite side. *)
PendingNotCrossing ==
  /\ pc \in {"rest", "allocate"} =>
       \A p \in prices[Opposite(cmd.side)] :
         ~Crosses(cmd.side, p, cmd.price)
  /\ pc \in {"move", "append"} =>
       \A p \in prices[Opposite(slots[idx].side)] :
         ~Crosses(slots[idx].side, p, slots[idx].price)

(***************************************************************************)
(* The conjunction the proofs carry from step to step: the structural      *)
(* invariants above and what the program points add to them.               *)
(***************************************************************************)
IndInv == /\ TypeOK
          /\ CommandOK
          /\ SeqNosOrdered
          /\ FreeLinks
          /\ QueuesInTimeOrder
          /\ LevelsHoldOrders
          /\ PendingLevel
          /\ IdMapExact
          /\ NotCrossed
          /\ PendingNotCrossing

-----------------------------------------------------------------------------
(* Action properties. *)

(* If this step adds a trade, it is with the best order. *)
TradesWithTheBest ==
  Len(result'.trades) > Len(result.trades) =>
    LET t == result'.trades[Len(result'.trades)]
    IN  \E i \in Marketable :
          /\ t.maker_order_id = slots[i].order_id
          /\ t.price = slots[i].price
          /\ t.qty > 0 /\ t.qty <= slots[i].qty
          /\ slots[i].account # cmd.account
          /\ \A j \in Index \ {i} :
               Linked(j) /\ slots[j].side = slots[i].side
                 => Ahead(slots[i], slots[j])

(***************************************************************************)
(* Each trade is with the resting order that has price-time priority over  *)
(* every other order of its side, at that order's price, within the limit  *)
(* of the incoming order, and never with an order of the same account.     *)
(***************************************************************************)
BestExecution == [][TradesWithTheBest]_vars

(***************************************************************************)
(* An add leaves quantity unfilled for a reason the caller can see: with   *)
(* stp_rejected, the best order it could still trade with is its own and   *)
(* nothing rests; without it, nothing is left that it could trade with,    *)
(* unless a fill-or-kill order was refused before trading.                 *)
(***************************************************************************)
RemainderExplained ==
  [][Returns /\ IsAdd(cmd) /\ left > 0 =>
       \/ pc = "fok" /\ result'.trades = <<>>
       \/ /\ result'.stp_rejected
          /\ result'.resting_qty = 0
          /\ \E i \in Marketable :
               /\ slots[i].account = cmd.account
               /\ \A j \in Marketable \ {i} : Ahead(slots[i], slots[j])
       \/ /\ ~result'.stp_rejected
          /\ Marketable = {}]_vars

(***************************************************************************)
(* A residual is dropped for want of room only when every slot of the pool *)
(* holds an order: slots of filled and cancelled orders all come back, and *)
(* those the sweep itself has just freed are there for its own residual.   *)
(***************************************************************************)
DroppedOnlyWhenFull ==
  [][Returns /\ result'.pool_exhausted => \A i \in Index : Live(i)]_vars

(* The quantity of a sequence of trades. *)
Traded(trades) ==
  LET sum[k \in 0 .. Len(trades)] ==
        IF k = 0 THEN 0 ELSE sum[k - 1] + trades[k].qty
  IN  sum[Len(trades)]

(***************************************************************************)
(* Quantity is neither lost nor made: when an add returns, its trades and  *)
(* what rests add up to its quantity, unless the remainder is dropped by a *)
(* rule the result names or the time in force implies.                     *)
(***************************************************************************)
QuantityAccounted ==
  [][Returns /\ IsAdd(cmd) =>
       /\ Traded(result'.trades) + result'.resting_qty <= cmd.qty
       /\ Traded(result'.trades) + result'.resting_qty < cmd.qty
            => \/ result'.stp_rejected
               \/ result'.pool_exhausted
               \/ cmd.kind = "Market" \/ cmd.tif # "GTC"]_vars

(***************************************************************************)
(* A fill-or-kill order trades its whole quantity or not at all: what the  *)
(* walk of available_before_self_trade counted is what cross then fills,   *)
(* with the same price bound and the same stop at the taker's own orders.  *)
(***************************************************************************)
FokAllOrNothing ==
  [][Returns /\ cmd.kind = "Limit" /\ cmd.tif = "FOK"
       => Traded(result'.trades) \in {0, cmd.qty}]_vars

(* What the sweep of the running add could take: everything it crosses     *)
(* ahead of the first order of its own account.                            *)
Reachable == {i \in Marketable :
                \A j \in Marketable :
                  slots[j].account = cmd.account => Ahead(slots[i], slots[j])}

QtyOf(S) ==
  LET sum[T \in SUBSET Index] ==
        IF T = {} THEN 0
        ELSE LET i == CHOOSE i \in T : TRUE
             IN  slots[i].qty + sum[T \ {i}]
  IN  sum[S]

(***************************************************************************)
(* A fill-or-kill order is refused only if the liquidity it could reach is *)
(* less than its quantity (docs/spec.md S5: "pre-check total available     *)
(* quantity at the limit price. If insufficient, reject").                 *)
(***************************************************************************)
FokRefusedOnlyIfShort ==
  [][Returns /\ pc = "fok" => QtyOf(Reachable) < cmd.qty]_vars

-----------------------------------------------------------------------------
(* Liveness. *)

(***************************************************************************)
(* Every command that starts returns: neither the sweep, which erases      *)
(* levels while it iterates, nor the walk of the fill-or-kill check loops  *)
(* forever or stops half way.                                              *)
(***************************************************************************)
CommandsReturn == pc # "idle" ~> pc = "idle"
=============================================================================
