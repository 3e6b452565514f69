------------------------------- MODULE Book --------------------------------
(***************************************************************************)
(* The order book, include/engine/book.hpp: limit orders (GTC, IOC, FOK),  *)
(* market orders, cancel and modify, with price-time priority and          *)
(* self-trade prevention.                                                  *)
(*                                                                         *)
(* One thread runs one command at a time to completion.  A command starts  *)
(* when pc is "idle"; cancel and every refusal finish in the same step, an *)
(* accepted add or a repositioning modify goes through the program points  *)
(* below, one step per iteration of the code's loops, and nothing else     *)
(* runs meanwhile:                                                         *)
(*                                                                         *)
(*   "fok"       available_before_self_trade walks the opposite levels     *)
(*   "cross"     cross sweeps the opposite levels                          *)
(*   "rest"      rest is about to get the level of the residual            *)
(*   "allocate"  rest has its level and asks the pool for a slot           *)
(*   "move"      modify_order has unlinked the order and rewritten it      *)
(*   "append"    order idx is about to be appended to its level            *)
(*                                                                         *)
(* The two PriceLevels containers are used through their interface: the    *)
(* set of prices that have a level, ordered by Better.  So is the IdMap:   *)
(* a function that is NilHandle where the table has no entry.              *)
(***************************************************************************)
EXTENDS Level, Sequences, FiniteSets

CONSTANTS Commands,           \* the commands producers submit
          MaxCommands         \* bound: commands run in one behaviour

ASSUME CommandsAssumption == Commands \subseteq Command

ASSUME MaxCommandsAssumption == MaxCommands \in Nat

VARIABLES prices,             \* bids_ and asks_: the prices that have a level
          id_map,             \* id_map_
          next_seq,           \* next_seq_
          next_trade_id,      \* next_trade_id_
          pc,                 \* where the running command is
          cmd,                \* the running command
          left,               \* incoming.qty
          idx,                \* order walked by the FOK check, or placed
          walked,             \* prices the FOK check has come to
          total,              \* the FOK check's running total
          result              \* the caller's AddResult, or the bool returned

commandVars == <<pc, cmd, left, idx, walked, total, result>>

counterVars == <<next_seq, next_trade_id>>

vars == <<poolVars, level, prices, id_map, counterVars, commandVars>>

-----------------------------------------------------------------------------

ProgramPoint ==
  {"idle", "fok", "cross", "rest", "allocate", "move", "append"}

Trade == [maker_order_id: OrderId, taker_order_id: OrderId, price: Price,
          qty: Qty, trade_id: Nat, seq_no: Nat]

AddResult == [accepted: BOOLEAN, trades: Seq(Trade), resting_qty: Qty,
              stp_rejected: BOOLEAN, pool_exhausted: BOOLEAN]

(* An AddResult after reset(), with accepted set. *)
Outcome(ok) == [accepted |-> ok, trades |-> <<>>, resting_qty |-> 0,
                stp_rejected |-> FALSE, pool_exhausted |-> FALSE]

TypeOK ==
  /\ PoolTypeOK
  /\ LevelTypeOK
  /\ prices \in [Side -> SUBSET Price]
  /\ id_map \in [OrderId -> Handle]
  /\ next_seq \in 0 .. MaxCommands
  /\ next_trade_id \in Nat
  /\ pc \in ProgramPoint
  /\ cmd \in Command \cup {Undef}
  /\ left \in Qty
  /\ idx \in IndexOrNil
  /\ walked \in SUBSET Price
  /\ total \in Qty
  /\ result \in AddResult

Init ==
  /\ PoolInit
  /\ LevelInit
  /\ prices = [s \in Side |-> {}]
  /\ id_map = [id \in OrderId |-> NilHandle]
  /\ next_seq = 0
  /\ next_trade_id = 0
  /\ pc = "idle"
  /\ cmd = Undef
  /\ left = 0
  /\ idx = kNilIndex
  /\ walked = {}
  /\ total = 0
  /\ result = Outcome(FALSE)

-----------------------------------------------------------------------------
(* The containers and small helpers. *)

contains(id) == id_map[id] # NilHandle

id_insert(id, h) == id_map' = [id_map EXCEPT ![id] = h]

(* Fault: the entry of an order that leaves the book stays in the map. *)
id_erase_forgotten(id) == UNCHANGED id_map

id_erase(id) == id_map' = [id_map EXCEPT ![id] = NilHandle]

(* The price best() and by_rank() give among a set of a side's levels. *)
IsBest(side, S, p) == p \in S /\ \A q \in S \ {p} : Better(side, p, q)

(* Fault: no room for the level rest makes before it asks the pool. *)
LevelRoomTight == Capacity

(* How many levels the constructor gives each side. *)
LevelRoom == Capacity + 1

level_for_insert(side, price) ==
  prices' = [prices EXCEPT ![side] = @ \cup {price}]

erase_level(side, price) ==
  prices' = [prices EXCEPT ![side] = @ \ {price}]

(* Fault: an emptied level stays among the side's levels. *)
EraseNever(side, price, lvl) == UNCHANGED prices

(* Erase the level if it has just become empty. *)
EraseIfEmpty(side, price, lvl) ==
  IF lvl.head = kNilIndex THEN erase_level(side, price) ELSE UNCHANGED prices

(* Fault: a price equal to the opposite best does not count as crossing. *)
would_cross_strict(side, price) ==
  \E p \in prices[Opposite(side)] : Better(Opposite(side), p, price)

would_cross(side, price) ==
  \E p \in prices[Opposite(side)] :
    IsBest(Opposite(side), prices[Opposite(side)], p) /\ Crosses(side, p, price)

(* The seq_no of the running command, taken from next_seq_++. *)
seq == next_seq - 1

(* Fault: the limit itself is not within the limit. *)
crosses_strict(price) ==
  cmd.kind = "Market" \/ Better(Opposite(cmd.side), price, cmd.price)

(* The lambda add_limit_order and add_market_order pass to cross. *)
crosses(price) ==
  cmd.kind = "Market" \/ Crosses(cmd.side, price, cmd.price)

(* A command may start: the caller runs one at a time, and the next one    *)
(* takes the next seq_no, whatever becomes of it.                          *)
Dequeue == /\ pc = "idle"
           /\ next_seq < MaxCommands
           /\ next_seq' = next_seq + 1

(* The command returns; its locals end their life. *)
Finish(r) == /\ pc' = "idle"
             /\ cmd' = Undef
             /\ left' = 0
             /\ idx' = kNilIndex
             /\ walked' = {}
             /\ total' = 0
             /\ result' = r

(* The AddResult of an accepted add, with the trades it has collected. *)
Accepted(stp, full, resting) ==
  [accepted |-> TRUE, trades |-> result.trades, resting_qty |-> resting,
   stp_rejected |-> stp, pool_exhausted |-> full]

(* The command goes on at another program point. *)
Goto(point) == pc' = point

IsAdd(c) == c.kind \in {"Limit", "Market"}

-----------------------------------------------------------------------------
(* add_limit_order and add_market_order *)

AddRefused(c) == c.qty = 0 \/ contains(c.id)

AddReject(c) ==
  /\ Dequeue
  /\ IsAdd(c)
  /\ AddRefused(c)
  /\ Finish(Outcome(FALSE))
  /\ UNCHANGED <<poolVars, level, prices, id_map, next_trade_id>>

AddAccept(c) ==
  /\ Dequeue
  /\ IsAdd(c)
  /\ ~AddRefused(c)
  /\ Goto(IF c.kind = "Limit" /\ c.tif = "FOK" THEN "fok" ELSE "cross")
  /\ cmd' = c
  /\ left' = c.qty
  /\ result' = Outcome(FALSE)
  /\ UNCHANGED <<poolVars, level, prices, id_map, next_trade_id,
                 idx, walked, total>>

-----------------------------------------------------------------------------
(* available_before_self_trade: idx is nil between two levels.             *)

(* Fault: the rank never advances. *)
FokNextSame(p) ==
  LET opp == Opposite(cmd.side)
  IN  IsBest(opp, prices[opp], p) /\ crosses(p)

(* The next level of the walk, if its price is within the limit. *)
FokNext(p) ==
  LET opp == Opposite(cmd.side)
  IN  IsBest(opp, prices[opp] \ walked, p) /\ crosses(p)

(* S3: the walk stops at an order of the taker's own account. *)
FokStops(i) == slots[i].account = cmd.account

FokLevel ==
  /\ pc = "fok"
  /\ idx = kNilIndex
  /\ \E p \in Price :
       /\ FokNext(p)
       /\ walked' = walked \cup {p}
       /\ idx' = level[Opposite(cmd.side)][p].head
  /\ UNCHANGED <<poolVars, level, prices, id_map, counterVars,
                 pc, cmd, left, total, result>>

FokOrder ==
  /\ pc = "fok"
  /\ idx # kNilIndex
  /\ ~FokStops(idx)
  /\ total' = (total + slots[idx].qty) % QtyModulus
  /\ idx' = next_idx[idx]
  /\ UNCHANGED <<poolVars, level, prices, id_map, counterVars,
                 pc, cmd, left, walked, result>>

FokWalkEnded ==
  IF idx = kNilIndex THEN \A p \in Price : ~FokNext(p)
                     ELSE FokStops(idx)

(* Fault: a part of the quantity is enough. *)
FokEnoughForPart == total > 0

FokEnough == total >= cmd.qty

FokReject ==
  /\ pc = "fok"
  /\ FokWalkEnded
  /\ ~FokEnough
  /\ Finish(Accepted(FALSE, FALSE, 0))
  /\ UNCHANGED <<poolVars, level, prices, id_map, counterVars>>

FokPass ==
  /\ pc = "fok"
  /\ FokWalkEnded
  /\ FokEnough
  /\ Goto("cross")
  /\ idx' = kNilIndex
  /\ walked' = {}
  /\ total' = 0
  /\ UNCHANGED <<poolVars, level, prices, id_map, counterVars,
                 cmd, left, result>>

-----------------------------------------------------------------------------
(* cross *)

(* The level the sweep is at, if the incoming order trades with it. *)
CrossLevel(p) ==
  LET opp == Opposite(cmd.side)
  IN  IsBest(opp, prices[opp], p) /\ crosses(p)

(* Fault: trades are numbered within their command. *)
TradeWithLocalId(maker, fill) ==
  [maker_order_id |-> maker.order_id, taker_order_id |-> cmd.id,
   price |-> maker.price, qty |-> fill, trade_id |-> Len(result.trades),
   seq_no |-> seq]

TradeWith(maker, fill) ==
  [maker_order_id |-> maker.order_id, taker_order_id |-> cmd.id,
   price |-> maker.price, qty |-> fill, trade_id |-> next_trade_id,
   seq_no |-> seq]

(* One iteration of the inner loop up to the test of the maker's quantity. *)
Fill(maker, fill) ==
  /\ maker.account # cmd.account
  /\ result' = [result EXCEPT !.trades = Append(@, TradeWith(maker, fill))]
  /\ next_trade_id' = next_trade_id + 1
  /\ left' = left - fill

(* The maker has more than the incoming order needs and stays at the head. *)
CrossPartial ==
  /\ pc = "cross"
  /\ left > 0
  /\ \E p \in Price :
       /\ CrossLevel(p)
       /\ LET i == level[Opposite(cmd.side)][p].head
          IN  /\ i # kNilIndex
              /\ left < slots[i].qty
              /\ Fill(slots[i], left)
              /\ slots' = [slots EXCEPT ![i].qty = @ - left]
  /\ UNCHANGED <<next_idx, prev_idx, next_free, generation, free_head,
                 level, prices, id_map, next_seq, pc, cmd, idx, walked, total>>

(* The maker is filled: it leaves its level, the id map and the pool, and  *)
(* its level goes with it if it was the last one there.                    *)
CrossFull ==
  /\ pc = "cross"
  /\ left > 0
  /\ \E p \in Price :
       /\ CrossLevel(p)
       /\ LET opp == Opposite(cmd.side)
              i == level[opp][p].head
          IN  /\ i # kNilIndex
              /\ left >= slots[i].qty
              /\ Fill(slots[i], slots[i].qty)
              /\ level_unlink(opp, p, i)
              /\ id_erase(slots[i].order_id)
              /\ free(handle_of(i))
              /\ EraseIfEmpty(opp, p, LevelWithout(level[opp][p], i))
  /\ UNCHANGED <<next_seq, pc, cmd, idx, walked, total>>

(* S3: the head of the best level is the taker's own order. *)
CrossStop ==
  /\ pc = "cross"
  /\ left > 0
  /\ \E p \in Price :
       /\ CrossLevel(p)
       /\ LET i == level[Opposite(cmd.side)][p].head
          IN  i # kNilIndex /\ slots[i].account = cmd.account
  /\ Finish(Accepted(TRUE, FALSE, 0))
  /\ UNCHANGED <<poolVars, level, prices, id_map, counterVars>>

CrossEnded == left = 0 \/ \A p \in Price : ~CrossLevel(p)

(* Fault: an order that has traded does not rest. *)
may_rest_untraded ==
  cmd.kind = "Limit" /\ cmd.tif = "GTC" /\ result.trades = <<>>

may_rest == cmd.kind = "Limit" /\ cmd.tif = "GTC"

CrossDone ==
  /\ pc = "cross"
  /\ CrossEnded
  /\ ~(may_rest /\ left > 0)
  /\ Finish(Accepted(FALSE, FALSE, 0))
  /\ UNCHANGED <<poolVars, level, prices, id_map, counterVars>>

CrossResidual ==
  /\ pc = "cross"
  /\ CrossEnded
  /\ may_rest /\ left > 0
  /\ Goto("rest")
  /\ UNCHANGED <<poolVars, level, prices, id_map, counterVars,
                 cmd, left, idx, walked, total, result>>

-----------------------------------------------------------------------------
(* rest *)

RestLevel ==
  /\ pc = "rest"
  /\ level_for_insert(cmd.side, cmd.price)
  /\ Goto("allocate")
  /\ UNCHANGED <<poolVars, level, id_map, counterVars,
                 cmd, left, idx, walked, total, result>>

RestFull ==
  /\ pc = "allocate"
  /\ exhausted
  /\ EraseIfEmpty(cmd.side, cmd.price, level[cmd.side][cmd.price])
  /\ Finish(Accepted(FALSE, TRUE, 0))
  /\ UNCHANGED <<poolVars, level, id_map, counterVars>>

incoming == [price |-> cmd.price, qty |-> left, side |-> cmd.side,
             order_id |-> cmd.id, account |-> cmd.account, seq_no |-> seq]

RestAllocate ==
  /\ pc = "allocate"
  /\ allocate(incoming)
  /\ idx' = free_head
  /\ Goto("append")
  /\ UNCHANGED <<level, prices, id_map, counterVars,
                 cmd, left, walked, total, result>>

(* The end of rest: the order is queued and becomes known by its id. *)
RestAppend ==
  /\ pc = "append"
  /\ IsAdd(cmd)
  /\ level_append(slots[idx].side, slots[idx].price, idx)
  /\ id_insert(slots[idx].order_id, handle_of(idx))
  /\ Finish(Accepted(FALSE, FALSE, left))
  /\ UNCHANGED <<slots, next_free, generation, free_head, prices, counterVars>>

-----------------------------------------------------------------------------
(* modify_order *)

(* Fault: restating the quantity counts as raising it. *)
KeepsPlaceStrict(c, order) == c.price = order.price /\ c.qty < order.qty

(* The order keeps its place: same price and no more than its quantity. *)
KeepsPlace(c, order) == c.price = order.price /\ c.qty <= order.qty

(* The handle leads to an order, by pool_.get. *)
Found(c) == contains(c.id) /\ validate(id_map[c.id])

OrderOf(c) == slots[id_map[c.id].index]

(* A handle that does not validate is dropped from the id map. *)
DropStale(c) ==
  IF contains(c.id) /\ ~validate(id_map[c.id]) THEN id_erase(c.id)
                                              ELSE UNCHANGED id_map

ModifyRefused(c) ==
  \/ c.qty = 0
  \/ ~Found(c)
  \/ /\ Found(c)
     /\ ~KeepsPlace(c, OrderOf(c))
     /\ would_cross(OrderOf(c).side, c.price)

ModifyReject(c) ==
  /\ Dequeue
  /\ c.kind = "Modify"
  /\ ModifyRefused(c)
  /\ IF c.qty # 0 THEN DropStale(c) ELSE UNCHANGED id_map
  /\ Finish(Outcome(FALSE))
  /\ UNCHANGED <<poolVars, level, prices, next_trade_id>>

ModifyInPlace(c) ==
  /\ Dequeue
  /\ c.kind = "Modify"
  /\ ~ModifyRefused(c)
  /\ KeepsPlace(c, OrderOf(c))
  /\ slots' = [slots EXCEPT ![id_map[c.id].index].qty = c.qty]
  /\ Finish(Outcome(TRUE))
  /\ UNCHANGED <<next_idx, prev_idx, next_free, generation, free_head,
                 level, prices, id_map, next_trade_id>>

(* Fault: the order goes to the back of the queue with its old seq_no. *)
RepositionedKeepsSeq(order, c) ==
  [price |-> c.price, qty |-> c.qty, side |-> order.side,
   order_id |-> order.order_id, account |-> order.account,
   seq_no |-> order.seq_no]

(* The order as modify_order rewrites it: it takes this command's seq_no. *)
Repositioned(order, c) ==
  [price |-> c.price, qty |-> c.qty, side |-> order.side,
   order_id |-> order.order_id, account |-> order.account,
   seq_no |-> next_seq]

ModifyMove(c) ==
  /\ Dequeue
  /\ c.kind = "Modify"
  /\ ~ModifyRefused(c)
  /\ ~KeepsPlace(c, OrderOf(c))
  /\ LET i == id_map[c.id].index
         order == slots[i]
     IN  /\ level_unlink(order.side, order.price, i)
         /\ EraseIfEmpty(order.side, order.price,
                         LevelWithout(level[order.side][order.price], i))
         /\ slots' = [slots EXCEPT ![i] = Repositioned(order, c)]
         /\ idx' = i
  /\ cmd' = c
  /\ result' = Outcome(FALSE)
  /\ Goto("move")
  /\ UNCHANGED <<next_free, generation, free_head, id_map, next_trade_id,
                 left, walked, total>>

ModifyLevel ==
  /\ pc = "move"
  /\ level_for_insert(slots[idx].side, slots[idx].price)
  /\ Goto("append")
  /\ UNCHANGED <<poolVars, level, id_map, counterVars,
                 cmd, left, idx, walked, total, result>>

ModifyAppend ==
  /\ pc = "append"
  /\ cmd.kind = "Modify"
  /\ level_append(slots[idx].side, slots[idx].price, idx)
  /\ Finish(Outcome(TRUE))
  /\ UNCHANGED <<slots, next_free, generation, free_head, prices, id_map,
                 counterVars>>

-----------------------------------------------------------------------------
(* cancel_order *)

CancelMiss(c) ==
  /\ Dequeue
  /\ c.kind = "Cancel"
  /\ ~Found(c)
  /\ DropStale(c)
  /\ Finish(Outcome(FALSE))
  /\ UNCHANGED <<poolVars, level, prices, next_trade_id>>

CancelOrder(c) ==
  /\ Dequeue
  /\ c.kind = "Cancel"
  /\ Found(c)
  /\ LET h == id_map[c.id]
         order == slots[h.index]
     IN  /\ level_unlink(order.side, order.price, h.index)
         /\ EraseIfEmpty(order.side, order.price,
                         LevelWithout(level[order.side][order.price], h.index))
         /\ free(h)
  /\ id_erase(c.id)
  /\ Finish(Outcome(TRUE))
  /\ UNCHANGED next_trade_id

-----------------------------------------------------------------------------

(* A producer submits a command, and the book is free to run it. *)
Start(c) == \/ AddReject(c)
            \/ AddAccept(c)
            \/ ModifyReject(c)
            \/ ModifyInPlace(c)
            \/ ModifyMove(c)
            \/ CancelMiss(c)
            \/ CancelOrder(c)

(* The running command takes its next step. *)
Step == \/ FokLevel
        \/ FokOrder
        \/ FokReject
        \/ FokPass
        \/ CrossPartial
        \/ CrossFull
        \/ CrossStop
        \/ CrossDone
        \/ CrossResidual
        \/ RestLevel
        \/ RestFull
        \/ RestAllocate
        \/ RestAppend
        \/ ModifyLevel
        \/ ModifyAppend

(* The bound on the number of commands is reached and the book is idle. *)
Stopped == /\ pc = "idle"
           /\ next_seq = MaxCommands
           /\ UNCHANGED vars

Next == (\E c \in Commands : Start(c)) \/ Step \/ Stopped

(* A command that has started runs to completion (S8). *)
Spec == Init /\ [][Next]_vars /\ WF_vars(Step)
=============================================================================
