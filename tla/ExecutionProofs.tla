-------------------------- MODULE ExecutionProofs --------------------------
(***************************************************************************)
(* What the book does, proved for every value of the constants: with whom  *)
(* the sweep of an add trades, why it leaves a remainder, that its         *)
(* quantity is accounted for and that fill-or-kill is all or nothing; then *)
(* that the book implements the priority book, and so that what a command  *)
(* does depends on nothing but the commands before it.                     *)
(***************************************************************************)
EXTENDS BookProofs, PriorityBook

(***************************************************************************)
(* The head of the best level of the other side is the one order with      *)
(* priority over all others there: cross need not look any further.        *)
(***************************************************************************)
LEMMA HeadHasPriority ==
  ASSUME IndInv, pc = "cross", NEW p \in Price, CrossLevel(p),
         NEW i \in Index, i = level[Opposite(cmd.side)][p].head
  PROVE  /\ i \in Marketable /\ slots[i].side = Opposite(cmd.side)
         /\ slots[i].price = p
         /\ \A j \in Index \ {i} :
              Linked(j) /\ slots[j].side = slots[i].side
                => Ahead(slots[i], slots[j])
<1> DEFINE opp == Opposite(cmd.side)
<1>1. cmd \in Command /\ cmd.side \in Side /\ opp \in Side
  BY DEF IndInv, CommandOK, Command, Side, Opposite
<1>2. /\ Linked(i) /\ slots[i].side = opp /\ slots[i].price = p
      /\ slots[i] \in Order
  BY Maker, NilNotIndex
<1>3. IsBest(opp, prices[opp], p) /\ crosses(p)
  BY DEF CrossLevel
<1>4. i \in Marketable
  BY <1>1, <1>2, <1>3 DEF Marketable, Acceptable, crosses, Crosses, Side
<1>5. ASSUME NEW j \in Index \ {i}, Linked(j), slots[j].side = opp
      PROVE  Ahead(slots[i], slots[j])
  <2>1. /\ slots[j] \in Order /\ slots[j].price \in Price
        /\ j \in Queue(opp, slots[j].price)
    BY <1>5, LinkedOrder
  <2>2. slots[j].price \in prices[opp]
    BY <1>1, <2>1 DEF IndInv, LevelsHoldOrders
  <2>3. CASE slots[j].price = p
    <3>1. First(Queue(opp, p), level[opp][p].head, Earlier)
      BY <1>1 DEF IndInv, QueuesInTimeOrder
    <3>2. Earlier(i, j)
      BY <1>5, <2>1, <2>3, <3>1, NilNotIndex DEF First
    <3> QED BY <1>2, <2>3, <3>2 DEF Ahead, Earlier
  <2>4. CASE slots[j].price # p
    <3>1. Better(opp, p, slots[j].price)
      BY <1>3, <2>2, <2>4 DEF IsBest
    <3> QED BY <1>1, <1>2, <3>1 DEF Better, Ahead, Side
  <2> QED BY <2>3, <2>4
<1> QED BY <1>2, <1>4, <1>5

(* A fill adds exactly one trade, the one with that maker. *)
LEMMA FillTrade ==
  ASSUME IndInv, pc = "cross", NEW maker \in Order, NEW fill \in Qty,
         Fill(maker, fill)
  PROVE  result'.trades[Len(result'.trades)] = TradeWith(maker, fill)
<1>1. result \in AddResult /\ cmd \in Command
  BY DEF IndInv, TypeOK, CommandOK
<1>2. TradeWith(maker, fill) \in Trade
  BY <1>1 DEF TradeWith, Trade, IndInv, TypeOK, SeqNosOrdered, seq, Order, Command
<1>3. result.trades \in Seq(Trade)
  BY <1>1 DEF AddResult
<1>4. result'.trades = Append(result.trades, TradeWith(maker, fill))
  BY <1>1 DEF Fill, AddResult
<1> QED BY <1>2, <1>3, <1>4, AppendProperties

(* A step that fills the head of the level it has come to trades with the  *)
(* best order.                                                             *)
LEMMA FillTradesWithTheBest ==
  ASSUME IndInv, pc = "cross", NEW p \in Price, CrossLevel(p),
         NEW i \in Index, i = level[Opposite(cmd.side)][p].head,
         NEW fill \in Qty, fill > 0, fill <= slots[i].qty,
         Fill(slots[i], fill)
  PROVE  TradesWithTheBest
<1>1. slots[i] \in Order
  BY Maker, NilNotIndex
<1>2. result'.trades[Len(result'.trades)] = TradeWith(slots[i], fill)
  BY <1>1, FillTrade
<1>3. slots[i].account # cmd.account
  BY DEF Fill
<1>4. /\ TradeWith(slots[i], fill).maker_order_id = slots[i].order_id
      /\ TradeWith(slots[i], fill).price = slots[i].price
      /\ TradeWith(slots[i], fill).qty = fill
  BY DEF TradeWith
<1>5. /\ i \in Marketable
      /\ \A j \in Index \ {i} :
           Linked(j) /\ slots[j].side = slots[i].side
             => Ahead(slots[i], slots[j])
  BY HeadHasPriority
<1> QED BY <1>2, <1>3, <1>4, <1>5 DEF TradesWithTheBest

(* A step that leaves the trades alone, or starts a new list of them, adds *)
(* no trade.                                                               *)
LEMMA NoTrade ==
  ASSUME TypeOK, result'.trades = result.trades \/ result'.trades = <<>>
  PROVE  TradesWithTheBest
<1>1. Len(result.trades) \in Nat
  BY DEF TypeOK, AddResult
<1>2. ~(Len(result'.trades) > Len(result.trades))
  BY <1>1
<1> QED BY <1>2 DEF TradesWithTheBest

(***************************************************************************)
(* Every trade of every command is with the order that has price-time      *)
(* priority on its side, at that order's price, for no more than it has,   *)
(* within the taker's limit and never with the taker's own account.        *)
(***************************************************************************)
THEOREM TradesHavePriority == Spec => BestExecution
<1>1. IndInv /\ [Next]_vars => [TradesWithTheBest]_vars
  <2> SUFFICES ASSUME IndInv, Next PROVE TradesWithTheBest
    OBVIOUS
  <2>1. CASE CrossPartial
    <3>1. PICK p \in Price :
            /\ CrossLevel(p)
            /\ level[Opposite(cmd.side)][p].head # kNilIndex
            /\ left < slots[level[Opposite(cmd.side)][p].head].qty
            /\ Fill(slots[level[Opposite(cmd.side)][p].head], left)
      BY <2>1 DEF CrossPartial
    <3>2. PICK i \in Index : i = level[Opposite(cmd.side)][p].head
      BY <2>1, <3>1, Maker DEF CrossPartial
    <3>3. slots[i].qty \in Qty /\ left \in Qty /\ left > 0
      BY <2>1, <3>1, <3>2, Maker DEF CrossPartial, Order, IndInv, TypeOK
    <3>4. left <= slots[i].qty
      BY <3>1, <3>2, <3>3 DEF Qty
    <3> QED BY <2>1, <3>1, <3>2, <3>3, <3>4, FillTradesWithTheBest DEF CrossPartial
  <2>2. CASE CrossFull
    <3>1. PICK p \in Price :
            /\ CrossLevel(p)
            /\ level[Opposite(cmd.side)][p].head # kNilIndex
            /\ Fill(slots[level[Opposite(cmd.side)][p].head],
                    slots[level[Opposite(cmd.side)][p].head].qty)
      BY <2>2 DEF CrossFull
    <3>2. PICK i \in Index : i = level[Opposite(cmd.side)][p].head
      BY <2>2, <3>1, Maker DEF CrossFull
    <3>3. slots[i].qty \in Qty /\ slots[i].qty > 0
      BY <2>2, <3>1, <3>2, Maker DEF CrossFull, Order
    <3>4. slots[i].qty <= slots[i].qty
      BY <3>3, QtyAssumption DEF Qty
    <3> QED BY <2>2, <3>1, <3>2, <3>3, <3>4, FillTradesWithTheBest DEF CrossFull
  <2>3. CASE \/ FokLevel \/ FokOrder \/ FokPass \/ CrossResidual
             \/ RestLevel \/ RestAllocate \/ ModifyLevel \/ Stopped
    <3>1. result' = result
      BY <2>3 DEF FokLevel, FokOrder, FokPass, CrossResidual, RestLevel,
                  RestAllocate, ModifyLevel, Stopped, vars, commandVars
    <3> QED BY <3>1, NoTrade DEF IndInv
  <2>4. CASE FokReject \/ CrossStop \/ CrossDone \/ RestFull \/ RestAppend
    <3>1. result'.trades = result.trades
      BY <2>4 DEF FokReject, CrossStop, CrossDone, RestFull, RestAppend,
                  Finish, Accepted
    <3> QED BY <3>1, NoTrade DEF IndInv
  <2>5. CASE ModifyAppend \/ \E c \in Commands : Start(c)
    <3>1. result' = Outcome(TRUE) \/ result' = Outcome(FALSE)
      BY <2>5 DEF ModifyAppend, Start, AddReject, AddAccept, ModifyReject,
                  ModifyInPlace, ModifyMove, CancelMiss, CancelOrder,
                  Finish
    <3>2. result'.trades = <<>>
      BY <3>1 DEF Outcome
    <3> QED BY <3>2, NoTrade DEF IndInv
  <2> QED BY <2>1, <2>2, <2>3, <2>4, <2>5 DEF Next, Step
<1> QED BY <1>1, Invariance, PTL DEF Spec, BestExecution

-----------------------------------------------------------------------------
(* The quantity of a sequence of trades. *)

(* sum is the running total of the quantities of the trades. *)
Totals(trades, sum) ==
  sum = [k \in 0 .. Len(trades) |-> IF k = 0 THEN 0
                                             ELSE sum[k - 1] + trades[k].qty]

(***************************************************************************)
(* Every sequence of trades has a running total, and it is what Traded     *)
(* ends with.  By descent on the length of a prefix without one.           *)
(***************************************************************************)
LEMMA TotalsExist ==
  ASSUME NEW trades \in Seq(Trade)
  PROVE  \E sum : Totals(trades, sum) /\ sum \in [0 .. Len(trades) -> Nat]
<1> DEFINE n == Len(trades)
           Sums(m, f) == /\ f \in [0 .. m -> Nat]
                         /\ f[0] = 0
                         /\ \A k \in 1 .. m : f[k] = f[k - 1] + trades[k].qty
           D == {m \in 0 .. n : ~\E f : Sums(m, f)}
           Below == OpToRel(<, Nat)
<1>1. n \in Nat /\ \A k \in 1 .. n : trades[k].qty \in Nat
  <2>1. n \in Nat /\ \A k \in 1 .. n : trades[k] \in Trade
    OBVIOUS
  <2> QED BY <2>1, QtyAssumption DEF Trade, Qty
<1>2. D = {}
  <2> SUFFICES ASSUME D # {} PROVE FALSE
    OBVIOUS
  <2>1. D \subseteq Nat
    BY <1>1
  <2>2. PICK m \in D : \A k \in D : ~(<<k, m>> \in Below)
    <3> HIDE DEF D, Below
    <3> QED BY <2>1, NatLessThanWellFounded, WFMin DEF Below
  <2>3. m \in Nat /\ m \in 0 .. n /\ ~\E f : Sums(m, f)
    BY <2>1
  <2>4. \A k \in D : ~(k < m)
    BY <2>1, <2>2 DEF OpToRel
  <2>5. m # 0
    <3>1. Sums(0, [k \in 0 .. 0 |-> 0])
      OBVIOUS
    <3> HIDE DEF Sums
    <3> QED BY <2>3, <3>1
  <2>6. m - 1 \in 0 .. n /\ m - 1 < m /\ m \in 1 .. n
    BY <1>1, <2>3, <2>5
  <2>7. m - 1 \notin D
    <3> HIDE DEF D
    <3> QED BY <2>4, <2>6
  <2>8. PICK f : Sums(m - 1, f)
    BY <2>6, <2>7
  <2> DEFINE g == [k \in 0 .. m |-> IF k = m THEN f[m - 1] + trades[m].qty ELSE f[k]]
  <2>9. \A k \in 0 .. m - 1 : k \in 0 .. m /\ k # m /\ g[k] = f[k] /\ f[k] \in Nat
    BY <2>3, <2>8
  <2>10. g[m] = g[m - 1] + trades[m].qty /\ g[m] \in Nat /\ g[0] = 0
    BY <1>1, <2>3, <2>5, <2>6, <2>8, <2>9
  <2>11. \A k \in 1 .. m - 1 : g[k] = g[k - 1] + trades[k].qty
    <3> SUFFICES ASSUME NEW k \in 1 .. m - 1
                 PROVE  g[k] = g[k - 1] + trades[k].qty
      OBVIOUS
    <3>1. k \in 0 .. m - 1 /\ k - 1 \in 0 .. m - 1
      BY <2>3
    <3> HIDE DEF g
    <3> QED BY <2>8, <2>9, <3>1
  <2>12. \A k \in 1 .. m : k = m \/ k \in 1 .. m - 1
    BY <2>3
  <2>13. g \in [0 .. m -> Nat]
    <3>1. \A k \in 0 .. m : k = m \/ k \in 0 .. m - 1
      BY <2>3
    <3>2. \A k \in 0 .. m : g[k] \in Nat
      <4> HIDE DEF g
      <4> QED BY <2>9, <2>10, <3>1
    <3>3. g = [k \in 0 .. m |-> g[k]]
      OBVIOUS
    <3> HIDE DEF g
    <3> QED BY <3>2, <3>3
  <2>14. Sums(m, g)
    <3> HIDE DEF g
    <3> QED BY <2>10, <2>11, <2>12, <2>13
  <2> HIDE DEF Sums, g
  <2> QED BY <2>3, <2>14
<1>3. PICK f : Sums(n, f)
  <2>1. n \in 0 .. n
    BY <1>1
  <2> HIDE DEF Sums, n
  <2> QED BY <1>2, <2>1
<1>4. Totals(trades, f)
  <2>1. \A k \in 0 .. n : f[k] = IF k = 0 THEN 0 ELSE f[k - 1] + trades[k].qty
    BY <1>1, <1>3
  <2>2. f = [k \in 0 .. n |-> f[k]]
    BY <1>3
  <2> QED BY <2>1, <2>2 DEF Totals
<1> QED BY <1>3, <1>4

(* Traded is the last running total, whichever function gives them. *)
LEMMA TradedIsTotal ==
  ASSUME NEW trades \in Seq(Trade), NEW sum, Totals(trades, sum)
  PROVE  Traded(trades) = sum[Len(trades)]
<1> DEFINE f == CHOOSE g : Totals(trades, g)
<1>1. Totals(trades, f)
  OBVIOUS
<1>2. Traded(trades) = f[Len(trades)]
  BY DEF Traded, Totals
<1>3. Len(trades) \in Nat
  OBVIOUS
<1> HIDE DEF f
<1>4. f[0] = sum[0]
  <2>1. 0 \in 0 .. Len(trades)
    BY <1>3
  <2> QED BY <1>1, <2>1 DEF Totals
<1>5. ASSUME NEW k \in 1 .. Len(trades), f[k - 1] = sum[k - 1]
      PROVE  f[k] = sum[k]
  <2>1. k \in 0 .. Len(trades) /\ k # 0
    BY <1>3
  <2>2. f[k] = f[k - 1] + trades[k].qty
    BY <1>1, <2>1 DEF Totals
  <2>3. sum[k] = sum[k - 1] + trades[k].qty
    BY <2>1 DEF Totals
  <2> QED BY <1>5, <2>2, <2>3
<1>6. AgreeUpTo(f, sum, Len(trades))
  BY <1>3, <1>4, <1>5, StepwiseEqual
<1> QED BY <1>2, <1>3, <1>6 DEF AgreeUpTo

(* No trades, no quantity. *)
LEMMA TradedNothing == Traded(<<>>) = 0
<1>1. <<>> \in Seq(Trade) /\ Len(<<>>) = 0
  OBVIOUS
<1>2. PICK sum : Totals(<<>>, sum)
  BY <1>1, TotalsExist
<1>3. sum[0] = 0
  <2>1. 0 \in 0 .. Len(<<>>)
    BY <1>1
  <2> QED BY <1>2, <2>1 DEF Totals
<1> QED BY <1>1, <1>2, <1>3, TradedIsTotal

(* One more trade adds its quantity. *)
LEMMA TradedAppend ==
  ASSUME NEW trades \in Seq(Trade), NEW t \in Trade
  PROVE  /\ Traded(Append(trades, t)) = Traded(trades) + t.qty
         /\ Traded(trades) \in Nat
<1> DEFINE n == Len(trades)
           more == Append(trades, t)
<1>1. /\ n \in Nat /\ more \in Seq(Trade) /\ Len(more) = n + 1
      /\ more[n + 1] = t /\ \A k \in 1 .. n : more[k] = trades[k]
  BY AppendProperties
<1>2. PICK f : Totals(trades, f) /\ f \in [0 .. n -> Nat]
  BY TotalsExist
<1>3. PICK g : Totals(more, g)
  BY <1>1, TotalsExist
<1>4. Traded(trades) = f[n] /\ f[n] \in Nat
  BY <1>1, <1>2, TradedIsTotal
<1>5. Traded(more) = g[n + 1]
  BY <1>1, <1>3, TradedIsTotal
<1> HIDE DEF more
<1>6. \A k \in 0 .. n + 1 : g[k] = IF k = 0 THEN 0 ELSE g[k - 1] + more[k].qty
  BY <1>1, <1>3 DEF Totals
<1>7. \A k \in 0 .. n : f[k] = IF k = 0 THEN 0 ELSE f[k - 1] + trades[k].qty
  BY <1>2 DEF Totals
<1>8. f[0] = g[0]
  BY <1>1, <1>6, <1>7
<1>9. ASSUME NEW k \in 1 .. n, f[k - 1] = g[k - 1] PROVE f[k] = g[k]
  <2>1. k \in 0 .. n /\ k \in 0 .. n + 1 /\ k # 0
    BY <1>1
  <2> QED BY <1>1, <1>6, <1>7, <1>9, <2>1
<1>10. AgreeUpTo(f, g, n)
  <2>1. n \in Nat /\ \A k \in 1 .. n : f[k - 1] = g[k - 1] => f[k] = g[k]
    BY <1>1, <1>9
  <2> HIDE DEF n
  <2> QED BY <1>8, <2>1, StepwiseEqual
<1>11. g[n + 1] = g[n] + t.qty
  <2>1. n + 1 \in 0 .. n + 1 /\ n + 1 # 0 /\ (n + 1) - 1 = n
    BY <1>1
  <2> QED BY <1>1, <1>6, <2>1
<1>12. f[n] = g[n]
  BY <1>1, <1>10 DEF AgreeUpTo
<1> QED BY <1>4, <1>5, <1>11, <1>12 DEF more

-----------------------------------------------------------------------------
(* The accounts of the running add. *)

AddRunning == \/ pc \in {"fok", "cross", "rest", "allocate"}
              \/ pc = "append" /\ IsAdd(cmd)

(***************************************************************************)
(* While an add runs, its trades and incoming.qty add up to its quantity;  *)
(* the fill-or-kill check runs before any trade; only an order that may    *)
(* rest reaches rest, which places it on its own side at its own price.    *)
(***************************************************************************)
Accounted ==
  /\ AddRunning => Traded(result.trades) + left = cmd.qty
  /\ pc = "fok" => /\ result.trades = <<>>
                   /\ cmd.kind = "Limit" /\ cmd.tif = "FOK"
  /\ pc \in {"rest", "allocate"} => may_rest
  /\ pc = "append" /\ IsAdd(cmd) =>
       /\ may_rest
       /\ slots[idx].side = cmd.side /\ slots[idx].price = cmd.price
  /\ pc # "fok" => walked = {} /\ total = 0

(* A command that returns has no accounts to keep. *)
LEMMA FinishAccounted == ASSUME NEW r, Finish(r) PROVE Accounted'
BY DEF Finish, Accounted, AddRunning

(* A fill moves its quantity from the incoming order to the trades. *)
LEMMA FillAccounted ==
  ASSUME IndInv, Accounted, pc = "cross", NEW maker \in Order, NEW fill \in Qty,
         fill <= left, Fill(maker, fill), UNCHANGED <<pc, cmd, walked, total>>
  PROVE  Accounted'
<1>1. result \in AddResult /\ cmd \in Command /\ left \in Qty
  BY DEF IndInv, TypeOK, CommandOK
<1>2. TradeWith(maker, fill) \in Trade /\ TradeWith(maker, fill).qty = fill
  <2>1. next_trade_id \in Nat /\ seq \in Nat
    BY MaxCommandsAssumption DEF IndInv, TypeOK, SeqNosOrdered, seq
  <2> QED BY <1>1, <2>1 DEF TradeWith, Trade, Order, Command
<1>3. result.trades \in Seq(Trade)
  BY <1>1 DEF AddResult
<1>4. result'.trades = Append(result.trades, TradeWith(maker, fill))
  BY <1>1 DEF Fill, AddResult
<1>5. /\ Traded(result'.trades) = Traded(result.trades) + fill
      /\ Traded(result.trades) \in Nat
  BY <1>2, <1>3, <1>4, TradedAppend
<1>6. left' = left - fill
  BY DEF Fill
<1>7. Traded(result'.trades) + left' = cmd.qty
  <2>1. Traded(result.trades) + left = cmd.qty
    BY DEF Accounted, AddRunning
  <2>2. left \in Int /\ fill \in Int
    BY <1>1, QtyAssumption DEF Qty
  <2> QED BY <1>5, <1>6, <2>1, <2>2
<1>8. walked = {} /\ total = 0
  BY DEF Accounted
<1>9. Traded(result.trades)' = Traded(result'.trades)
  BY DEF Traded
<1> QED BY <1>7, <1>8, <1>9 DEF Accounted, AddRunning

(* Every step keeps the accounts. *)
LEMMA AccountedNext == IndInv /\ Accounted /\ [Next]_vars => Accounted'
<1> SUFFICES ASSUME IndInv, Accounted, [Next]_vars PROVE Accounted'
  OBVIOUS
<1>1. ASSUME NEW c \in Commands, AddAccept(c) PROVE Accounted'
  <2>1. /\ pc = "idle" /\ pc' = IF c.kind = "Limit" /\ c.tif = "FOK" THEN "fok" ELSE "cross"
        /\ cmd' = c /\ left' = c.qty /\ result' = Outcome(FALSE)
        /\ UNCHANGED <<walked, total>>
    BY <1>1 DEF AddAccept, Dequeue, Goto
  <2>2. result'.trades = <<>>
    BY <2>1 DEF Outcome
  <2>3. c.qty \in Nat
    BY CommandsAssumption, QtyAssumption DEF Command, Qty
  <2>4. Traded(result.trades)' = 0
    BY <2>2, TradedNothing DEF Traded
  <2>5. Traded(result.trades)' + left' = c.qty
    <3>1. 0 + c.qty = c.qty
      BY <2>3
    <3> QED BY <2>1, <2>4, <3>1, Zenon
  <2>6. walked = {} /\ total = 0
    BY <2>1 DEF Accounted
  <2> QED BY <2>1, <2>2, <2>5, <2>6 DEF Accounted, AddRunning
<1>2. ASSUME NEW c \in Commands, ModifyMove(c) PROVE Accounted'
  BY <1>2 DEF ModifyMove, Dequeue, Goto, Accounted, AddRunning
<1>3. ASSUME NEW c \in Commands, Start(c) PROVE Accounted'
  BY <1>1, <1>2, <1>3, FinishAccounted DEF Start, AddReject, ModifyReject,
     ModifyInPlace, CancelMiss, CancelOrder
<1>4. CASE FokLevel \/ FokOrder \/ FokPass
  <2>1. /\ pc = "fok" /\ pc' \in {"fok", "cross"}
        /\ UNCHANGED <<cmd, left, result>>
        /\ pc' # "fok" => walked' = {} /\ total' = 0
    BY <1>4 DEF FokLevel, FokOrder, FokPass, Goto
  <2>2. Traded(result.trades)' = Traded(result.trades)
    BY <2>1 DEF Traded
  <2> QED BY <2>1, <2>2 DEF Accounted, AddRunning
<1>5. CASE CrossPartial
  <2>1. PICK p \in Price :
          /\ level[Opposite(cmd.side)][p].head # kNilIndex
          /\ Fill(slots[level[Opposite(cmd.side)][p].head], left)
    BY <1>5 DEF CrossPartial
  <2>2. slots[level[Opposite(cmd.side)][p].head] \in Order
    BY <1>5, <2>1, Maker DEF CrossPartial
  <2>3. left \in Qty /\ left <= left
    BY QtyAssumption DEF IndInv, TypeOK, Qty
  <2> QED BY <1>5, <2>1, <2>2, <2>3, FillAccounted DEF CrossPartial
<1>6. CASE CrossFull
  <2>1. PICK p \in Price :
          LET i == level[Opposite(cmd.side)][p].head
          IN  /\ i # kNilIndex
              /\ left >= slots[i].qty
              /\ Fill(slots[i], slots[i].qty)
    BY <1>6 DEF CrossFull
  <2> DEFINE i == level[Opposite(cmd.side)][p].head
  <2>2. slots[i] \in Order /\ slots[i].qty \in Qty
    BY <1>6, <2>1, Maker DEF CrossFull, Order
  <2>3. slots[i].qty <= left
    BY <2>1, <2>2, QtyAssumption DEF IndInv, TypeOK, Qty
  <2> QED BY <1>6, <2>1, <2>2, <2>3, FillAccounted DEF CrossFull
<1>7. CASE CrossResidual \/ RestLevel
  <2>1. /\ pc \in {"cross", "rest"} /\ pc' \in {"rest", "allocate"} /\ may_rest
        /\ UNCHANGED <<cmd, left, result, walked, total>>
    BY <1>7 DEF CrossResidual, RestLevel, Goto, Accounted
  <2>2. Traded(result.trades)' = Traded(result.trades) /\ may_rest' = may_rest
    BY <2>1 DEF Traded, may_rest
  <2> QED BY <2>1, <2>2 DEF Accounted, AddRunning
<1>8. CASE RestAllocate
  <2>1. /\ pc = "allocate" /\ pc' = "append" /\ may_rest
        /\ idx' = free_head /\ slots' = [slots EXCEPT ![free_head] = incoming]
        /\ free_head # kNilIndex
        /\ UNCHANGED <<cmd, left, result, walked, total>>
    BY <1>8 DEF RestAllocate, allocate, exhausted, Goto, Accounted
  <2>2. slots'[idx'] = incoming
    BY <2>1 DEF IndInv, TypeOK, PoolTypeOK, IndexOrNil
  <2>3. Traded(result.trades)' = Traded(result.trades) /\ may_rest' = may_rest
    BY <2>1 DEF Traded, may_rest
  <2>4. slots'[idx'].side = cmd.side /\ slots'[idx'].price = cmd.price
    BY <2>2 DEF incoming
  <2> QED BY <2>1, <2>3, <2>4 DEF Accounted, AddRunning
<1>9. CASE ModifyLevel
  <2>1. /\ pc = "move" /\ pc' = "append" /\ cmd' = cmd
        /\ UNCHANGED <<walked, total>> /\ ~IsAdd(cmd)
    BY <1>9 DEF ModifyLevel, Goto, IndInv, CommandOK, IsAdd
  <2> QED BY <2>1 DEF Accounted, AddRunning, IsAdd
<1>10. CASE FokReject \/ CrossStop \/ CrossDone \/ RestFull \/ RestAppend \/ ModifyAppend
  BY <1>10, FinishAccounted DEF FokReject, CrossStop, CrossDone, RestFull,
     RestAppend, ModifyAppend
<1>11. CASE UNCHANGED vars
  <2>1. UNCHANGED <<pc, cmd, left, result, walked, total, slots, idx>>
    BY <1>11 DEF vars, poolVars, commandVars
  <2> QED BY <2>1 DEF Accounted, AddRunning, Traded, may_rest, IsAdd
<1> QED
  BY <1>3, <1>4, <1>5, <1>6, <1>7, <1>8, <1>9, <1>10, <1>11 DEF Next, Step, Stopped

(* The accounts are kept in every state. *)
LEMMA AccountedInvariance == Spec => [](IndInv /\ Accounted)
<1>1. Init => Accounted
  BY DEF Init, Accounted, AddRunning
<1>2. IndInv /\ Accounted /\ [Next]_vars => (IndInv /\ Accounted)'
  BY AccountedNext, NextInd
<1> QED BY <1>1, <1>2, InitInd, PTL DEF Spec

-----------------------------------------------------------------------------
(* Why an add leaves a remainder. *)

(***************************************************************************)
(* When cross finds no level to trade with, no resting order is within the *)
(* limit: the level it did not take is the best one, and every order is at *)
(* a level.                                                                *)
(***************************************************************************)
LEMMA SweepIsComplete ==
  ASSUME IndInv, pc = "cross", \A p \in Price : ~CrossLevel(p)
  PROVE  Marketable = {}
<1> SUFFICES ASSUME NEW i \in Marketable PROVE FALSE
  OBVIOUS
<1> DEFINE opp == Opposite(cmd.side)
<1>1. /\ cmd \in Command /\ cmd.side \in Side /\ opp \in Side
      /\ cmd.price \in Price /\ IsAdd(cmd)
  BY DEF IndInv, CommandOK, Command, Side, Opposite
<1>2. i \in Index /\ Linked(i) /\ slots[i].side = opp /\ Acceptable(slots[i].price)
  BY DEF Marketable
<1>3. slots[i].price \in Price /\ i \in Queue(opp, slots[i].price)
  BY <1>2, LinkedOrder
<1>4. slots[i].price \in prices[opp] /\ prices[opp] \in SUBSET Price
  BY <1>1, <1>3 DEF IndInv, LevelsHoldOrders, TypeOK
<1>5. PICK p \in prices[opp] : IsBest(opp, prices[opp], p)
  BY <1>1, <1>4, BestExists
<1>6. p \in Price /\ ~crosses(p)
  BY <1>4, <1>5 DEF CrossLevel
<1>7. cmd.kind # "Market" /\ ~Crosses(cmd.side, p, cmd.price)
  BY <1>6 DEF crosses
<1>8. p = slots[i].price \/ Better(opp, p, slots[i].price)
  BY <1>4, <1>5 DEF IsBest
<1>9. p \in Int /\ slots[i].price \in Int /\ cmd.price \in Int
  BY <1>1, <1>3, <1>6, PriceAssumption DEF Price
<1>10. CASE cmd.side = "Buy"
  BY <1>2, <1>7, <1>8, <1>9, <1>10 DEF Acceptable, Crosses, Better, Opposite
<1>11. CASE cmd.side = "Sell"
  BY <1>2, <1>7, <1>8, <1>9, <1>11 DEF Acceptable, Crosses, Better, Opposite
<1> QED BY <1>1, <1>10, <1>11 DEF Side

(* What reaches rest has nothing left to trade with. *)
LEMMA ResidualIsAlone ==
  ASSUME IndInv, Accounted, IsAdd(cmd), pc \in {"allocate", "append"}
  PROVE  Marketable = {}
<1> SUFFICES ASSUME NEW i \in Marketable PROVE FALSE
  OBVIOUS
<1> DEFINE opp == Opposite(cmd.side)
<1>1. /\ cmd \in Command /\ cmd.side \in Side /\ opp \in Side
      /\ cmd.price \in Price /\ cmd.kind = "Limit"
  BY DEF IndInv, CommandOK, Command, Side, Opposite, Accounted, may_rest
<1>2. i \in Index /\ Linked(i) /\ slots[i].side = opp /\ Acceptable(slots[i].price)
  BY DEF Marketable
<1>3. slots[i].price \in Price /\ i \in Queue(opp, slots[i].price)
  BY <1>2, LinkedOrder
<1>4. slots[i].price \in prices[opp]
  <2>1. opp # cmd.side
    BY <1>1 DEF Opposite, Side
  <2>2. pc = "append" => slots[idx].side = cmd.side
    BY DEF Accounted
  <2> QED BY <1>1, <1>3, <2>1, <2>2 DEF IndInv, LevelsHoldOrders
<1>5. ~Crosses(cmd.side, slots[i].price, cmd.price)
  BY <1>4 DEF IndInv, PendingNotCrossing, Accounted
<1> QED BY <1>1, <1>2, <1>5 DEF Acceptable, Crosses, Side

(* An add returns in one of these steps. *)
LEMMA AddReturns ==
  ASSUME IndInv, Next, Returns, IsAdd(cmd)
  PROVE  FokReject \/ CrossStop \/ CrossDone \/ RestFull \/ RestAppend
<1>1. ~\E c \in Commands : Start(c)
  BY DEF Returns, Start, AddReject, AddAccept, ModifyReject, ModifyInPlace,
         ModifyMove, CancelMiss, CancelOrder, Dequeue
<1>2. ~(\/ FokLevel \/ FokOrder \/ FokPass \/ CrossPartial \/ CrossFull
        \/ CrossResidual \/ RestLevel \/ RestAllocate \/ ModifyLevel)
  BY DEF Returns, FokLevel, FokOrder, FokPass, CrossPartial, CrossFull,
         CrossResidual, RestLevel, RestAllocate, ModifyLevel, Goto
<1>3. ~ModifyAppend /\ ~Stopped
  BY DEF Returns, ModifyAppend, Stopped, IsAdd
<1> QED BY <1>1, <1>2, <1>3 DEF Next, Step

(***************************************************************************)
(* Quantity that an add leaves unfilled is explained by its result: it was *)
(* stopped by self-trade prevention at the best order left, or nothing was *)
(* left within its limit, or it was fill-or-kill and never traded.         *)
(***************************************************************************)
THEOREM RemaindersExplained == Spec => RemainderExplained
<1> DEFINE Why ==
      Returns /\ IsAdd(cmd) /\ left > 0 =>
        \/ pc = "fok" /\ result'.trades = <<>>
        \/ /\ result'.stp_rejected
           /\ result'.resting_qty = 0
           /\ \E i \in Marketable :
                /\ slots[i].account = cmd.account
                /\ \A j \in Marketable \ {i} : Ahead(slots[i], slots[j])
        \/ /\ ~result'.stp_rejected
           /\ Marketable = {}
<1>1. IndInv /\ Accounted /\ [Next]_vars => [Why]_vars
  <2> SUFFICES ASSUME IndInv, Accounted, Next, Returns, IsAdd(cmd), left > 0
               PROVE  Why
    OBVIOUS
  <2>1. CASE FokReject
    <3>1. pc = "fok" /\ result'.trades = result.trades
      BY <2>1 DEF FokReject, Finish, Accepted
    <3> QED BY <3>1 DEF Accounted
  <2>2. CASE CrossStop
    <3>1. PICK p \in Price :
            /\ CrossLevel(p)
            /\ level[Opposite(cmd.side)][p].head # kNilIndex
            /\ slots[level[Opposite(cmd.side)][p].head].account = cmd.account
      BY <2>2 DEF CrossStop
    <3>2. PICK i \in Index : i = level[Opposite(cmd.side)][p].head
      BY <2>2, <3>1, Maker DEF CrossStop
    <3>3. /\ i \in Marketable /\ slots[i].side = Opposite(cmd.side)
          /\ \A j \in Index \ {i} :
               Linked(j) /\ slots[j].side = slots[i].side
                 => Ahead(slots[i], slots[j])
      BY <2>2, <3>1, <3>2, HeadHasPriority DEF CrossStop
    <3>4. \A j \in Marketable \ {i} : Ahead(slots[i], slots[j])
      BY <3>3 DEF Marketable
    <3>5. result'.stp_rejected /\ result'.resting_qty = 0
      BY <2>2 DEF CrossStop, Finish, Accepted
    <3> QED BY <3>1, <3>2, <3>3, <3>4, <3>5
  <2>3. CASE CrossDone
    <3>1. Marketable = {}
      BY <2>3, SweepIsComplete DEF CrossDone, CrossEnded, IndInv, TypeOK, Qty
    <3>2. ~result'.stp_rejected
      BY <2>3 DEF CrossDone, Finish, Accepted
    <3> QED BY <3>1, <3>2
  <2>4. CASE RestFull \/ RestAppend
    <3>1. Marketable = {}
      BY <2>4, ResidualIsAlone DEF RestFull, RestAppend
    <3>2. ~result'.stp_rejected
      BY <2>4 DEF RestFull, RestAppend, Finish, Accepted
    <3> QED BY <3>1, <3>2
  <2> QED BY <2>1, <2>2, <2>3, <2>4, AddReturns
<1> QED BY <1>1, AccountedInvariance, PTL DEF Spec, RemainderExplained

(***************************************************************************)
(* Quantity is neither lost nor made: what an add traded and what it left  *)
(* resting add up to its quantity, or its result or time in force says     *)
(* which rule dropped the rest.                                            *)
(***************************************************************************)
THEOREM QuantityConserved == Spec => QuantityAccounted
<1> DEFINE Adds ==
      Returns /\ IsAdd(cmd) =>
        /\ Traded(result'.trades) + result'.resting_qty <= cmd.qty
        /\ Traded(result'.trades) + result'.resting_qty < cmd.qty
             => \/ result'.stp_rejected
                \/ result'.pool_exhausted
                \/ cmd.kind = "Market" \/ cmd.tif # "GTC"
<1>1. IndInv /\ Accounted /\ [Next]_vars => [Adds]_vars
  <2> SUFFICES ASSUME IndInv, Accounted, Next, Returns, IsAdd(cmd) PROVE Adds
    OBVIOUS
  <2> DEFINE q == Traded(result.trades)
  <2>1. /\ q \in Nat /\ left \in Nat /\ cmd.qty \in Nat
    <3>1. result.trades \in Seq(Trade)
      BY DEF IndInv, TypeOK, AddResult
    <3>2. left \in Qty /\ cmd \in Command
      BY DEF IndInv, TypeOK, CommandOK, Returns
    <3>3. q \in Nat
      <4>1. PICK sum : Totals(result.trades, sum) /\ sum \in [0 .. Len(result.trades) -> Nat]
        BY <3>1, TotalsExist
      <4>2. Len(result.trades) \in 0 .. Len(result.trades)
        BY <3>1
      <4> QED BY <3>1, <4>1, <4>2, TradedIsTotal
    <3> QED BY <3>2, <3>3, QtyAssumption DEF Qty, Command
  <2>2. AddRunning /\ q + left = cmd.qty
    <3>1. AddRunning
      BY AddReturns DEF AddRunning, FokReject, CrossStop, CrossDone, RestFull, RestAppend
    <3> QED BY <3>1 DEF Accounted
  <2>3. result'.trades = result.trades /\ result'.resting_qty \in {0, left}
    BY AddReturns DEF FokReject, CrossStop, CrossDone, RestFull, RestAppend,
       Finish, Accepted
  <2>4. Traded(result'.trades) = q
    BY <2>3
  <2> HIDE DEF q
  <2>5. CASE FokReject
    <3>1. cmd.tif # "GTC"
      BY <2>5 DEF FokReject, Accounted
    <3> QED BY <2>1, <2>2, <2>3, <2>4, <3>1
  <2>6. CASE CrossStop
    <3>1. result'.stp_rejected
      BY <2>6 DEF CrossStop, Finish, Accepted
    <3> QED BY <2>1, <2>2, <2>3, <2>4, <3>1
  <2>7. CASE CrossDone
    <3>1. left = 0 \/ cmd.kind = "Market" \/ cmd.tif # "GTC"
      BY <2>1, <2>7 DEF CrossDone, may_rest, IsAdd
    <3> QED BY <2>1, <2>2, <2>3, <2>4, <3>1
  <2>8. CASE RestFull
    <3>1. result'.pool_exhausted
      BY <2>8 DEF RestFull, Finish, Accepted
    <3> QED BY <2>1, <2>2, <2>3, <2>4, <3>1
  <2>9. CASE RestAppend
    <3>1. result'.resting_qty = left
      BY <2>9 DEF RestAppend, Finish, Accepted
    <3> QED BY <2>1, <2>2, <2>4, <3>1
  <2> QED BY <2>5, <2>6, <2>7, <2>8, <2>9, AddReturns
<1> QED BY <1>1, AccountedInvariance, PTL DEF Spec, QuantityAccounted

-----------------------------------------------------------------------------
(* Fill or kill. *)

(***************************************************************************)
(* ch is a prefix of the orders the running add could trade with, in the   *)
(* order of their priority and up to its own account's first; sum is their *)
(* running total.                                                          *)
(***************************************************************************)
Counted(n, ch, sum) ==
  /\ ch \in [1 .. n -> Index]
  /\ sum \in [0 .. n -> Int]
  /\ sum[0] = 0
  /\ \A k \in 1 .. n :
       /\ ch[k] \in Marketable
       /\ slots[ch[k]].account # cmd.account
       /\ sum[k] = sum[k - 1] + slots[ch[k]].qty
       /\ \A j \in 1 .. k - 1 : Ahead(slots[ch[j]], slots[ch[k]])
       /\ \A i \in Marketable :
            Ahead(slots[i], slots[ch[k]]) => \E j \in 1 .. k - 1 : ch[j] = i

(* The walk takes the levels from best to worst, and is at the last one. *)
WalkOrdered ==
  LET opp == Opposite(cmd.side)
  IN  /\ walked \subseteq prices[opp]
      /\ \A p \in walked : Acceptable(p)
      /\ \A p \in walked, q \in prices[opp] \ walked : Better(opp, p, q)
      /\ idx # kNilIndex =>
           /\ slots[idx].price \in walked
           /\ \A p \in walked \ {slots[idx].price} :
                Better(opp, p, slots[idx].price)

(* The total of the walk, which wraps, is no more than what it has passed. *)
WalkCounted ==
  \E n \in Nat : \E ch, sum :
    /\ Counted(n, ch, sum)
    /\ total <= sum[n]
    /\ \A i \in Marketable : Passed(i) <=> \E k \in 1 .. n : ch[k] = i

IsFok == cmd.kind = "Limit" /\ cmd.tif = "FOK"

(* There is enough ahead of the sweep for what is left to fill. *)
FillCovered == \E n \in Nat : \E ch, sum : Counted(n, ch, sum) /\ left <= sum[n]

FokSound == /\ pc = "fok" => WalkOrdered /\ WalkCounted
            /\ pc = "cross" /\ IsFok => FillCovered

(* A remainder is no larger than what it is the remainder of. *)
LEMMA ModuloBound ==
  ASSUME NEW a \in Nat, NEW m \in Nat \ {0}
  PROVE  a % m <= a
OBVIOUS

(* A step that leaves the resting orders and the command alone.            *)
LEMMA CountedKept ==
  ASSUME NEW n, NEW ch, NEW sum, Counted(n, ch, sum),
         UNCHANGED <<slots, cmd>>, pc \in {"fok", "cross"}, pc' \in {"fok", "cross"}
  PROVE  Counted(n, ch, sum)' /\ Marketable' = Marketable
<1>1. Marketable' = Marketable
  BY DEF Marketable, Linked, Live, Placing, Acceptable
<1> QED BY <1>1 DEF Counted, Ahead

(* The orders of a level as the walk sees them. *)
LEMMA AtLevel ==
  ASSUME IndInv, pc = "fok", NEW j \in Marketable
  PROVE  /\ j \in Index /\ slots[j] \in Order /\ slots[j].seq_no \in Nat
         /\ slots[j].price \in Price /\ slots[j].side = Opposite(cmd.side)
         /\ j \in Queue(Opposite(cmd.side), slots[j].price)
         /\ slots[j].price \in prices[Opposite(cmd.side)]
         /\ Opposite(cmd.side) \in Side
<1>1. Opposite(cmd.side) \in Side
  BY DEF IndInv, CommandOK, Command, Opposite, Side
<1>2. j \in Index /\ Linked(j) /\ slots[j].side = Opposite(cmd.side)
  BY DEF Marketable
<1>3. /\ slots[j] \in Order /\ slots[j].price \in Price
      /\ j \in Queue(slots[j].side, slots[j].price)
  BY <1>2, LinkedOrder
<1>4. slots[j].price \in prices[Opposite(cmd.side)]
  BY <1>1, <1>2, <1>3 DEF IndInv, LevelsHoldOrders
<1> QED BY <1>1, <1>2, <1>3, <1>4 DEF Order

(* The walk going to the next level comes to its first order, and passes   *)
(* none.                                                                   *)
LEMMA FokLevelPasses ==
  ASSUME IndInv, FokLevel
  PROVE  /\ idx' \in Index /\ idx' # kNilIndex
         /\ FokNext(slots[idx'].price)
         /\ walked' = walked \cup {slots[idx'].price}
         /\ \A j \in Marketable : Passed(j)' <=> Passed(j)
<1> DEFINE opp == Opposite(cmd.side)
<1>1. /\ pc = "fok" /\ idx = kNilIndex /\ slots' = slots
      /\ cmd \in Command /\ opp \in Side
  BY DEF FokLevel, poolVars, IndInv, CommandOK, Command, Opposite, Side
<1>2. PICK p \in Price : /\ FokNext(p)
                         /\ walked' = walked \cup {p}
                         /\ idx' = level[opp][p].head
  BY DEF FokLevel
<1>3. p \in prices[opp] \ walked
  BY <1>2 DEF FokNext, IsBest
<1>4. Queue(opp, p) # {}
  BY <1>1, <1>3 DEF IndInv, LevelsHoldOrders
<1>5. First(Queue(opp, p), level[opp][p].head, Earlier)
  BY <1>1 DEF IndInv, QueuesInTimeOrder
<1>6. PICK i \in Index : /\ i = idx' /\ i # kNilIndex /\ i \in Queue(opp, p)
                         /\ \A j \in Queue(opp, p) \ {i} : Earlier(i, j)
  BY <1>2, <1>4, <1>5, NilNotIndex DEF First, Queue
<1>7. Linked(i) /\ slots[i].price = p /\ slots[i].seq_no \in Nat
  BY <1>6, LinkedOrder DEF Queue, Order
<1>8. ASSUME NEW j \in Marketable PROVE Passed(j)' <=> Passed(j)
  <2>1. /\ j \in Queue(opp, slots[j].price) /\ slots[j].seq_no \in Nat
    BY <1>1, AtLevel
  <2>2. CASE slots[j].price = p
    <3>1. ~Passed(j)
      BY <1>3, <2>2 DEF Passed
    <3>2. j = i \/ slots[i].seq_no < slots[j].seq_no
      BY <1>6, <2>1, <2>2 DEF Earlier
    <3>3. ~(slots[j].seq_no < slots[i].seq_no)
      BY <1>7, <2>1, <3>2
    <3>4. ~Passed(j)'
      BY <1>1, <1>6, <1>7, <2>2, <3>3 DEF Passed
    <3> QED BY <3>1, <3>4
  <2>3. CASE slots[j].price # p
    BY <1>1, <1>2, <1>6, <1>7, <2>3 DEF Passed
  <2> QED BY <2>2, <2>3
<1> QED BY <1>2, <1>6, <1>7, <1>8

(* The walk going to the next level stays in order. *)
LEMMA FokLevelSound ==
  ASSUME IndInv, Accounted, FokSound, FokLevel
  PROVE  FokSound'
<1> DEFINE opp == Opposite(cmd.side)
           p == slots[idx'].price
<1>1. /\ pc = "fok" /\ pc' = "fok"
      /\ UNCHANGED <<slots, prices, cmd, total>>
      /\ cmd \in Command /\ cmd.side \in Side
  BY DEF FokLevel, poolVars, IndInv, CommandOK, Command
<1>2. FokNext(p) /\ walked' = walked \cup {p}
  BY FokLevelPasses
<1>3. /\ p \in prices[opp] \ walked /\ crosses(p)
      /\ \A q \in (prices[opp] \ walked) \ {p} : Better(opp, p, q)
  BY <1>2 DEF FokNext, IsBest
<1>4. WalkOrdered /\ WalkCounted
  BY <1>1 DEF FokSound
<1> HIDE DEF p
<1>5. WalkOrdered'
  <2>1. Acceptable(p)
    BY <1>1, <1>3 DEF crosses, Crosses, Acceptable, Side
  <2>2. walked' \subseteq prices[opp] /\ \A r \in walked' : Acceptable(r)
    BY <1>2, <1>3, <1>4, <2>1 DEF WalkOrdered
  <2>3. \A r \in walked', q \in prices[opp] \ walked' : Better(opp, r, q)
    BY <1>2, <1>3, <1>4 DEF WalkOrdered
  <2>4. \A r \in walked' \ {p} : Better(opp, r, p)
    BY <1>2, <1>3, <1>4 DEF WalkOrdered
  <2>5. slots'[idx'].price = p /\ p \in walked'
    BY <1>1, <1>2 DEF p
  <2>6. opp' = opp /\ prices'[opp] = prices[opp] /\ \A r : Acceptable(r)' <=> Acceptable(r)
    BY <1>1 DEF Acceptable
  <2> QED BY <2>2, <2>3, <2>4, <2>5, <2>6 DEF WalkOrdered
<1>6. WalkCounted'
  <2>1. PICK n, ch, sum :
          /\ n \in Nat /\ Counted(n, ch, sum)
          /\ total <= sum[n]
          /\ \A j \in Marketable : Passed(j) <=> \E k \in 1 .. n : ch[k] = j
    BY <1>4 DEF WalkCounted
  <2>2. Counted(n, ch, sum)' /\ Marketable' = Marketable
    BY <1>1, <2>1, CountedKept
  <2>3. \A j \in Marketable' : Passed(j)' <=> \E k \in 1 .. n : ch[k] = j
    BY <2>1, <2>2, FokLevelPasses
  <2>4. total' <= sum[n]
    BY <1>1, <2>1
  <2> QED BY <2>1, <2>2, <2>3, <2>4 DEF WalkCounted
<1> QED BY <1>1, <1>5, <1>6 DEF FokSound

(* The order the walk is at comes next in priority after those it has      *)
(* passed.                                                                 *)
LEMMA WalkIsNext ==
  ASSUME IndInv, pc = "fok", WalkOrdered, NEW i \in Index, i = idx
  PROVE  /\ i \in Marketable
         /\ \A j \in Marketable : Passed(j) => Ahead(slots[j], slots[i])
         /\ \A j \in Marketable : Ahead(slots[j], slots[i]) => Passed(j)
<1> DEFINE opp == Opposite(cmd.side)
<1>1. /\ i # kNilIndex /\ Linked(i) /\ slots[i].side = opp /\ opp \in Side
  BY NilNotIndex DEF IndInv, CommandOK, Linked, Placing, Command, Opposite, Side
<1>2. slots[i].price \in walked /\ Acceptable(slots[i].price)
      /\ \A p \in walked \ {slots[i].price} : Better(opp, p, slots[i].price)
  BY <1>1 DEF WalkOrdered
<1>0. ASSUME NEW q \in prices[opp] \ walked PROVE Better(opp, slots[i].price, q)
  BY <1>1, <1>2 DEF WalkOrdered
<1>3. i \in Marketable
  BY <1>1, <1>2 DEF Marketable
<1>4. slots[i].price \in Int
  BY <1>3, AtLevel, PriceAssumption DEF Price
<1>5. ASSUME NEW j \in Marketable, Passed(j) PROVE Ahead(slots[j], slots[i])
  <2>1. slots[j].side = opp
    BY AtLevel
  <2>2. CASE slots[j].price = slots[i].price
    BY <1>1, <1>5, <2>2 DEF Passed, Ahead
  <2>3. CASE slots[j].price # slots[i].price
    <3>1. Better(opp, slots[j].price, slots[i].price)
      BY <1>2, <1>5, <2>3 DEF Passed
    <3> QED BY <1>1, <2>1, <3>1 DEF Better, Ahead, Side
  <2> QED BY <2>2, <2>3
<1>6. ASSUME NEW j \in Marketable, Ahead(slots[j], slots[i]) PROVE Passed(j)
  <2>1. slots[j].side = opp /\ slots[j].price \in prices[opp] /\ slots[j].price \in Int
    BY AtLevel, PriceAssumption DEF Price
  <2>2. slots[j].price \in walked
    <3> SUFFICES ASSUME slots[j].price \notin walked PROVE FALSE
      OBVIOUS
    <3>1. slots[j].price \in prices[opp] \ walked
      BY <2>1
    <3>2. Better(opp, slots[i].price, slots[j].price)
      BY <1>0, <3>1
    <3> QED BY <1>1, <1>4, <1>6, <2>1, <3>2 DEF Better, Ahead, Side
  <2> QED BY <1>4, <1>6, <2>1, <2>2 DEF Passed, Ahead
<1> QED BY <1>3, <1>5, <1>6

(* Counting the order the walk is at passes that one, and goes on with the *)
(* next at its price.                                                      *)
LEMMA FokOrderPasses ==
  ASSUME IndInv, WalkOrdered, FokOrder, NEW i \in Index, i = idx
  PROVE  /\ idx' # kNilIndex => slots[idx'].price = slots[i].price
         /\ \A j \in Marketable : Passed(j)' <=> Passed(j) \/ j = i
<1> DEFINE opp == Opposite(cmd.side)
<1>1. /\ pc = "fok" /\ i # kNilIndex
      /\ idx' = next_idx[i]
      /\ UNCHANGED <<slots, walked>>
  BY DEF FokOrder, poolVars
<1>2. i \in Marketable
  BY <1>1, WalkIsNext
<1>3. /\ i \in Queue(opp, slots[i].price) /\ opp \in Side
      /\ slots[i].price \in Price /\ slots[i].seq_no \in Nat
  BY <1>2, AtLevel DEF FokOrder
<1>4. Links(Queue(opp, slots[i].price), i, next_idx[i], Earlier)
  BY <1>3 DEF IndInv, QueuesInTimeOrder
<1>5. idx' # kNilIndex => /\ idx' \in Queue(opp, slots[i].price)
                          /\ slots[idx'].price = slots[i].price
                          /\ slots[idx'].seq_no \in Nat
                          /\ slots[i].seq_no < slots[idx'].seq_no
  <2> SUFFICES ASSUME idx' # kNilIndex
               PROVE  /\ idx' \in Queue(opp, slots[i].price)
                      /\ slots[idx'].price = slots[i].price
                      /\ slots[idx'].seq_no \in Nat
                      /\ slots[i].seq_no < slots[idx'].seq_no
    OBVIOUS
  <2>1. idx' \in Queue(opp, slots[i].price) /\ Earlier(i, idx')
    BY <1>1, <1>4 DEF Links
  <2>2. idx' \in Index /\ Linked(idx') /\ slots[idx'].price = slots[i].price
    BY <2>1 DEF Queue
  <2>3. slots[idx'] \in Order
    BY <2>2, LinkedOrder
  <2> QED BY <2>1, <2>2, <2>3 DEF Earlier, Order
<1>6. ASSUME NEW j \in Marketable PROVE Passed(j)' <=> Passed(j) \/ j = i
  <2>1. /\ j \in Queue(opp, slots[j].price) /\ slots[j].seq_no \in Nat
    BY AtLevel DEF FokOrder
  <2>2. slots[i].price \in walked
    BY <1>1 DEF WalkOrdered
  <2>3. Passed(j)' <=> /\ slots[j].price \in walked
                       /\ idx' # kNilIndex => \/ slots[j].price # slots[i].price
                                              \/ slots[j].seq_no < slots[idx'].seq_no
    BY <1>1, <1>5 DEF Passed
  <2>4. Passed(j) <=> /\ slots[j].price \in walked
                      /\ \/ slots[j].price # slots[i].price
                         \/ slots[j].seq_no < slots[i].seq_no
    BY <1>1 DEF Passed
  <2>5. CASE slots[j].price # slots[i].price
    BY <2>3, <2>4, <2>5
  <2>6. CASE slots[j].price = slots[i].price
    <3>1. CASE idx' = kNilIndex
      <4>1. j = i \/ slots[j].seq_no < slots[i].seq_no
        BY <1>1, <1>4, <2>1, <2>6, <3>1 DEF Links, Earlier
      <4> QED BY <2>2, <2>3, <2>4, <2>6, <3>1, <4>1
    <3>2. CASE idx' # kNilIndex
      <4>1. \/ j = i \/ j = idx'
            \/ slots[j].seq_no < slots[i].seq_no
            \/ slots[idx'].seq_no < slots[j].seq_no
        BY <1>1, <1>4, <2>1, <2>6, <3>2 DEF Links, Earlier
      <4>2. slots[idx'].seq_no \in Nat /\ slots[i].seq_no < slots[idx'].seq_no
        BY <1>5, <3>2
      <4>3. slots[j].seq_no < slots[idx'].seq_no
              <=> j = i \/ slots[j].seq_no < slots[i].seq_no
        BY <1>3, <2>1, <4>1, <4>2
      <4> QED BY <2>2, <2>3, <2>4, <2>6, <3>2, <4>3
    <3> QED BY <3>1, <3>2
  <2> QED BY <2>5, <2>6
<1> QED BY <1>5, <1>6

(* Counting the order the walk is at extends the prefix by it. *)
LEMMA FokOrderSound ==
  ASSUME IndInv, Accounted, FokSound, FokOrder
  PROVE  FokSound'
<1> DEFINE opp == Opposite(cmd.side)
<1>1. PICK i \in Index : i = idx
  BY DEF FokOrder, IndInv, TypeOK, IndexOrNil
<1>2. /\ pc = "fok" /\ pc' = "fok" /\ i # kNilIndex
      /\ slots[i].account # cmd.account
      /\ total' = (total + slots[i].qty) % QtyModulus
      /\ idx' = next_idx[i]
      /\ UNCHANGED <<slots, prices, cmd, walked>>
  BY <1>1 DEF FokOrder, FokStops, poolVars
<1>3. WalkOrdered /\ WalkCounted
  BY <1>2 DEF FokSound
<1>4. /\ i \in Marketable
      /\ \A j \in Marketable : Passed(j) <=> Ahead(slots[j], slots[i])
  BY <1>1, <1>2, <1>3, WalkIsNext
<1>5. slots[i] \in Order /\ opp \in Side /\ slots[i].qty \in Nat
  BY <1>2, <1>4, AtLevel, QtyAssumption DEF Order, Qty
<1>7. /\ idx' # kNilIndex => slots[idx'].price = slots[i].price
      /\ \A j \in Marketable : Passed(j)' <=> Passed(j) \/ j = i
  BY <1>1, <1>3, FokOrderPasses
<1>8. WalkOrdered'
  <2>1. /\ walked \subseteq prices[opp] /\ \A p \in walked : Acceptable(p)
        /\ \A p \in walked, q \in prices[opp] \ walked : Better(opp, p, q)
        /\ slots[i].price \in walked
        /\ \A p \in walked \ {slots[i].price} : Better(opp, p, slots[i].price)
    BY <1>1, <1>2, <1>3 DEF WalkOrdered
  <2>2. \A p : Acceptable(p)' <=> Acceptable(p)
    BY <1>2 DEF Acceptable
  <2>3. idx' # kNilIndex => slots'[idx'].price = slots[i].price
    BY <1>2, <1>7
  <2> QED BY <1>2, <2>1, <2>2, <2>3 DEF WalkOrdered
<1>10. WalkCounted'
  <2>1. PICK n, ch, sum :
          /\ n \in Nat /\ Counted(n, ch, sum)
          /\ total <= sum[n]
          /\ \A j \in Marketable : Passed(j) <=> \E k \in 1 .. n : ch[k] = j
    BY <1>3 DEF WalkCounted
  <2> DEFINE m == n + 1
             d == [k \in 1 .. m |-> IF k = m THEN i ELSE ch[k]]
  <2>0. PICK t : t = [k \in 0 .. m |->
                        IF k = m THEN sum[n] + slots[i].qty ELSE sum[k]]
    OBVIOUS
  <2>2. /\ n \in Nat /\ m \in Nat /\ ch \in [1 .. n -> Index] /\ sum \in [0 .. n -> Int]
        /\ sum[n] \in Int /\ sum[0] = 0
    BY <2>1 DEF Counted
  <2>3. /\ \A k \in 1 .. m : k = m \/ k \in 1 .. n
        /\ \A k \in 1 .. n : k \in 1 .. m /\ k # m /\ d[k] = ch[k]
        /\ d[m] = i /\ m \in 1 .. m /\ d \in [1 .. m -> Index]
    BY <2>2
  <2>4. /\ \A k \in 0 .. n : t[k] = sum[k]
        /\ t[m] = sum[n] + slots[i].qty /\ t \in [0 .. m -> Int] /\ t[0] = 0
    BY <1>5, <2>0, <2>2
  <2>5. ASSUME NEW k \in 1 .. m
        PROVE  /\ d[k] \in Marketable
               /\ slots[d[k]].account # cmd.account
               /\ t[k] = t[k - 1] + slots[d[k]].qty
               /\ \A j \in 1 .. k - 1 : Ahead(slots[d[j]], slots[d[k]])
               /\ \A j \in Marketable :
                    Ahead(slots[j], slots[d[k]]) => \E l \in 1 .. k - 1 : d[l] = j
    <3>1. CASE k = m
      <4>1. k - 1 = n /\ k - 1 \in 0 .. n /\ d[k] = i
        BY <2>2, <2>3, <3>1
      <4>2. t[k] = t[k - 1] + slots[d[k]].qty
        <5> HIDE DEF d, m
        <5> QED BY <2>4, <3>1, <4>1
      <4>3. \A j \in 1 .. n : d[j] = ch[j] /\ ch[j] \in Marketable /\ Passed(ch[j])
        <5> HIDE DEF d
        <5> QED BY <2>1, <2>3 DEF Counted
      <4>4. \A j \in 1 .. k - 1 : Ahead(slots[d[j]], slots[d[k]])
        <5> HIDE DEF d, m
        <5> QED BY <1>4, <4>1, <4>3
      <4>5. \A j \in Marketable :
              Ahead(slots[j], slots[d[k]]) => \E l \in 1 .. k - 1 : d[l] = j
        <5> HIDE DEF d, m
        <5> QED BY <1>4, <2>1, <4>1, <4>3
      <4> HIDE DEF d, m
      <4> QED BY <1>2, <1>4, <4>1, <4>2, <4>4, <4>5
    <3>2. CASE k # m
      <4>1. k \in 1 .. n /\ k - 1 \in 0 .. n /\ k \in 0 .. n
            /\ \A j \in 1 .. k - 1 : j \in 1 .. n
        BY <2>2, <2>3, <3>2
      <4>2. /\ ch[k] \in Marketable
            /\ slots[ch[k]].account # cmd.account
            /\ sum[k] = sum[k - 1] + slots[ch[k]].qty
            /\ \A j \in 1 .. k - 1 : Ahead(slots[ch[j]], slots[ch[k]])
            /\ \A j \in Marketable :
                 Ahead(slots[j], slots[ch[k]]) => \E l \in 1 .. k - 1 : ch[l] = j
        BY <2>1, <4>1 DEF Counted
      <4>3. d[k] = ch[k] /\ t[k] = sum[k] /\ t[k - 1] = sum[k - 1]
            /\ \A j \in 1 .. k - 1 : d[j] = ch[j]
        <5> HIDE DEF d, m
        <5> QED BY <2>3, <2>4, <4>1
      <4> HIDE DEF d, m
      <4> QED BY <4>2, <4>3
    <3> QED BY <3>1, <3>2
  <2> HIDE DEF d, m
  <2>6. Counted(m, d, t)
    BY <2>3, <2>4, <2>5 DEF Counted
  <2>7. Counted(m, d, t)' /\ Marketable' = Marketable
    BY <1>2, <2>6, CountedKept
  <2>8. total' <= t[m]
    <3>1. total \in Nat /\ total + slots[i].qty \in Nat
      BY <1>5, QtyAssumption DEF IndInv, TypeOK, Qty
    <3>2. total' <= total + slots[i].qty
      BY <1>2, <3>1, ModuloBound, QtyAssumption
    <3>3. total' \in Int
      BY <1>2, <3>1, QtyAssumption
    <3> QED BY <1>5, <2>1, <2>2, <2>4, <3>1, <3>2, <3>3
  <2>9. \A j \in Marketable' : Passed(j)' <=> \E k \in 1 .. m : d[k] = j
    BY <1>7, <2>1, <2>3, <2>7
  <2> QED BY <2>2, <2>7, <2>8, <2>9 DEF WalkCounted
<1> QED BY <1>2, <1>8, <1>10 DEF FokSound

(* Nothing is counted yet, or nothing is left to count. *)
LEMMA CountedNone ==
  /\ Counted(0, [k \in 1 .. 0 |-> 0], [k \in 0 .. 0 |-> 0])
  /\ Counted(0, [k \in 1 .. 0 |-> 0], [k \in 0 .. 0 |-> 0])'
BY DEF Counted

(* The walk starts before the first order. *)
LEMMA FokStartSound ==
  ASSUME IndInv, Accounted, NEW c \in Commands, AddAccept(c)
  PROVE  FokSound'
<1>1. /\ pc = "idle" /\ cmd' = c
      /\ pc' = IF c.kind = "Limit" /\ c.tif = "FOK" THEN "fok" ELSE "cross"
      /\ UNCHANGED <<idx, walked, total>>
  BY DEF AddAccept, Dequeue, Goto
<1>2. walked = {} /\ total = 0 /\ idx = kNilIndex
  BY <1>1 DEF Accounted, IndInv, CommandOK
<1>3. WalkOrdered'
  BY <1>1, <1>2 DEF WalkOrdered
<1>4. WalkCounted'
  <2>1. \A i \in Marketable' : ~Passed(i)'
    BY <1>1, <1>2 DEF Passed
  <2>2. PICK n, ch, sum : n = 0 /\ Counted(n, ch, sum)' /\ sum[n] = 0
    BY CountedNone
  <2>3. total' <= sum[n]
    BY <1>1, <1>2, <2>2
  <2>4. n \in Nat /\ ~\E k \in 1 .. n : TRUE
    BY <2>2
  <2>5. \A i \in Marketable' : Passed(i)' <=> \E k \in 1 .. n : ch[k] = i
    BY <2>1, <2>4
  <2> QED BY <2>2, <2>3, <2>4, <2>5 DEF WalkCounted
<1> QED BY <1>1, <1>3, <1>4 DEF FokSound, IsFok

(* What the check found is ahead of the sweep when the sweep starts. *)
LEMMA FokPassSound ==
  ASSUME IndInv, Accounted, FokSound, FokPass
  PROVE  FokSound'
<1>1. /\ pc = "fok" /\ pc' = "cross" /\ total >= cmd.qty
      /\ UNCHANGED <<slots, cmd, left>> /\ WalkCounted
  BY DEF FokPass, FokEnough, Goto, poolVars, FokSound
<1>2. PICK n, ch, sum : n \in Nat /\ Counted(n, ch, sum) /\ total <= sum[n]
  BY <1>1 DEF WalkCounted
<1>3. Counted(n, ch, sum)'
  BY <1>1, <1>2, CountedKept
<1>4. left <= cmd.qty
  <2>1. Traded(<<>>) + left = cmd.qty
    BY <1>1 DEF Accounted, AddRunning
  <2>2. left \in Nat
    BY QtyAssumption DEF IndInv, TypeOK, Qty
  <2> QED BY <2>1, <2>2, TradedNothing
<1>5. left' <= sum[n]
  <2>1. left \in Int /\ total \in Int /\ cmd.qty \in Int
    BY <1>1, QtyAssumption DEF IndInv, TypeOK, CommandOK, Command, Qty
  <2>2. sum[n] \in Int
    BY <1>2 DEF Counted
  <2> QED BY <1>1, <1>2, <1>4, <2>1, <2>2
<1> QED BY <1>1, <1>2, <1>3, <1>5 DEF FokSound, FillCovered

(* The sweep is always at the first order the check counted. *)
LEMMA CountedHead ==
  ASSUME IndInv, pc = "cross", NEW n \in Nat, n # 0, NEW ch, NEW sum,
         Counted(n, ch, sum),
         NEW p \in Price, CrossLevel(p),
         NEW i \in Index, i = level[Opposite(cmd.side)][p].head
  PROVE  i = ch[1]
<1>1. 1 \in 1 .. n /\ ~\E j \in 1 .. 1 - 1 : TRUE
  OBVIOUS
<1>2. /\ ch[1] \in Marketable
      /\ \A k \in Marketable : ~Ahead(slots[k], slots[ch[1]])
  BY <1>1 DEF Counted
<1>3. /\ i \in Marketable /\ slots[i].side = Opposite(cmd.side)
      /\ \A j \in Index \ {i} :
           Linked(j) /\ slots[j].side = slots[i].side => Ahead(slots[i], slots[j])
  BY HeadHasPriority
<1> QED BY <1>2, <1>3 DEF Marketable

(* When something is left to fill, something is counted for it. *)
LEMMA CoverIsNotEmpty ==
  ASSUME IndInv, FillCovered, left > 0
  PROVE  \E n \in Nat \ {0} : \E ch, sum :
           /\ Counted(n, ch, sum) /\ left <= sum[n]
           /\ 1 \in 1 .. n
           /\ ch[1] \in Marketable /\ slots[ch[1]].account # cmd.account
           /\ sum[1] = slots[ch[1]].qty
<1>1. PICK n, ch, sum : n \in Nat /\ Counted(n, ch, sum) /\ left <= sum[n]
  BY DEF FillCovered
<1>2. n # 0
  BY <1>1, QtyAssumption DEF Counted, Qty, IndInv, TypeOK
<1>3. 1 \in 1 .. n /\ 1 - 1 = 0 /\ 1 \in 0 .. n
  BY <1>1, <1>2
<1>4. /\ ch[1] \in Marketable /\ slots[ch[1]].account # cmd.account
      /\ sum[1] = sum[0] + slots[ch[1]].qty /\ sum[0] = 0 /\ sum[1] \in Int
  BY <1>1, <1>3 DEF Counted
<1>5. sum[1] = slots[ch[1]].qty
  <2>1. slots[ch[1]].qty \in Int
    BY <1>4, LinkedOrder, QtyAssumption DEF Marketable, Order, Qty
  <2> QED BY <1>4, <2>1
<1> QED BY <1>1, <1>2, <1>3, <1>4, <1>5

(* A maker that is filled is the first order counted; the others remain.   *)
LEMMA CrossFullSound ==
  ASSUME IndInv, Accounted, FokSound, CrossFull, IsFok
  PROVE  FokSound'
<1>1. PICK p \in Price :
        LET i == level[Opposite(cmd.side)][p].head
        IN  /\ CrossLevel(p)
            /\ i # kNilIndex
            /\ Fill(slots[i], slots[i].qty)
            /\ free(handle_of(i))
  BY DEF CrossFull
<1>2. PICK i \in Index : i = level[Opposite(cmd.side)][p].head
                         /\ Linked(i) /\ slots[i] \in Order
  BY <1>1, Maker DEF CrossFull
<1>3. /\ pc = "cross" /\ pc' = "cross" /\ cmd' = cmd
      /\ left > 0 /\ left' = left - slots[i].qty
      /\ slots' = [slots EXCEPT ![i] = Undef]
  BY <1>1, <1>2, FreeEffect DEF CrossFull, Fill, IndInv
<1>4. PICK n, ch, sum :
        /\ n \in Nat \ {0} /\ Counted(n, ch, sum) /\ left <= sum[n]
        /\ sum[1] = slots[ch[1]].qty
  BY <1>3, CoverIsNotEmpty DEF FokSound
<1>5. i = ch[1]
  BY <1>1, <1>2, <1>3, <1>4, CountedHead
<1>6. /\ Marketable' = Marketable \ {i}
      /\ \A j \in Index \ {i} : slots'[j] = slots[j]
  <2>1. \A j \in Index : slots'[j] = IF j = i THEN Undef ELSE slots[j]
    BY <1>3 DEF IndInv, TypeOK, PoolTypeOK
  <2>2. \A j \in Index : Linked(j)' <=> Linked(j) /\ j # i
    BY <1>3, <2>1 DEF Linked, Live, Placing
  <2>3. \A q : Acceptable(q)' <=> Acceptable(q)
    BY <1>3 DEF Acceptable
  <2> QED BY <1>3, <2>1, <2>2, <2>3 DEF Marketable
<1> DEFINE m == n - 1
           d == [k \in 1 .. m |-> ch[k + 1]]
           t == [k \in 0 .. m |-> sum[k + 1] - sum[1]]
<1>7. /\ m \in Nat /\ \A k \in 0 .. m : k + 1 \in 1 .. n /\ k + 1 \in 0 .. n
      /\ ch \in [1 .. n -> Index] /\ sum \in [0 .. n -> Int] /\ sum[1] \in Int
      /\ sum[n] \in Int
  BY <1>4 DEF Counted
<1>8. /\ d \in [1 .. m -> Index] /\ t \in [0 .. m -> Int] /\ t[0] = 0
      /\ t[m] = sum[n] - sum[1]
  <2>1. \A k \in 1 .. m : k + 1 \in 1 .. n
    BY <1>7
  <2>2. m \in 0 .. m /\ m + 1 = n /\ 0 \in 0 .. m /\ 0 + 1 = 1
    BY <1>4, <1>7
  <2> QED BY <1>7, <2>1, <2>2
<1>9. ASSUME NEW k \in 1 .. m
      PROVE  /\ d[k] \in Marketable'
             /\ slots'[d[k]].account # cmd'.account
             /\ t[k] = t[k - 1] + slots'[d[k]].qty
             /\ \A j \in 1 .. k - 1 : Ahead(slots'[d[j]], slots'[d[k]])
             /\ \A j \in Marketable' :
                  Ahead(slots'[j], slots'[d[k]]) => \E l \in 1 .. k - 1 : d[l] = j
  <2>1. /\ k \in 0 .. m /\ k - 1 \in 0 .. m /\ (k - 1) + 1 = k /\ (k + 1) - 1 = k
        /\ k + 1 \in 1 .. n /\ 1 \in 1 .. k
        /\ \A j \in 1 .. k - 1 : j \in 1 .. m /\ j + 1 \in 1 .. k
    BY <1>7
  <2>2. /\ ch[k + 1] \in Marketable
        /\ slots[ch[k + 1]].account # cmd.account
        /\ sum[k + 1] = sum[k] + slots[ch[k + 1]].qty
        /\ \A j \in 1 .. k : Ahead(slots[ch[j]], slots[ch[k + 1]])
        /\ \A j \in Marketable :
             Ahead(slots[j], slots[ch[k + 1]]) => \E l \in 1 .. k : ch[l] = j
    <3>1. PICK q \in 1 .. n : q = k + 1 /\ q - 1 = k
      BY <2>1
    <3>2. /\ ch[q] \in Marketable
          /\ slots[ch[q]].account # cmd.account
          /\ sum[q] = sum[q - 1] + slots[ch[q]].qty
          /\ \A j \in 1 .. q - 1 : Ahead(slots[ch[j]], slots[ch[q]])
          /\ \A j \in Marketable :
               Ahead(slots[j], slots[ch[q]]) => \E l \in 1 .. q - 1 : ch[l] = j
      BY <1>4 DEF Counted
    <3> HIDE DEF m, d, t
    <3> QED BY <3>1, <3>2
  <2>3. \A j \in 1 .. n : ch[j] \in Index
    BY <1>7
  <2>4. ~Ahead(slots[i], slots[i])
    BY <1>2, PriceAssumption DEF Ahead, Order, Price
  <2>5. ch[k + 1] # i
    BY <1>5, <2>1, <2>2, <2>4
  <2>6. \A j \in 1 .. k - 1 : /\ ch[j + 1] # i /\ j + 1 \in 1 .. n
                             /\ Ahead(slots[ch[j + 1]], slots[ch[k + 1]])
    <3> SUFFICES ASSUME NEW j \in 1 .. k - 1
                 PROVE  /\ ch[j + 1] # i /\ j + 1 \in 1 .. n
                        /\ Ahead(slots[ch[j + 1]], slots[ch[k + 1]])
      OBVIOUS
    <3>1. j \in 1 .. m /\ j + 1 \in 1 .. k
      BY <2>1
    <3>2. PICK q \in 1 .. n : q = j + 1 /\ 1 \in 1 .. q - 1
      <4> QED BY <1>4, <3>1
    <3>3. Ahead(slots[ch[1]], slots[ch[q]])
      BY <1>4, <3>2 DEF Counted
    <3> QED BY <1>5, <2>2, <2>4, <3>1, <3>2, <3>3
  <2>7. d[k] = ch[k + 1] /\ \A j \in 1 .. k - 1 : d[j] = ch[j + 1]
    BY <2>1
  <2>8. slots'[d[k]] = slots[ch[k + 1]]
        /\ \A j \in 1 .. k - 1 : slots'[d[j]] = slots[ch[j + 1]]
    <3> HIDE DEF d
    <3> QED BY <1>6, <2>1, <2>3, <2>5, <2>6, <2>7
  <2>9. t[k] = t[k - 1] + slots[ch[k + 1]].qty
    <3>1. t[k] = sum[k + 1] - sum[1] /\ t[k - 1] = sum[k] - sum[1]
      BY <2>1
    <3>2. slots[ch[k + 1]].qty \in Int
      BY <2>1, <2>2, <2>3, LinkedOrder, QtyAssumption DEF Marketable, Order, Qty
    <3>3. sum[k] \in Int /\ sum[k + 1] \in Int
      BY <1>7, <2>1
    <3> QED BY <1>7, <2>2, <3>1, <3>2, <3>3
  <2>10. ASSUME NEW j \in Marketable', Ahead(slots'[j], slots'[d[k]])
         PROVE  \E l \in 1 .. k - 1 : d[l] = j
    <3>1. j \in Marketable /\ j # i /\ slots'[j] = slots[j]
      BY <1>6 DEF Marketable
    <3>2. PICK l \in 1 .. k : ch[l] = j
      BY <2>2, <2>8, <2>10, <3>1
    <3>3. l # 1
      BY <1>5, <3>1, <3>2
    <3>4. l - 1 \in 1 .. k - 1 /\ (l - 1) + 1 = l
      BY <2>1, <3>3
    <3>5. d[l - 1] = ch[l]
      BY <2>7, <3>4
    <3> HIDE DEF d
    <3> QED BY <3>2, <3>4, <3>5
  <2> HIDE DEF d, t, m
  <2> QED BY <1>3, <1>6, <2>2, <2>5, <2>6, <2>7, <2>8, <2>9, <2>10
<1>10. Counted(m, d, t)'
  <2> HIDE DEF d, t, m
  <2> QED BY <1>8, <1>9 DEF Counted
<1>11. left' <= t[m]
  <2>1. left \in Int /\ slots[i].qty \in Int
    BY <1>2, QtyAssumption DEF IndInv, TypeOK, Order, Qty
  <2> HIDE DEF t, m
  <2> QED BY <1>3, <1>4, <1>5, <1>7, <1>8, <2>1
<1>12. FillCovered'
  <2> HIDE DEF d, t, m
  <2> QED BY <1>7, <1>10, <1>11 DEF FillCovered
<1> QED BY <1>3, <1>12 DEF FokSound

(* The last fill takes what is left of the first order counted. *)
LEMMA CrossPartialSound ==
  ASSUME IndInv, Accounted, FokSound, CrossPartial
  PROVE  FokSound'
<1>1. PICK n, ch, sum : n = 0 /\ Counted(n, ch, sum)' /\ sum[n] = 0
  BY CountedNone
<1>2. left' = 0 /\ pc' = "cross"
  <2>1. left \in Int /\ left - left = 0
    BY QtyAssumption DEF IndInv, TypeOK, Qty
  <2> QED BY <2>1 DEF CrossPartial, Fill
<1>3. n \in Nat /\ left' <= sum[n]
  BY <1>1, <1>2
<1> QED BY <1>1, <1>2, <1>3 DEF FokSound, FillCovered

(* Every step keeps the fill-or-kill check sound. *)
LEMMA FokSoundNext == IndInv /\ Accounted /\ FokSound /\ [Next]_vars => FokSound'
<1> SUFFICES ASSUME IndInv, Accounted, FokSound, [Next]_vars PROVE FokSound'
  OBVIOUS
<1>1. ASSUME NEW c \in Commands, Start(c) PROVE FokSound'
  BY <1>1, FokStartSound DEF Start, AddReject, ModifyReject, ModifyInPlace,
     ModifyMove, CancelMiss, CancelOrder, Finish, Goto, FokSound
<1>2. CASE FokLevel \/ FokOrder \/ FokPass
  BY <1>2, FokLevelSound, FokOrderSound, FokPassSound
<1>3. CASE CrossPartial
  BY <1>3, CrossPartialSound
<1>4. CASE CrossFull
  <2>1. pc' = "cross" /\ cmd' = cmd
    BY <1>4 DEF CrossFull
  <2>2. CASE IsFok
    BY <1>4, <2>2, CrossFullSound
  <2>3. CASE ~IsFok
    BY <2>1, <2>3 DEF FokSound, IsFok
  <2> QED BY <2>2, <2>3
<1>5. CASE \/ FokReject \/ CrossStop \/ CrossDone \/ CrossResidual \/ RestLevel
           \/ RestFull \/ RestAllocate \/ RestAppend \/ ModifyLevel \/ ModifyAppend
  <2>1. pc' \notin {"fok", "cross"}
    BY <1>5 DEF FokReject, CrossStop, CrossDone, CrossResidual, RestLevel,
       RestFull, RestAllocate, RestAppend, ModifyLevel, ModifyAppend, Finish, Goto
  <2> QED BY <2>1 DEF FokSound
<1>6. CASE UNCHANGED vars
  <2>1. UNCHANGED <<pc, cmd, left, walked, total, slots, idx, prices>>
    BY <1>6 DEF vars, poolVars, commandVars
  <2>2. Marketable' = Marketable /\ \A i : Passed(i)' <=> Passed(i)
    BY <2>1 DEF Marketable, Linked, Live, Placing, Acceptable, Passed
  <2>3. ASSUME NEW n, NEW ch, NEW sum
        PROVE  Counted(n, ch, sum)' <=> Counted(n, ch, sum)
    BY <2>1, <2>2 DEF Counted
  <2>4. /\ WalkOrdered' <=> WalkOrdered
        /\ WalkCounted' <=> WalkCounted
        /\ FillCovered' <=> FillCovered
        /\ IsFok' <=> IsFok
    BY <2>1, <2>2, <2>3 DEF WalkOrdered, WalkCounted, FillCovered, IsFok, Acceptable
  <2> QED BY <2>1, <2>4 DEF FokSound
<1> QED BY <1>1, <1>2, <1>3, <1>4, <1>5, <1>6 DEF Next, Step, Stopped

(* The check is sound in every state. *)
LEMMA FokInvariance == Spec => [](IndInv /\ Accounted /\ FokSound)
<1>1. Init => FokSound
  BY DEF Init, FokSound
<1>2. IndInv /\ Accounted /\ FokSound /\ [Next]_vars
        => (IndInv /\ Accounted /\ FokSound)'
  BY FokSoundNext, AccountedNext, NextInd
<1>3. Init => IndInv /\ Accounted /\ FokSound
  BY <1>1, InitInd DEF Init, Accounted, AddRunning
<1> QED BY <1>2, <1>3, PTL DEF Spec

(***************************************************************************)
(* A fill-or-kill order trades its whole quantity or nothing: as long as   *)
(* something is left to fill, the sweep is at an order the check counted,  *)
(* which is no order of its own account and within its limit.  The check's *)
(* total may wrap around: it is then only smaller than what is there.      *)
(***************************************************************************)
THEOREM FokIsAllOrNothing == Spec => FokAllOrNothing
<1> DEFINE All == Returns /\ cmd.kind = "Limit" /\ cmd.tif = "FOK"
                    => Traded(result'.trades) \in {0, cmd.qty}
<1>1. IndInv /\ Accounted /\ FokSound /\ [Next]_vars => [All]_vars
  <2> SUFFICES ASSUME IndInv, Accounted, FokSound, Next, Returns, IsFok
               PROVE  Traded(result'.trades) \in {0, cmd.qty}
    BY DEF IsFok
  <2>1. IsAdd(cmd)
    BY DEF IsFok, IsAdd
  <2>2. CASE FokReject
    <3>1. result'.trades = <<>>
      BY <2>2 DEF FokReject, Finish, Accepted, Accounted
    <3> QED BY <3>1, TradedNothing
  <2>3. ASSUME CrossStop PROVE FALSE
    <3>1. pc = "cross" /\ left > 0 /\ FillCovered
      BY <2>3 DEF CrossStop, FokSound
    <3>2. PICK p \in Price :
            /\ CrossLevel(p)
            /\ level[Opposite(cmd.side)][p].head # kNilIndex
            /\ slots[level[Opposite(cmd.side)][p].head].account = cmd.account
      BY <2>3 DEF CrossStop
    <3>3. PICK i \in Index : i = level[Opposite(cmd.side)][p].head
      BY <3>1, <3>2, Maker
    <3>4. PICK n, ch, sum : /\ n \in Nat \ {0} /\ Counted(n, ch, sum)
                            /\ slots[ch[1]].account # cmd.account
      BY <3>1, CoverIsNotEmpty
    <3>5. i = ch[1]
      BY <3>1, <3>2, <3>3, <3>4, CountedHead
    <3> QED BY <3>2, <3>3, <3>4, <3>5
  <2>4. CASE CrossDone
    <3>1. left = 0
      <4> SUFFICES ASSUME left # 0 PROVE FALSE
        OBVIOUS
      <4>1. pc = "cross" /\ left > 0 /\ FillCovered
        BY <2>4, QtyAssumption DEF CrossDone, FokSound, IndInv, TypeOK, Qty
      <4>2. Marketable = {}
        BY <2>4, <4>1, SweepIsComplete DEF CrossDone, CrossEnded
      <4> QED BY <4>1, <4>2, CoverIsNotEmpty
    <3>2. Traded(result.trades) + left = cmd.qty
      BY <2>4 DEF CrossDone, Accounted, AddRunning
    <3>3. Traded(result.trades) \in Nat
      <4>1. result.trades \in Seq(Trade)
        BY DEF IndInv, TypeOK, AddResult
      <4>2. PICK sum : /\ Totals(result.trades, sum)
                       /\ sum \in [0 .. Len(result.trades) -> Nat]
        BY <4>1, TotalsExist
      <4>3. Len(result.trades) \in 0 .. Len(result.trades)
        BY <4>1
      <4> QED BY <4>1, <4>2, <4>3, TradedIsTotal
    <3>4. result'.trades = result.trades
      BY <2>4 DEF CrossDone, Finish, Accepted
    <3>5. Traded(result.trades) = cmd.qty
      BY <3>1, <3>2, <3>3
    <3> QED BY <3>4, <3>5
  <2>5. ~RestFull /\ ~RestAppend
    BY <2>1 DEF RestFull, RestAppend, Accounted, may_rest, IsFok
  <2> QED BY <2>1, <2>2, <2>3, <2>4, <2>5, AddReturns
<1> QED BY <1>1, FokInvariance, PTL DEF Spec, FokAllOrNothing

-----------------------------------------------------------------------------
(* The book as a set of orders. *)

(* No two slots hold the same order: its seq_no tells it apart.            *)
LEMMA SlotsDiffer ==
  ASSUME IndInv
  PROVE  /\ \A i \in Resting : i \in Index /\ Live(i) /\ slots[i] \in Order
         /\ \A i, j \in Resting : slots[i] = slots[j] => i = j
<1>1. \A i \in Resting : i \in Index /\ Live(i) /\ slots[i] \in Order
  BY LiveIsOrder DEF Resting, IndInv
<1>2. \A i, j \in Index : Live(i) /\ Live(j) /\ slots[i] = slots[j] => i = j
  BY DEF IndInv, SeqNosOrdered
<1> QED BY <1>1, <1>2

(* The orders after slot i has changed from one order to another.          *)
LEMMA OrdersAfterChange ==
  ASSUME IndInv, NEW i \in Index, i \in Resting, NEW o,
         slots' = [slots EXCEPT ![i] = o], Resting' = Resting
  PROVE  {slots[j] : j \in Resting}'
           = ({slots[j] : j \in Resting} \ {slots[i]}) \cup {o}
<1>1. slots \in [Index -> Order \cup {Undef}]
  BY DEF IndInv, TypeOK, PoolTypeOK
<1>2. /\ slots'[i] = o
      /\ \A j \in Resting : j # i => slots'[j] = slots[j] /\ slots[j] # slots[i]
  BY <1>1, SlotsDiffer
<1>3. {slots[j] : j \in Resting}' = {slots'[j] : j \in Resting}
  OBVIOUS
<1> QED BY <1>2, <1>3

(* The orders after the one of slot i has left. *)
LEMMA OrdersAfterRemoval ==
  ASSUME IndInv, NEW i \in Index, i \in Resting,
         slots' = [slots EXCEPT ![i] = Undef], Resting' = Resting \ {i}
  PROVE  {slots[j] : j \in Resting}' = {slots[j] : j \in Resting} \ {slots[i]}
<1>1. slots \in [Index -> Order \cup {Undef}]
  BY DEF IndInv, TypeOK, PoolTypeOK
<1>2. \A j \in Resting : j # i => slots'[j] = slots[j] /\ slots[j] # slots[i]
  BY <1>1, SlotsDiffer
<1>3. {slots[j] : j \in Resting}' = {slots'[j] : j \in Resting \ {i}}
  OBVIOUS
<1> QED BY <1>2, <1>3

(* The orders of a step that leaves them alone.                            *)
LEMMA OrdersKept ==
  ASSUME UNCHANGED slots, Resting' = Resting
  PROVE  {slots[j] : j \in Resting}' = {slots[j] : j \in Resting}
OBVIOUS

(***************************************************************************)
(* The one with priority over the others of its side is the foremost: no   *)
(* two orders are ahead of each other.                                     *)
(***************************************************************************)
LEMMA ForemostIs ==
  ASSUME NEW side, NEW S, \A p \in S : p \in Order /\ p.side = side,
         NEW o \in S, \A p \in S \ {o} : Ahead(o, p)
  PROVE  Foremost(S) = o
<1>1. side \in Side
  BY DEF Order
<1>2. \A p, q \in Order : p.price \in Int /\ p.seq_no \in Int
  BY PriceAssumption DEF Order, Price
<1>3. \A p \in S : Ahead(p, o) /\ p # o => ~Ahead(o, p)
  BY <1>1, <1>2 DEF Ahead, Side
<1>4. \A p \in S : (\A q \in S \ {p} : Ahead(p, q)) => p = o
  BY <1>3
<1> QED BY <1>4 DEF Foremost

(* Between commands, and while an add runs, the orders that rest are those *)
(* that are linked.                                                        *)
LEMMA RestingIsLinked ==
  ASSUME IndInv, pc = "idle" \/ IsAdd(cmd)
  PROVE  \A i \in Index : i \in Resting <=> Linked(i)
BY DEF IndInv, CommandOK, IsAdd, Resting, Arriving, Linked, Placing

(* The orders the running add could take, by slot and by price.            *)
LEMMA TakeableIs ==
  ASSUME IndInv, IsAdd(cmd), cmd \in Command, NEW room
  PROVE  Takeable(AsPriorityBook(room)) = {slots[i] : i \in Marketable}
<1> DEFINE b == AsPriorityBook(room)
<1>1. b.orders = {slots[i] : i \in Resting} /\ b.run.cmd = cmd
  BY DEF AsPriorityBook
<1>2. cmd.side \in Side
  BY DEF Command
<1>3. \A price : Acceptable(price) <=> \/ cmd.kind = "Market"
                                       \/ Crosses(cmd.side, price, cmd.price)
  BY <1>2 DEF Acceptable, Crosses, Side
<1>4. \A i \in Index : i \in Resting <=> Linked(i)
  BY RestingIsLinked
<1>5. Resting \subseteq Index
  BY DEF Resting
<1> HIDE DEF b
<1>6. Takeable(b) = {o \in {slots[i] : i \in Resting} :
                       o.side = Opposite(cmd.side) /\ Acceptable(o.price)}
  BY <1>1, <1>3 DEF Takeable
<1> QED BY <1>4, <1>5, <1>6 DEF Marketable, b

-----------------------------------------------------------------------------
(* A command begins. *)

(* What incoming.qty is outside a sweep, and the order rest has made.      *)
Leftover == /\ pc \in {"idle", "move"} => left = 0
            /\ pc = "append" /\ IsAdd(cmd) => slots[idx] = incoming /\ left > 0

(* The id map finds the one order of an id, or there is none.              *)
LEMMA FindsByName ==
  ASSUME IndInv, pc = "idle", NEW c \in Commands, NEW b,
         b.orders = {slots[i] : i \in Resting}
  PROVE  /\ HasOrder(b, c.id) <=> contains(c.id)
         /\ contains(c.id) <=> Found(c)
         /\ Found(c) => OrderNamed(b, c.id) = OrderOf(c)
<1>1. c.id \in OrderId
  BY CommandsAssumption DEF Command
<1>2. Resting = {i \in Index : Live(i)}
  BY DEF Resting, Arriving
<1>3. contains(c.id) => Found(c) /\ OrderOf(c) \in b.orders /\ OrderOf(c).order_id = c.id
  BY <1>1, <1>2 DEF IndInv, IdMapExact, Found, OrderOf, validate
<1>4. ASSUME NEW o \in b.orders, o.order_id = c.id
      PROVE  contains(c.id) /\ o = OrderOf(c)
  <2>1. PICK i \in Index : o = slots[i] /\ Live(i)
    BY <1>2
  <2>2. id_map[c.id] = handle_of(i)
    BY <1>4, <2>1 DEF IndInv, IdMapExact
  <2>3. valid(handle_of(i)) /\ handle_of(i).index = i
    BY HandleOfValid DEF IndInv
  <2> QED BY <2>1, <2>2, <2>3 DEF contains, valid, OrderOf
<1>5. HasOrder(b, c.id) <=> contains(c.id)
  BY <1>3, <1>4 DEF HasOrder
<1>6. Found(c) => OrderNamed(b, c.id) = OrderOf(c)
  BY <1>3, <1>4 DEF OrderNamed, Found
<1> QED BY <1>3, <1>5, <1>6 DEF Found

(* An idle book, and it with the number of the next command. *)
LEMMA AsIdle ==
  ASSUME IndInv, Accounted, Leftover, pc = "idle", NEW room
  PROVE  /\ AsPriorityBook(room) =
              [orders |-> {slots[i] : i \in Resting}, room |-> room,
               numbered |-> next_seq, made |-> next_trade_id, run |-> Idle(result)]
         /\ WithNumber(AsPriorityBook(room)) =
              [orders |-> {slots[i] : i \in Resting}, room |-> room,
               numbered |-> next_seq + 1, made |-> next_trade_id, run |-> Idle(result)]
<1>1. cmd = Undef /\ left = 0 /\ total = 0 /\ Point = "idle"
  BY DEF IndInv, CommandOK, Accounted, Leftover, Point
<1>2. {slots[i] : i \in CountedByWalk} = {}
  BY DEF CountedByWalk
<1>3. AsPriorityBook(room) =
        [orders |-> {slots[i] : i \in Resting}, room |-> room,
         numbered |-> next_seq, made |-> next_trade_id, run |-> Idle(result)]
  BY <1>1, <1>2 DEF AsPriorityBook, Idle
<1> QED BY <1>3 DEF WithNumber

(* The book when a command has returned. *)
LEMMA AsReturned ==
  ASSUME NEW r, Finish(r), NEW room
  PROVE  AsPriorityBook(room)' =
           [orders |-> {slots[i] : i \in Resting}', room |-> room,
            numbered |-> next_seq', made |-> next_trade_id', run |-> Idle(r)]
<1>1. /\ cmd' = Undef /\ left' = 0 /\ total' = 0 /\ Point' = "idle" /\ result' = r
  BY DEF Finish, Point
<1>2. {slots[i] : i \in CountedByWalk}' = {}
  BY DEF Finish, CountedByWalk
<1> QED BY <1>1, <1>2 DEF AsPriorityBook, Idle

(* The book at a program point where no walk counts. *)
LEMMA AsRunning ==
  ASSUME NEW room, CountedByWalk = {}, total = 0
  PROVE  AsPriorityBook(room) =
           [orders |-> {slots[i] : i \in Resting}, room |-> room,
            numbered |-> next_seq, made |-> next_trade_id,
            run |-> [point |-> Point, cmd |-> cmd, left |-> left,
                     counted |-> {}, total |-> 0, result |-> result]]
<1>1. {slots[i] : i \in CountedByWalk} = {}
  OBVIOUS
<1> QED BY <1>1 DEF AsPriorityBook

(* A refused command only takes a number. *)
LEMMA RefusedBegins ==
  ASSUME IndInv, Accounted, Leftover, pc = "idle", NEW room,
         next_seq' = next_seq + 1, Finish(Outcome(FALSE)),
         UNCHANGED <<slots, next_trade_id>>
  PROVE  AsPriorityBook(room)' =
           Return(WithNumber(AsPriorityBook(room)), Outcome(FALSE))
<1>1. Resting' = Resting
  BY DEF Resting, Arriving, Live, Finish
<1>2. {slots[i] : i \in Resting}' = {slots[i] : i \in Resting}
  BY <1>1
<1>3. AsPriorityBook(room)' =
        [orders |-> {slots[i] : i \in Resting}, room |-> room,
         numbered |-> next_seq + 1, made |-> next_trade_id,
         run |-> Idle(Outcome(FALSE))]
  BY <1>2, AsReturned
<1>4. WithNumber(AsPriorityBook(room)) =
        [orders |-> {slots[i] : i \in Resting}, room |-> room,
         numbered |-> next_seq + 1, made |-> next_trade_id, run |-> Idle(result)]
  BY AsIdle
<1> QED BY <1>3, <1>4 DEF Return, With

(* An add begins as that of the priority book. *)
LEMMA AddBegins ==
  ASSUME IndInv, Accounted, Leftover, NEW room, NEW c \in Commands,
         AddReject(c) \/ AddAccept(c)
  PROVE  AsPriorityBook(room)' = Begin(AsPriorityBook(room), c)
<1> DEFINE n == WithNumber(AsPriorityBook(room))
<1>1. /\ pc = "idle" /\ IsAdd(c) /\ next_seq' = next_seq + 1
      /\ UNCHANGED <<slots, next_trade_id>>
  BY DEF AddReject, AddAccept, Dequeue, poolVars
<1>2. n = [orders |-> {slots[i] : i \in Resting}, room |-> room,
           numbered |-> next_seq + 1, made |-> next_trade_id, run |-> Idle(result)]
  BY <1>1, AsIdle
<1> HIDE DEF n
<1>3. HasOrder(n, c.id) <=> contains(c.id)
  BY <1>1, <1>2, FindsByName
<1>4. CASE AddReject(c)
  <2>1. c.qty = 0 \/ HasOrder(n, c.id)
    BY <1>3, <1>4 DEF AddReject, AddRefused
  <2>2. AsPriorityBook(room)' = Return(n, Outcome(FALSE))
    BY <1>1, <1>4, RefusedBegins DEF AddReject, n
  <2> QED BY <1>1, <2>1, <2>2 DEF Begin, BeginAdd, n
<1>5. CASE AddAccept(c)
  <2>1. ~(c.qty = 0 \/ HasOrder(n, c.id))
    BY <1>3, <1>5 DEF AddAccept, AddRefused
  <2> DEFINE point == IF c.kind = "Limit" /\ c.tif = "FOK" THEN "fok" ELSE "cross"
  <2>2. /\ pc' = point /\ cmd' = c /\ left' = c.qty /\ result' = Outcome(FALSE)
        /\ walked' = walked /\ idx' = idx /\ total' = total
    BY <1>5 DEF AddAccept, Goto
  <2>3. walked = {} /\ total = 0
    BY <1>1 DEF Accounted
  <2>4. CountedByWalk' = {} /\ Point' = point
    BY <2>2, <2>3 DEF CountedByWalk, Passed, Point
  <2>5. {slots[i] : i \in Resting}' = {slots[i] : i \in Resting}
    <3>1. Resting' = Resting
      BY <1>1, <2>2 DEF Resting, Arriving, Live
    <3> QED BY <1>1, <3>1
  <2>6. AsPriorityBook(room)' =
          [orders |-> {slots[i] : i \in Resting}, room |-> room,
           numbered |-> next_seq + 1, made |-> next_trade_id,
           run |-> [point |-> point, cmd |-> c, left |-> c.qty,
                    counted |-> {}, total |-> 0, result |-> Outcome(FALSE)]]
    <3>1. {slots[i] : i \in CountedByWalk}' = {}
      BY <2>4
    <3> HIDE DEF point
    <3> QED BY <1>1, <2>2, <2>3, <2>4, <2>5, <3>1 DEF AsPriorityBook
  <2>7. AsPriorityBook(room)' = With(n, n.orders, Enters(point, c, c.qty))
    <3> HIDE DEF point
    <3> QED BY <1>2, <2>6 DEF With, Enters
  <2> QED BY <1>1, <2>1, <2>7 DEF Begin, BeginAdd, n
<1> QED BY <1>4, <1>5

(* So does a cancel: the handle leads to the order of that id. *)
LEMMA CancelBegins ==
  ASSUME IndInv, Accounted, Leftover, NEW room, NEW c \in Commands,
         CancelMiss(c) \/ CancelOrder(c)
  PROVE  AsPriorityBook(room)' = Begin(AsPriorityBook(room), c)
<1> DEFINE n == WithNumber(AsPriorityBook(room))
<1>1. /\ pc = "idle" /\ c.kind = "Cancel" /\ ~IsAdd(c) /\ next_seq' = next_seq + 1
      /\ next_trade_id' = next_trade_id
  BY DEF CancelMiss, CancelOrder, Dequeue, IsAdd
<1>2. n = [orders |-> {slots[i] : i \in Resting}, room |-> room,
           numbered |-> next_seq + 1, made |-> next_trade_id, run |-> Idle(result)]
  BY <1>1, AsIdle
<1> HIDE DEF n
<1>3. /\ HasOrder(n, c.id) <=> Found(c)
      /\ Found(c) => OrderNamed(n, c.id) = OrderOf(c)
  BY <1>1, <1>2, FindsByName
<1>4. CASE CancelMiss(c)
  <2>1. ~HasOrder(n, c.id)
    BY <1>3, <1>4 DEF CancelMiss
  <2>2. AsPriorityBook(room)' = Return(n, Outcome(FALSE))
    BY <1>1, <1>4, RefusedBegins DEF CancelMiss, poolVars, n
  <2> QED BY <1>1, <2>1, <2>2 DEF Begin, BeginCancel, n
<1>5. CASE CancelOrder(c)
  <2>1. Found(c) /\ Finish(Outcome(TRUE)) /\ free(id_map[c.id])
    BY <1>5 DEF CancelOrder
  <2>2. PICK i \in Index : /\ i = id_map[c.id].index /\ Live(i)
                           /\ id_map[c.id] = handle_of(i) /\ OrderOf(c) = slots[i]
    BY <1>1, <2>1, FoundOrder DEF Linked, OrderOf
  <2>3. slots' = [slots EXCEPT ![i] = Undef]
    BY <2>1, <2>2, FreeEffect DEF IndInv
  <2>4. Resting = {j \in Index : Live(j)} /\ Resting' = Resting \ {i}
    BY <1>1, <2>1, <2>3 DEF Resting, Arriving, Live, Finish, IndInv, TypeOK, PoolTypeOK
  <2>5. {slots[j] : j \in Resting}' = {slots[j] : j \in Resting} \ {slots[i]}
    BY <2>2, <2>3, <2>4, OrdersAfterRemoval
  <2>6. AsPriorityBook(room)' =
          [orders |-> {slots[j] : j \in Resting} \ {slots[i]}, room |-> room,
           numbered |-> next_seq + 1, made |-> next_trade_id,
           run |-> Idle(Outcome(TRUE))]
    BY <1>1, <2>1, <2>5, AsReturned
  <2>7. AsPriorityBook(room)' =
          With(n, n.orders \ {OrderNamed(n, c.id)}, Idle(Outcome(TRUE)))
    BY <1>2, <1>3, <2>1, <2>2, <2>6 DEF With
  <2> QED BY <1>1, <1>3, <2>1, <2>7 DEF Begin, BeginCancel, n
<1> QED BY <1>4, <1>5

(* The update of a quantity is the order with that quantity. *)
LEMMA ResizedIs ==
  ASSUME NEW o \in Order, NEW q
  PROVE  [o EXCEPT !.qty = q] = Resized(o, q)
BY DEF Order, Resized

(* The one comparison of would_cross decides for all orders of a side. *)
LEMMA WouldTradeIs ==
  ASSUME IndInv, pc = "idle", NEW b, b.orders = {slots[i] : i \in Resting},
         NEW side \in Side, NEW price \in Price
  PROVE  would_cross(side, price) <=> WouldTrade(b, side, price)
<1> DEFINE opp == Opposite(side)
<1>1. opp \in Side /\ prices[opp] \in SUBSET Price
  BY DEF Opposite, Side, IndInv, TypeOK
<1>2. would_cross(side, price) <=> \E p \in prices[opp] : Crosses(side, p, price)
  BY <1>1, BestDecides DEF would_cross
<1>3. \A p \in Price : p \in prices[opp] <=> Queue(opp, p) # {}
  BY <1>1 DEF IndInv, LevelsHoldOrders
<1>4. \A i \in Index : i \in Resting <=> Linked(i)
  BY RestingIsLinked
<1>5. Resting \subseteq Index
  BY DEF Resting
<1>6. ASSUME NEW p \in prices[opp], Crosses(side, p, price)
      PROVE  WouldTrade(b, side, price)
  <2>1. PICK i \in Index : Linked(i) /\ slots[i].side = opp /\ slots[i].price = p
    BY <1>1, <1>3 DEF Queue
  <2>2. slots[i] \in b.orders
    BY <1>4, <2>1
  <2> QED BY <1>6, <2>1, <2>2 DEF WouldTrade
<1>7. ASSUME WouldTrade(b, side, price)
      PROVE  \E p \in prices[opp] : Crosses(side, p, price)
  <2>1. PICK i \in Index : /\ Linked(i) /\ slots[i].side = opp
                           /\ Crosses(side, slots[i].price, price)
    BY <1>4, <1>5, <1>7 DEF WouldTrade
  <2>2. slots[i].price \in Price /\ i \in Queue(opp, slots[i].price)
    BY <2>1, LinkedOrder
  <2>3. slots[i].price \in prices[opp]
    BY <1>3, <2>2
  <2> QED BY <2>1, <2>3
<1> QED BY <1>2, <1>6, <1>7

(* So does a modify. *)
LEMMA ModifyBegins ==
  ASSUME IndInv, Accounted, Leftover, NEW room, NEW c \in Commands,
         ModifyReject(c) \/ ModifyInPlace(c) \/ ModifyMove(c)
  PROVE  AsPriorityBook(room)' = Begin(AsPriorityBook(room), c)
<1> DEFINE n == WithNumber(AsPriorityBook(room))
           orders == {slots[j] : j \in Resting}
<1>1. /\ pc = "idle" /\ c.kind = "Modify" /\ ~IsAdd(c) /\ next_seq' = next_seq + 1
      /\ next_trade_id' = next_trade_id /\ c \in Command /\ next_seq \in Nat
  <2>1. c \in Command /\ next_seq \in Nat
    BY CommandsAssumption, MaxCommandsAssumption DEF IndInv, TypeOK
  <2> QED BY <2>1 DEF ModifyReject, ModifyInPlace, ModifyMove, Dequeue, IsAdd
<1>2. n = [orders |-> orders, room |-> room,
           numbered |-> next_seq + 1, made |-> next_trade_id, run |-> Idle(result)]
  BY <1>1, AsIdle
<1> HIDE DEF n
<1>3. /\ HasOrder(n, c.id) <=> Found(c)
      /\ Found(c) => OrderNamed(n, c.id) = OrderOf(c)
  BY <1>1, <1>2, FindsByName
<1>4. Begin(AsPriorityBook(room), c) = BeginModify(n, c)
  BY <1>1 DEF Begin, n
<1>5. Found(c) => (WouldTrade(n, OrderOf(c).side, c.price)
                     <=> would_cross(OrderOf(c).side, c.price))
  <2> SUFFICES ASSUME Found(c)
               PROVE  WouldTrade(n, OrderOf(c).side, c.price)
                        <=> would_cross(OrderOf(c).side, c.price)
    OBVIOUS
  <2>1. OrderOf(c).side \in Side /\ c.price \in Price
    BY <1>1, FoundOrder, LinkedOrder DEF OrderOf, Command
  <2> QED BY <1>1, <1>2, <2>1, WouldTradeIs
<1>6. CASE ModifyReject(c)
  <2>1. BeginModify(n, c) = Return(n, Outcome(FALSE))
    BY <1>3, <1>5, <1>6 DEF BeginModify, ModifyReject, ModifyRefused
  <2>2. AsPriorityBook(room)' = Return(n, Outcome(FALSE))
    BY <1>1, <1>6, RefusedBegins DEF ModifyReject, poolVars, n
  <2> QED BY <1>4, <2>1, <2>2
<1>7. ASSUME ModifyInPlace(c) \/ ModifyMove(c)
      PROVE  /\ c.qty # 0 /\ HasOrder(n, c.id)
             /\ \E i \in Index : /\ i = id_map[c.id].index /\ i \in Resting
                                 /\ slots[i] \in Order
                                 /\ OrderOf(c) = slots[i]
                                 /\ OrderNamed(n, c.id) = slots[i]
  <2>1. Found(c) /\ c.qty # 0
    BY <1>7 DEF ModifyInPlace, ModifyMove, ModifyRefused
  <2>2. PICK i \in Index : i = id_map[c.id].index /\ Linked(i)
    BY <1>1, <2>1, FoundOrder
  <2>3. i \in Resting /\ slots[i] \in Order
    BY <1>1, <2>2, RestingIsLinked, LinkedOrder
  <2> QED BY <1>3, <2>1, <2>2, <2>3 DEF OrderOf
<1>8. CASE ModifyInPlace(c)
  <2>1. /\ Finish(Outcome(TRUE)) /\ KeepsPlace(c, OrderOf(c))
        /\ slots' = [slots EXCEPT ![id_map[c.id].index].qty = c.qty]
    BY <1>8 DEF ModifyInPlace
  <2>2. PICK i \in Index : /\ i = id_map[c.id].index /\ i \in Resting
                           /\ slots[i] \in Order
                           /\ OrderOf(c) = slots[i]
                           /\ OrderNamed(n, c.id) = slots[i]
    BY <1>7, <1>8
  <2>3. slots' = [slots EXCEPT ![i] = Resized(slots[i], c.qty)]
    BY <2>1, <2>2, ResizedIs
  <2>4. Resting' = Resting
    <3>1. \A j \in Index : Live(j)' <=> Live(j)
      BY <1>1, <2>1, <2>2, QtyUpdate DEF IndInv, Resting, Command
    <3> QED BY <1>1, <2>1, <3>1 DEF Resting, Arriving, Finish
  <2>5. {slots[j] : j \in Resting}' = (orders \ {slots[i]}) \cup {Resized(slots[i], c.qty)}
    BY <2>2, <2>3, <2>4, OrdersAfterChange
  <2>6. AsPriorityBook(room)' =
          [orders |-> (orders \ {slots[i]}) \cup {Resized(slots[i], c.qty)},
           room |-> room, numbered |-> next_seq + 1, made |-> next_trade_id,
           run |-> Idle(Outcome(TRUE))]
    BY <1>1, <2>1, <2>5, AsReturned
  <2>7. AsPriorityBook(room)' =
          With(n, (n.orders \ {slots[i]}) \cup {Resized(slots[i], c.qty)},
               Idle(Outcome(TRUE)))
    BY <1>2, <2>6 DEF With
  <2>8. BeginModify(n, c) =
          With(n, (n.orders \ {slots[i]}) \cup {Resized(slots[i], c.qty)},
               Idle(Outcome(TRUE)))
    BY <1>7, <1>8, <2>1, <2>2 DEF BeginModify
  <2> QED BY <1>4, <2>7, <2>8
<1>9. CASE ModifyMove(c)
  <2>1. /\ ~KeepsPlace(c, OrderOf(c)) /\ ~would_cross(OrderOf(c).side, c.price)
        /\ Found(c)
        /\ idx' = id_map[c.id].index /\ cmd' = c /\ result' = Outcome(FALSE)
        /\ pc' = "move" /\ left' = left /\ total' = total
        /\ slots' = [slots EXCEPT ![id_map[c.id].index] =
                                    Repositioned(slots[id_map[c.id].index], c)]
    BY <1>9 DEF ModifyMove, ModifyRefused, Goto
  <2>2. PICK i \in Index : /\ i = id_map[c.id].index /\ i \in Resting
                           /\ slots[i] \in Order
                           /\ OrderOf(c) = slots[i]
                           /\ OrderNamed(n, c.id) = slots[i]
    BY <1>7, <1>9
  <2>3. Repositioned(slots[i], c) = Moved(slots[i], c, next_seq)
    BY DEF Repositioned, Moved
  <2>4. Moved(slots[i], c, next_seq) \in Order
    BY <1>1, <2>2 DEF Moved, Order, Command
  <2>5. slots' = [slots EXCEPT ![i] = Moved(slots[i], c, next_seq)]
    BY <2>1, <2>2, <2>3
  <2>6. Resting' = Resting
    <3>1. \A j \in Index : Live(j)' <=> Live(j)
      BY <2>2, <2>4, <2>5, UndefAssumption DEF IndInv, TypeOK, PoolTypeOK, Live
    <3> QED BY <1>1, <2>1, <3>1 DEF Resting, Arriving
  <2> DEFINE moved == (orders \ {slots[i]}) \cup {Moved(slots[i], c, next_seq)}
  <2>7. {slots[j] : j \in Resting}' = moved
    BY <2>2, <2>5, <2>6, OrdersAfterChange
  <2>8. left = 0 /\ total = 0
    BY <1>1 DEF Leftover, Accounted
  <2>9. {slots[j] : j \in CountedByWalk}' = {} /\ Point' = "move"
    BY <2>1 DEF CountedByWalk, Point
  <2>10. AsPriorityBook(room)' =
           [orders |-> moved, room |-> room,
            numbered |-> next_seq + 1, made |-> next_trade_id,
            run |-> Enters("move", c, 0)]
    <3> HIDE DEF moved
    <3> QED BY <1>1, <2>1, <2>7, <2>8, <2>9 DEF AsPriorityBook, Enters
  <2>11. BeginModify(n, c) =
           With(n, (n.orders \ {slots[i]}) \cup {Moved(slots[i], c, n.numbered - 1)},
                Enters("move", c, 0))
    BY <1>5, <1>7, <1>9, <2>1, <2>2 DEF BeginModify
  <2>12. n.numbered - 1 = next_seq /\ n.orders = orders
    BY <1>1, <1>2
  <2>13. BeginModify(n, c) = With(n, moved, Enters("move", c, 0))
    BY <2>11, <2>12
  <2>14. With(n, moved, Enters("move", c, 0)) =
           [orders |-> moved, room |-> room,
            numbered |-> next_seq + 1, made |-> next_trade_id,
            run |-> Enters("move", c, 0)]
    BY <1>2 DEF With
  <2> QED BY <1>4, <2>10, <2>13, <2>14
<1> QED BY <1>6, <1>7, <1>8, <1>9

-----------------------------------------------------------------------------
(* A command goes on: the fill-or-kill check. *)

(* What the check has not counted yet, and which of it comes first. *)
LEMMA FokAhead ==
  ASSUME IndInv, Accounted, FokSound, pc = "fok", NEW room
  PROVE  LET b == AsPriorityBook(room)
             S == Takeable(b) \ b.run.counted
         IN  /\ S = {slots[i] : i \in {j \in Marketable : ~Passed(j)}}
             /\ \A i \in Index : i = idx => slots[i] \in S /\ Foremost(S) = slots[i]
<1> DEFINE b == AsPriorityBook(room)
           S == Takeable(b) \ b.run.counted
           opp == Opposite(cmd.side)
<1>1. IsAdd(cmd) /\ cmd \in Command /\ WalkOrdered
  BY DEF IndInv, CommandOK, FokSound
<1>2. b.run.counted = {slots[i] : i \in {j \in Marketable : Passed(j)}}
  BY DEF AsPriorityBook, CountedByWalk
<1>3. Takeable(b) = {slots[i] : i \in Marketable}
  BY <1>1, TakeableIs
<1> HIDE DEF b
<1>4. Marketable \subseteq Resting
  BY <1>1, RestingIsLinked DEF Marketable
<1>5. S = {slots[i] : i \in {j \in Marketable : ~Passed(j)}}
  BY <1>2, <1>3, <1>4, SlotsDiffer
<1>6. ASSUME NEW i \in Index, i = idx
      PROVE  slots[i] \in S /\ Foremost(S) = slots[i]
  <2>1. /\ i \in Marketable
        /\ \A j \in Marketable : Passed(j) <=> Ahead(slots[j], slots[i])
    BY <1>1, <1>6, WalkIsNext
  <2>2. ~Passed(i)
    <3>1. i # kNilIndex
      BY NilNotIndex
    <3>2. slots[i].seq_no \in Nat
      BY <2>1, AtLevel
    <3> QED BY <1>6, <3>1, <3>2 DEF Passed
  <2>3. \A j \in Marketable : slots[j] \in Order /\ slots[j].side = opp
    BY AtLevel
  <2>4. ASSUME NEW j \in Marketable, ~Passed(j), j # i
        PROVE  Ahead(slots[i], slots[j])
    <3>1. ~Ahead(slots[j], slots[i])
      BY <2>1, <2>4
    <3>2. slots[j].seq_no # slots[i].seq_no
      BY <2>1, <2>4 DEF IndInv, SeqNosOrdered, Marketable, Linked
    <3>3. /\ slots[j].price \in Int /\ slots[i].price \in Int
          /\ slots[j].seq_no \in Int /\ slots[i].seq_no \in Int
          /\ slots[j].side = slots[i].side /\ slots[i].side \in Side
      BY <2>1, <2>3, PriceAssumption DEF Order, Price
    <3> QED BY <3>1, <3>2, <3>3 DEF Ahead, Side
  <2>5. slots[i] \in S
    BY <1>5, <2>1, <2>2
  <2>6. \A p \in S : p \in Order /\ p.side = opp
    BY <1>5, <2>3
  <2>7. \A p \in S \ {slots[i]} : Ahead(slots[i], p)
    BY <1>5, <2>4
  <2> HIDE DEF S, opp
  <2>8. Foremost(S) = slots[i]
    BY <2>5, <2>6, <2>7, ForemostIs
  <2> QED BY <2>5, <2>8
<1> QED BY <1>5, <1>6 DEF b

(* The walk that finds no further level has counted everything it could.   *)
LEMMA WalkComplete ==
  ASSUME IndInv, Accounted, FokSound, pc = "fok", idx = kNilIndex,
         \A p \in Price : ~FokNext(p), NEW i \in Marketable
  PROVE  Passed(i)
<1> DEFINE opp == Opposite(cmd.side)
           S == prices[opp] \ walked
<1>1. cmd \in Command /\ cmd.side \in Side /\ cmd.price \in Price /\ cmd.kind = "Limit"
  BY DEF IndInv, CommandOK, Command, Accounted
<1>2. opp \in Side /\ slots[i].price \in prices[opp] /\ Acceptable(slots[i].price)
      /\ S \in SUBSET Price
  BY AtLevel DEF Marketable, IndInv, TypeOK
<1>3. \A p \in S : IsBest(opp, S, p) => ~Crosses(cmd.side, p, cmd.price)
  BY <1>1, <1>2 DEF FokNext, crosses
<1>4. \A p \in S : ~Crosses(cmd.side, p, cmd.price)
  BY <1>1, <1>2, <1>3, BestDecides
<1>5. Crosses(cmd.side, slots[i].price, cmd.price)
  BY <1>1, <1>2 DEF Acceptable, Crosses, Side
<1>6. slots[i].price \in walked
  BY <1>2, <1>4, <1>5
<1> QED BY <1>6 DEF Passed

(* The book at the check. *)
LEMMA AsChecking ==
  ASSUME pc = "fok", NEW room
  PROVE  AsPriorityBook(room) =
           [orders |-> {slots[i] : i \in Resting}, room |-> room,
            numbered |-> next_seq, made |-> next_trade_id,
            run |-> [point |-> "fok", cmd |-> cmd, left |-> left,
                     counted |-> {slots[i] : i \in {j \in Marketable : Passed(j)}},
                     total |-> total, result |-> result]]
<1>1. Point = "fok" /\ CountedByWalk = {j \in Marketable : Passed(j)}
  BY DEF Point, CountedByWalk
<1> QED BY <1>1 DEF AsPriorityBook

(* Going on to the next level counts nothing. *)
LEMMA FokLevelStutters ==
  ASSUME IndInv, FokLevel, NEW room
  PROVE  AsPriorityBook(room)' = AsPriorityBook(room)
<1>1. /\ pc = "fok" /\ pc' = pc
      /\ UNCHANGED <<slots, next_seq, next_trade_id, cmd, left, total, result>>
  BY DEF FokLevel, poolVars, counterVars
<1>2. Resting' = Resting /\ Marketable' = Marketable
  BY <1>1 DEF Resting, Arriving, Marketable, Linked, Live, Placing, Acceptable
<1>3. CountedByWalk' = CountedByWalk
  BY <1>1, <1>2, FokLevelPasses DEF CountedByWalk
<1>4. Point' = Point
  BY <1>1 DEF Point
<1> QED BY <1>1, <1>2, <1>3, <1>4 DEF AsPriorityBook

(* Counting an order is a turn. *)
LEMMA FokOrderTurns ==
  ASSUME IndInv, Accounted, FokSound, FokOrder, NEW room
  PROVE  AsPriorityBook(room)' = Turn(AsPriorityBook(room))
<1> DEFINE b == AsPriorityBook(room)
           S == Takeable(b) \ b.run.counted
           orders == {slots[j] : j \in Resting}
           counted == {slots[j] : j \in {k \in Marketable : Passed(k)}}
<1>1. /\ pc = "fok" /\ pc' = pc
      /\ UNCHANGED <<slots, next_seq, next_trade_id, cmd, left, result>>
      /\ total' = (total + slots[idx].qty) % QtyModulus
      /\ slots[idx].account # cmd.account /\ WalkOrdered
  BY DEF FokOrder, FokStops, poolVars, counterVars, FokSound
<1>2. PICK i \in Index : i = idx
  BY DEF FokOrder, IndInv, TypeOK, IndexOrNil
<1>3. Resting' = Resting /\ Marketable' = Marketable
  BY <1>1 DEF Resting, Arriving, Marketable, Linked, Live, Placing, Acceptable
<1>4. i \in Marketable /\ \A j \in Marketable : Passed(j)' <=> Passed(j) \/ j = i
  BY <1>1, <1>2, WalkIsNext, FokOrderPasses
<1>5. {slots[j] : j \in {k \in Marketable : Passed(k)}}' = counted \cup {slots[i]}
  BY <1>1, <1>3, <1>4
<1>6. b' = [orders |-> orders, room |-> room,
            numbered |-> next_seq, made |-> next_trade_id,
            run |-> [point |-> "fok", cmd |-> cmd, left |-> left,
                     counted |-> counted \cup {slots[i]},
                     total |-> (total + slots[i].qty) % QtyModulus,
                     result |-> result]]
  <2>1. pc' = "fok" /\ {slots[j] : j \in Resting}' = orders
    BY <1>1, <1>3
  <2>2. Point' = "fok" /\ CountedByWalk' = {k \in Marketable : Passed(k)}'
    BY <2>1 DEF Point, CountedByWalk
  <2>3. {slots[j] : j \in CountedByWalk}' = counted \cup {slots[i]}
    BY <1>5, <2>2
  <2> HIDE DEF orders, counted
  <2> QED BY <1>1, <1>2, <2>1, <2>2, <2>3 DEF AsPriorityBook
<1>7. b = [orders |-> orders, room |-> room,
           numbered |-> next_seq, made |-> next_trade_id,
           run |-> [point |-> "fok", cmd |-> cmd, left |-> left,
                    counted |-> counted, total |-> total, result |-> result]]
  BY <1>1, AsChecking
<1>8. slots[i] \in S /\ Foremost(S) = slots[i]
  BY <1>1, <1>2, FokAhead
<1> HIDE DEF b, orders, counted
<1>9. b.run.point = "fok" /\ b.run.cmd = cmd
  BY <1>7
<1>10. FokTurn(b) = With(b, b.orders,
                         [point |-> "fok", cmd |-> b.run.cmd, left |-> b.run.left,
                          counted |-> b.run.counted \cup {slots[i]},
                          total |-> (b.run.total + slots[i].qty) % QtyModulus,
                          result |-> b.run.result])
  BY <1>1, <1>2, <1>8, <1>9 DEF FokTurn
<1>11. FokTurn(b) = b'
  BY <1>6, <1>7, <1>10 DEF With
<1> QED BY <1>9, <1>11 DEF Turn, b

(* The walk ends when nothing is left to count, or at an order of the      *)
(* taker's own account: the check decides.                                 *)
LEMMA FokEnds ==
  ASSUME IndInv, Accounted, FokSound, pc = "fok", FokWalkEnded, NEW room
  PROVE  LET b == AsPriorityBook(room)
         IN  Turn(b) = IF total >= cmd.qty
                         THEN With(b, b.orders,
                                   [point |-> "cross", cmd |-> cmd, left |-> left,
                                    counted |-> {}, total |-> 0, result |-> result])
                         ELSE Return(b, Closed(b, FALSE, FALSE, 0))
<1> DEFINE b == AsPriorityBook(room)
           S == Takeable(b) \ b.run.counted
<1>1. S = {} \/ Foremost(S).account = cmd.account
  <2>1. CASE idx = kNilIndex
    <3>1. \A i \in Marketable : Passed(i)
      BY <2>1, WalkComplete DEF FokWalkEnded
    <3>2. S = {slots[i] : i \in {j \in Marketable : ~Passed(j)}}
      BY FokAhead
    <3> QED BY <3>1, <3>2
  <2>2. CASE idx # kNilIndex
    <3>1. PICK i \in Index : i = idx
      BY <2>2 DEF IndInv, TypeOK, IndexOrNil
    <3>2. Foremost(S) = slots[i]
      BY <3>1, FokAhead
    <3> QED BY <2>2, <3>1, <3>2 DEF FokWalkEnded, FokStops
  <2> QED BY <2>1, <2>2
<1>2. /\ b.run.point = "fok" /\ b.run.cmd = cmd /\ b.run.left = left
      /\ b.run.total = total /\ b.run.result = result
  BY AsChecking
<1> HIDE DEF b
<1>3. Turn(b) = FokTurn(b)
  BY <1>2 DEF Turn
<1>4. ~(S # {} /\ Foremost(S).account # b.run.cmd.account)
  BY <1>1, <1>2
<1> QED BY <1>2, <1>3, <1>4 DEF FokTurn, b

(* What rests after a step that leaves the pool alone and begins or ends   *)
(* at no append.                                                           *)
LEMMA RestingKept ==
  ASSUME UNCHANGED slots, pc # "append" \/ cmd.kind = "Modify", ~IsAdd(cmd') \/ pc' # "append"
  PROVE  /\ Resting' = Resting
         /\ {slots[i] : i \in Resting}' = {slots[i] : i \in Resting}
<1>1. Resting' = Resting
  BY DEF Resting, Arriving, Live, IsAdd
<1> QED BY <1>1

(* The check decides in a turn. *)
LEMMA FokDecides ==
  ASSUME IndInv, Accounted, FokSound, FokReject \/ FokPass, NEW room
  PROVE  AsPriorityBook(room)' = Turn(AsPriorityBook(room))
<1> DEFINE b == AsPriorityBook(room)
           orders == {slots[j] : j \in Resting}
<1>1. /\ pc = "fok" /\ FokWalkEnded
      /\ UNCHANGED <<slots, next_seq, next_trade_id>>
      /\ pc' # "append" /\ pc' # "fok"
  BY DEF FokReject, FokPass, poolVars, counterVars, Goto, Finish
<1>2. {slots[j] : j \in Resting}' = orders
  BY <1>1, RestingKept
<1>3. /\ b.orders = orders /\ b.room = room /\ b.numbered = next_seq
      /\ b.made = next_trade_id /\ b.run.result = result
  BY <1>1, AsChecking
<1>4. CASE FokReject
  <2>1. b' = [orders |-> orders, room |-> room,
              numbered |-> next_seq, made |-> next_trade_id,
              run |-> Idle(Accepted(FALSE, FALSE, 0))]
    BY <1>1, <1>2, <1>4, AsReturned DEF FokReject
  <2>2. Closed(b, FALSE, FALSE, 0) = Accepted(FALSE, FALSE, 0)
    BY <1>3 DEF Closed, Accepted
  <2>3. Turn(b) = Return(b, Closed(b, FALSE, FALSE, 0))
    BY <1>1, <1>4, FokEnds DEF FokReject, FokEnough
  <2> QED BY <1>3, <2>1, <2>2, <2>3 DEF Return, With
<1>5. CASE FokPass
  <2>1. /\ Point' = "cross" /\ cmd' = cmd /\ left' = left /\ total' = 0
        /\ result' = result
    BY <1>5 DEF FokPass, Goto, Point
  <2>2. {slots[i] : i \in CountedByWalk}' = {}
    BY <1>1 DEF CountedByWalk
  <2> HIDE DEF orders
  <2>3. b' = [orders |-> orders, room |-> room,
              numbered |-> next_seq, made |-> next_trade_id,
              run |-> [point |-> "cross", cmd |-> cmd, left |-> left,
                       counted |-> {}, total |-> 0, result |-> result]]
    BY <1>1, <1>2, <2>1, <2>2 DEF AsPriorityBook
  <2>4. Turn(b) = With(b, b.orders,
                       [point |-> "cross", cmd |-> cmd, left |-> left,
                        counted |-> {}, total |-> 0, result |-> result])
    BY <1>1, <1>5, FokEnds DEF FokPass, FokEnough
  <2> QED BY <1>3, <2>3, <2>4 DEF With
<1> QED BY <1>4, <1>5

-----------------------------------------------------------------------------
(* A command goes on: the sweep. *)

(* The book in the sweep and in the rest of an add. *)
LEMMA AsCrossing ==
  ASSUME IndInv, Accounted, NEW room,
         \/ pc \in {"cross", "rest", "allocate"}
         \/ pc = "append" /\ IsAdd(cmd)
  PROVE  AsPriorityBook(room) =
           [orders |-> {slots[i] : i \in Resting}, room |-> room,
            numbered |-> next_seq, made |-> next_trade_id,
            run |-> [point |-> "cross", cmd |-> cmd, left |-> left,
                     counted |-> {}, total |-> 0, result |-> result]]
<1>1. CountedByWalk = {} /\ total = 0 /\ Point = "cross"
  BY DEF CountedByWalk, Accounted, Point
<1> QED BY <1>1, AsRunning

(* The order at the head of the level the sweep has come to is the one the *)
(* priority book takes.                                                    *)
LEMMA HeadIsForemost ==
  ASSUME IndInv, Accounted, pc = "cross", NEW p \in Price, CrossLevel(p),
         level[Opposite(cmd.side)][p].head # kNilIndex, NEW room
  PROVE  LET i == level[Opposite(cmd.side)][p].head
             S == Takeable(AsPriorityBook(room))
         IN  /\ i \in Index /\ i \in Resting /\ Linked(i) /\ slots[i] \in Order
             /\ slots[i].qty > 0
             /\ S # {} /\ Foremost(S) = slots[i]
<1> DEFINE S == Takeable(AsPriorityBook(room))
           opp == Opposite(cmd.side)
<1>1. PICK i \in Index : i = level[opp][p].head
  BY Maker
<1>2. Linked(i) /\ slots[i] \in Order /\ slots[i].qty > 0
  BY <1>1, Maker
<1>3. /\ i \in Marketable /\ slots[i].side = opp
      /\ \A j \in Index \ {i} :
           Linked(j) /\ slots[j].side = slots[i].side => Ahead(slots[i], slots[j])
  BY <1>1, HeadHasPriority
<1>4. IsAdd(cmd) /\ cmd \in Command
  BY DEF IndInv, CommandOK
<1>5. S = {slots[j] : j \in Marketable}
  BY <1>4, TakeableIs
<1>6. \A j \in Marketable : slots[j] \in Order /\ slots[j].side = opp
  BY LinkedOrder DEF Marketable
<1>7. i \in Resting
  BY <1>2, <1>4, RestingIsLinked
<1> HIDE DEF S, opp
<1>8. slots[i] \in S /\ \A q \in S : q \in Order /\ q.side = opp
  BY <1>3, <1>5, <1>6
<1>9. \A q \in S \ {slots[i]} : Ahead(slots[i], q)
  BY <1>3, <1>5 DEF Marketable, opp
<1>10. Foremost(S) = slots[i]
  BY <1>8, <1>9, ForemostIs
<1> QED BY <1>1, <1>2, <1>7, <1>8, <1>10 DEF S, opp

(* With nothing left to trade the residual rests, or is dropped. *)
LEMMA EndsTurn ==
  ASSUME IndInv, Accounted, NEW room, IsAdd(cmd),
         \/ pc = "cross" /\ CrossEnded
         \/ pc \in {"allocate", "append"}
  PROVE  Turn(AsPriorityBook(room)) = RestTurn(AsPriorityBook(room))
<1> DEFINE b == AsPriorityBook(room)
<1>1. b.run.point = "cross" /\ b.run.left = left /\ b.run.cmd = cmd
  BY AsCrossing
<1>2. left = 0 \/ Takeable(b) = {}
  <2> SUFFICES ASSUME left # 0 PROVE Takeable(b) = {}
    OBVIOUS
  <2>1. Marketable = {}
    BY SweepIsComplete, ResidualIsAlone DEF CrossEnded
  <2>2. cmd \in Command
    BY DEF IndInv, CommandOK
  <2>3. Takeable(b) = {slots[i] : i \in Marketable}
    BY <2>2, TakeableIs
  <2> QED BY <2>1, <2>3
<1> HIDE DEF b
<1> QED BY <1>1, <1>2 DEF Turn, CrossTurn, b

(* A sweep that ends with nothing that may rest returns in a turn. *)
LEMMA CrossDoneTurns ==
  ASSUME IndInv, Accounted, CrossDone, NEW room
  PROVE  AsPriorityBook(room)' = Turn(AsPriorityBook(room))
<1> DEFINE b == AsPriorityBook(room)
           orders == {slots[j] : j \in Resting}
<1>1. /\ pc = "cross" /\ CrossEnded /\ ~(may_rest /\ left > 0)
      /\ Finish(Accepted(FALSE, FALSE, 0))
      /\ UNCHANGED <<slots, next_seq, next_trade_id>>
  BY DEF CrossDone, poolVars, counterVars
<1>2. IsAdd(cmd)
  BY <1>1 DEF IndInv, CommandOK
<1>3. {slots[j] : j \in Resting}' = orders
  BY <1>1, RestingKept DEF Finish
<1>4. b = [orders |-> orders, room |-> room,
           numbered |-> next_seq, made |-> next_trade_id,
           run |-> [point |-> "cross", cmd |-> cmd, left |-> left,
                    counted |-> {}, total |-> 0, result |-> result]]
  BY <1>1, AsCrossing
<1>5. b' = [orders |-> orders, room |-> room,
            numbered |-> next_seq, made |-> next_trade_id,
            run |-> Idle(Accepted(FALSE, FALSE, 0))]
  BY <1>1, <1>3, AsReturned
<1>6. Turn(b) = RestTurn(b)
  BY <1>1, <1>2, EndsTurn
<1> HIDE DEF b
<1>7. Turn(b) = Return(b, Closed(b, FALSE, FALSE, 0))
  BY <1>1, <1>4, <1>6 DEF RestTurn, may_rest
<1>8. Closed(b, FALSE, FALSE, 0) = Accepted(FALSE, FALSE, 0)
  BY <1>4 DEF Closed, Accepted
<1>9. Turn(b) = b'
  BY <1>4, <1>5, <1>7, <1>8 DEF Return, With
<1> QED BY <1>9 DEF b

(* The stop at the taker's own order is a turn. *)
LEMMA CrossStopTurns ==
  ASSUME IndInv, Accounted, CrossStop, NEW room
  PROVE  AsPriorityBook(room)' = Turn(AsPriorityBook(room))
<1> DEFINE b == AsPriorityBook(room)
           orders == {slots[j] : j \in Resting}
<1>1. /\ pc = "cross" /\ left > 0
      /\ Finish(Accepted(TRUE, FALSE, 0))
      /\ UNCHANGED <<slots, next_seq, next_trade_id>>
  BY DEF CrossStop, poolVars, counterVars
<1>2. PICK p \in Price : /\ CrossLevel(p)
                         /\ level[Opposite(cmd.side)][p].head # kNilIndex
                         /\ slots[level[Opposite(cmd.side)][p].head].account = cmd.account
  BY DEF CrossStop
<1>3. Takeable(b) # {} /\ Foremost(Takeable(b)).account = cmd.account
  BY <1>1, <1>2, HeadIsForemost
<1>4. {slots[j] : j \in Resting}' = orders
  BY <1>1, RestingKept DEF Finish
<1>5. b = [orders |-> orders, room |-> room,
           numbered |-> next_seq, made |-> next_trade_id,
           run |-> [point |-> "cross", cmd |-> cmd, left |-> left,
                    counted |-> {}, total |-> 0, result |-> result]]
  BY <1>1, AsCrossing
<1>6. b' = [orders |-> orders, room |-> room,
            numbered |-> next_seq, made |-> next_trade_id,
            run |-> Idle(Accepted(TRUE, FALSE, 0))]
  BY <1>1, <1>4, AsReturned
<1>7. left # 0
  BY <1>1
<1> HIDE DEF b
<1>8. Turn(b) = Return(b, Closed(b, TRUE, FALSE, 0))
  BY <1>3, <1>5, <1>7 DEF Turn, CrossTurn
<1>9. Closed(b, TRUE, FALSE, 0) = Accepted(TRUE, FALSE, 0)
  BY <1>5 DEF Closed, Accepted
<1>10. Turn(b) = b'
  BY <1>5, <1>6, <1>8, <1>9 DEF Return, With
<1> QED BY <1>10 DEF b

(* What is more than nothing is not nothing: left is a number. *)
LEMMA SomethingLeft == ASSUME IndInv, left > 0 PROVE left # 0
<1>1. left \in Int
  BY QtyAssumption DEF IndInv, TypeOK, Qty
<1> QED BY <1>1

(* A fill of the head is the turn of a trade. *)
LEMMA FillTurns ==
  ASSUME IndInv, Accounted, pc = "cross", left > 0, NEW p \in Price, CrossLevel(p),
         level[Opposite(cmd.side)][p].head # kNilIndex, NEW room,
         NEW i, i = level[Opposite(cmd.side)][p].head,
         NEW fill, fill = IF left < slots[i].qty THEN left ELSE slots[i].qty,
         Fill(slots[i], fill), UNCHANGED <<next_seq, pc, cmd, walked, total>>,
         {slots[j] : j \in Resting}' =
           ({slots[j] : j \in Resting} \ {slots[i]}) \cup
             (IF fill < slots[i].qty THEN {Resized(slots[i], slots[i].qty - fill)} ELSE {})
  PROVE  AsPriorityBook(room)' = Turn(AsPriorityBook(room))
<1> DEFINE b == AsPriorityBook(room)
           S == Takeable(b)
           orders == {slots[j] : j \in Resting}
           after == (orders \ {slots[i]}) \cup
                      (IF fill < slots[i].qty THEN {Resized(slots[i], slots[i].qty - fill)}
                                              ELSE {})
           trades == [result EXCEPT !.trades = Append(@, TradeWith(slots[i], fill))]
<1>1. b = [orders |-> orders, room |-> room,
           numbered |-> next_seq, made |-> next_trade_id,
           run |-> [point |-> "cross", cmd |-> cmd, left |-> left,
                    counted |-> {}, total |-> 0, result |-> result]]
  BY AsCrossing
<1>2. S # {} /\ Foremost(S) = slots[i]
  BY HeadIsForemost
<1>3. slots[i].account # cmd.account /\ left # 0
  <2>1. slots[i].account # cmd.account
    BY DEF Fill
  <2>2. left # 0
    BY SomethingLeft, Zenon
  <2> QED BY <2>1, <2>2
<1>4. b' = [orders |-> after, room |-> room,
            numbered |-> next_seq, made |-> next_trade_id + 1,
            run |-> [point |-> "cross", cmd |-> cmd, left |-> left - fill,
                     counted |-> {}, total |-> 0, result |-> trades]]
  <2>1. /\ pc' = "cross" /\ left' = left - fill /\ next_trade_id' = next_trade_id + 1
        /\ result' = trades /\ cmd' = cmd /\ next_seq' = next_seq
    BY DEF Fill
  <2>2. total' = 0
    BY DEF Accounted
  <2>3. Point' = "cross" /\ {slots[j] : j \in CountedByWalk}' = {}
    BY <2>1 DEF Point, CountedByWalk
  <2>4. {slots[j] : j \in Resting}' = after
    OBVIOUS
  <2> HIDE DEF after, trades
  <2> QED BY <2>1, <2>2, <2>3, <2>4 DEF AsPriorityBook
<1> HIDE DEF b
<1>5. Turn(b) = TradeTurn(b, slots[i])
  BY <1>1, <1>2, <1>3 DEF Turn, CrossTurn
<1>6. TradeWith(slots[i], fill) =
        [maker_order_id |-> slots[i].order_id, taker_order_id |-> b.run.cmd.id,
         price |-> slots[i].price, qty |-> fill, trade_id |-> b.made,
         seq_no |-> b.numbered - 1]
  BY <1>1 DEF TradeWith, seq
<1>7. TradeTurn(b, slots[i]) =
        [orders |-> after, room |-> room,
         numbered |-> next_seq, made |-> next_trade_id + 1,
         run |-> [point |-> "cross", cmd |-> cmd, left |-> left - fill,
                  counted |-> {}, total |-> 0, result |-> trades]]
  <2>1. fill = IF b.run.left < slots[i].qty THEN b.run.left ELSE slots[i].qty
    BY <1>1
  <2>2. TradeTurn(b, slots[i]) =
          [orders |-> (b.orders \ {slots[i]}) \cup
                        (IF fill < slots[i].qty
                           THEN {Resized(slots[i], slots[i].qty - fill)} ELSE {}),
           room |-> b.room, numbered |-> b.numbered, made |-> b.made + 1,
           run |-> [point |-> "cross", cmd |-> b.run.cmd, left |-> b.run.left - fill,
                    counted |-> {}, total |-> 0,
                    result |-> [b.run.result EXCEPT
                                  !.trades = Append(@, TradeWith(slots[i], fill))]]]
    BY <1>6, <2>1, ZenonT(30) DEF TradeTurn
  <2> QED BY <1>1, <2>2
<1>8. Turn(b) = b'
  BY <1>4, <1>5, <1>7
<1> QED BY <1>8 DEF b

(* The maker that stays at its head. *)
LEMMA CrossPartialTurns ==
  ASSUME IndInv, Accounted, CrossPartial, NEW room
  PROVE  AsPriorityBook(room)' = Turn(AsPriorityBook(room))
<1>1. /\ pc = "cross" /\ left > 0
      /\ UNCHANGED <<next_seq, pc, cmd, walked, total>>
  BY DEF CrossPartial
<1>2. PICK p \in Price :
        LET j == level[Opposite(cmd.side)][p].head
        IN  /\ CrossLevel(p) /\ j # kNilIndex /\ left < slots[j].qty
            /\ Fill(slots[j], left)
            /\ slots' = [slots EXCEPT ![j].qty = @ - left]
  BY DEF CrossPartial
<1>3. PICK i \in Index : /\ i = level[Opposite(cmd.side)][p].head
                         /\ slots[i] \in Order /\ i \in Resting
  BY <1>1, <1>2, HeadIsForemost
<1> DEFINE q == slots[i].qty - left
<1>4. slots' = [slots EXCEPT ![i] = Resized(slots[i], q)]
  <2>1. slots' = [slots EXCEPT ![i].qty = q]
    BY <1>2, <1>3
  <2> HIDE DEF q
  <2> QED BY <1>3, <2>1, ResizedIs
<1>5. q \in Qty
  <2>1. left \in Qty /\ slots[i].qty \in Qty
    BY <1>3 DEF IndInv, TypeOK, Order
  <2>2. left < slots[i].qty
    BY <1>2, <1>3
  <2> QED BY <1>1, <2>1, <2>2, QtyAssumption DEF Qty
<1>6. Resting' = Resting
  <2>1. \A j \in Index : Live(j)' <=> Live(j)
    <3>1. slots' = [slots EXCEPT ![i].qty = q]
      BY <1>2, <1>3
    <3> HIDE DEF q
    <3> QED BY <1>3, <1>5, <3>1, QtyUpdate DEF IndInv, Resting
  <2> QED BY <1>1, <2>1 DEF Resting, Arriving
<1>7. {slots[j] : j \in Resting}' = ({slots[j] : j \in Resting} \ {slots[i]}) \cup {Resized(slots[i], q)}
  BY <1>3, <1>4, <1>6, OrdersAfterChange
<1> QED BY <1>1, <1>2, <1>3, <1>7, FillTurns

(* The maker that is filled. *)
LEMMA CrossFullTurns ==
  ASSUME IndInv, Accounted, CrossFull, NEW room
  PROVE  AsPriorityBook(room)' = Turn(AsPriorityBook(room))
<1>1. /\ pc = "cross" /\ left > 0 /\ TypeOK
      /\ UNCHANGED <<next_seq, pc, cmd, walked, total>>
  BY DEF CrossFull, IndInv
<1>2. PICK p \in Price :
        LET j == level[Opposite(cmd.side)][p].head
        IN  /\ CrossLevel(p) /\ j # kNilIndex /\ left >= slots[j].qty
            /\ Fill(slots[j], slots[j].qty) /\ free(handle_of(j))
  BY DEF CrossFull
<1>3. PICK i \in Index : /\ i = level[Opposite(cmd.side)][p].head
                         /\ slots[i] \in Order /\ i \in Resting
  BY <1>1, <1>2, HeadIsForemost
<1>4. slots' = [slots EXCEPT ![i] = Undef]
  BY <1>1, <1>2, <1>3, FreeEffect
<1>5. Resting' = Resting \ {i}
  BY <1>1, <1>3, <1>4 DEF Resting, Arriving, Live, TypeOK, PoolTypeOK
<1>6. {slots[j] : j \in Resting}' = {slots[j] : j \in Resting} \ {slots[i]}
  BY <1>3, <1>4, <1>5, OrdersAfterRemoval
<1>7. left \in Int /\ slots[i].qty \in Int
  BY <1>1, <1>3, QtyAssumption DEF TypeOK, Order, Qty
<1>8. ~(left < slots[i].qty) /\ ~(slots[i].qty < slots[i].qty)
  <2>1. left >= slots[i].qty
    BY <1>2, <1>3
  <2> QED BY <1>7, <2>1
<1> QED BY <1>1, <1>2, <1>3, <1>6, <1>8, FillTurns

(* The steps of rest before the order is queued change none of it. *)
LEMMA RestStutters ==
  ASSUME IndInv, IndInv', Accounted, Accounted',
         CrossResidual \/ RestLevel \/ RestAllocate, NEW room
  PROVE  AsPriorityBook(room)' = AsPriorityBook(room)
<1>1. /\ pc \in {"cross", "rest", "allocate"} /\ IsAdd(cmd)
      /\ \/ pc' \in {"cross", "rest", "allocate"}
         \/ pc' = "append" /\ IsAdd(cmd')
      /\ UNCHANGED <<next_seq, next_trade_id, cmd, left, total, result>>
  <2>1. CASE CrossResidual
    BY <2>1 DEF CrossResidual, Goto, counterVars, IndInv, CommandOK
  <2>2. CASE RestLevel
    BY <2>2 DEF RestLevel, Goto, counterVars, IndInv, CommandOK
  <2>3. CASE RestAllocate
    BY <2>3 DEF RestAllocate, Goto, counterVars, IndInv, CommandOK, IsAdd
  <2> QED BY <2>1, <2>2, <2>3
<1>2. {slots[i] : i \in Resting}' = {slots[i] : i \in Resting}
  <2>1. CASE CrossResidual \/ RestLevel
    BY <1>1, <2>1, RestingKept DEF CrossResidual, RestLevel, poolVars, Goto
  <2>2. CASE RestAllocate
    <3>1. /\ pc = "allocate" /\ pc' = "append" /\ idx' = free_head /\ cmd' = cmd
          /\ slots' = [slots EXCEPT ![free_head] = incoming] /\ ~exhausted
      BY <2>2 DEF RestAllocate, allocate, Goto
    <3>2. free_head \in Index /\ ~Live(free_head)
      BY <3>1 DEF IndInv, FreeLinks, exhausted, TypeOK, PoolTypeOK, IndexOrNil
    <3>3. \A i \in Index : i # free_head => slots'[i] = slots[i]
      BY <3>1 DEF IndInv, TypeOK, PoolTypeOK
    <3>4. Resting' = Resting
      BY <1>1, <3>1, <3>2, <3>3 DEF Resting, Arriving, Live
    <3>5. \A i \in Resting : slots'[i] = slots[i]
      BY <3>1, <3>2, <3>3 DEF Resting
    <3> QED BY <3>4, <3>5
  <2> QED BY <2>1, <2>2
<1>3. Point = "cross" /\ Point' = "cross"
  BY <1>1 DEF Point
<1>4. {slots[i] : i \in CountedByWalk} = {} /\ {slots[i] : i \in CountedByWalk}' = {}
  BY <1>1 DEF CountedByWalk
<1> QED BY <1>1, <1>2, <1>3, <1>4 DEF AsPriorityBook

-----------------------------------------------------------------------------
(* A command goes on: the residual rests, or a moved order is queued.      *)

(* A book has as many orders as slots that hold a resting one. *)
LEMMA AsManyOrders ==
  ASSUME IndInv
  PROVE  Cardinality({slots[i] : i \in Resting}) = Cardinality(Resting)
<1> DEFINE orders == {slots[i] : i \in Resting}
           f == [i \in Resting |-> slots[i]]
<1>1. IsFiniteSet(Resting)
  <2>1. IsFiniteSet(Index)
    BY FS_Interval, CapacityAssumption DEF Index
  <2>2. Resting \in SUBSET Index
    BY DEF Resting
  <2> QED BY <2>1, <2>2, FS_Subset
<1>2. \A i, j \in Resting : slots[i] = slots[j] => i = j
  BY SlotsDiffer
<1>3. /\ f \in [Resting -> orders]
      /\ \A i, j \in Resting : f[i] = f[j] => i = j
      /\ \A o \in orders : \E i \in Resting : f[i] = o
  BY <1>2
<1> HIDE DEF f, orders
<1>4. f \in Injection(Resting, orders) /\ f \in Surjection(Resting, orders)
  BY <1>3 DEF Injection, IsInjective, Surjection
<1>5. Cardinality(orders) = Cardinality(Resting)
  BY <1>1, <1>4, FS_Surjection
<1> QED BY <1>5 DEF orders

(* A residual is dropped for want of room in a turn. *)
LEMMA RestFullTurns ==
  ASSUME IndInv, Accounted, Leftover, RestFull,
         NEW room \in 0 .. Capacity, FreeListChain(0 .. room - 1)
  PROVE  AsPriorityBook(room)' = Turn(AsPriorityBook(room))
<1> DEFINE b == AsPriorityBook(room)
           orders == {slots[j] : j \in Resting}
<1>1. /\ pc = "allocate" /\ exhausted /\ Finish(Accepted(FALSE, TRUE, 0))
      /\ UNCHANGED <<slots, next_seq, next_trade_id>> /\ IsAdd(cmd)
  BY DEF RestFull, poolVars, counterVars, IndInv, CommandOK
<1>2. {slots[j] : j \in Resting}' = orders
  BY <1>1, RestingKept DEF Finish
<1>3. b = [orders |-> orders, room |-> room,
           numbered |-> next_seq, made |-> next_trade_id,
           run |-> [point |-> "cross", cmd |-> cmd, left |-> left,
                    counted |-> {}, total |-> 0, result |-> result]]
  BY <1>1, AsCrossing
<1>4. b' = [orders |-> orders, room |-> room,
            numbered |-> next_seq, made |-> next_trade_id,
            run |-> Idle(Accepted(FALSE, TRUE, 0))]
  BY <1>1, <1>2, AsReturned
<1>5. Cardinality(orders) = room
  <2>1. Resting = 0 .. room - 1
    <3>1. \A i \in Index : Live(i) <=> i \in 0 .. room - 1
      BY <1>1, PoolHolds
    <3>2. 0 .. room - 1 \subseteq Index
      BY CapacityAssumption DEF Index
    <3> QED BY <1>1, <3>1, <3>2 DEF Resting, Arriving
  <2>2. Cardinality(0 .. room - 1) = room
    <3>1. 0 \in Int /\ room - 1 \in Int /\ room \in Nat
      BY CapacityAssumption
    <3>2. Cardinality(0 .. room - 1) = IF 0 > room - 1 THEN 0 ELSE room - 1 - 0 + 1
      BY <3>1, FS_Interval
    <3> QED BY <3>1, <3>2
  <2> QED BY <2>1, <2>2, AsManyOrders
<1>6. Turn(b) = RestTurn(b)
  BY <1>1, EndsTurn
<1>7. cmd.kind = "Limit" /\ cmd.tif = "GTC" /\ left > 0
  BY <1>1 DEF Accounted, may_rest, IndInv, CommandOK
<1> HIDE DEF b, orders
<1>8. Turn(b) = Return(b, Closed(b, FALSE, TRUE, 0))
  <2>1. room >= room
    BY CapacityAssumption
  <2> QED BY <1>3, <1>5, <1>6, <1>7, <2>1 DEF RestTurn
<1>9. Closed(b, FALSE, TRUE, 0) = Accepted(FALSE, TRUE, 0)
  BY <1>3 DEF Closed, Accepted
<1>10. Turn(b) = b'
  BY <1>3, <1>4, <1>8, <1>9 DEF Return, With
<1> QED BY <1>10 DEF b

(* A residual rests in a turn. *)
LEMMA RestAppendTurns ==
  ASSUME IndInv, Accounted, Leftover, RestAppend,
         NEW room \in 0 .. Capacity, FreeListChain(0 .. room - 1)
  PROVE  AsPriorityBook(room)' = Turn(AsPriorityBook(room))
<1> DEFINE b == AsPriorityBook(room)
           orders == {slots[j] : j \in Resting}
<1>1. /\ pc = "append" /\ Finish(Accepted(FALSE, FALSE, left))
      /\ UNCHANGED <<slots, next_seq, next_trade_id>> /\ IsAdd(cmd)
  BY DEF RestAppend, counterVars
<1>2. idx \in Index /\ Live(idx) /\ slots[idx] = incoming /\ left > 0
  BY <1>1 DEF IndInv, CommandOK, Leftover, TypeOK, IndexOrNil
<1>3. {slots[j] : j \in Resting}' = orders \cup {incoming}
  <2>1. Resting' = Resting \cup {idx}
    BY <1>1, <1>2 DEF Resting, Arriving, Live, Finish
  <2> QED BY <1>1, <1>2, <2>1
<1>4. b = [orders |-> orders, room |-> room,
           numbered |-> next_seq, made |-> next_trade_id,
           run |-> [point |-> "cross", cmd |-> cmd, left |-> left,
                    counted |-> {}, total |-> 0, result |-> result]]
  BY <1>1, AsCrossing
<1>5. b' = [orders |-> orders \cup {incoming}, room |-> room,
            numbered |-> next_seq, made |-> next_trade_id,
            run |-> Idle(Accepted(FALSE, FALSE, left))]
  <2> HIDE DEF orders
  <2> QED BY <1>1, <1>3, AsReturned
<1>6. ~(Cardinality(orders) >= room)
  <2> DEFINE S == 0 .. room - 1
  <2>1. Resting \in SUBSET (S \ {idx}) /\ idx \in S
    BY <1>1, <1>2, PoolHolds DEF Resting, Arriving
  <2>2. IsFiniteSet(S) /\ Cardinality(S) = room /\ room \in Nat
    <3>1. 0 \in Int /\ room - 1 \in Int /\ room \in Nat
      BY CapacityAssumption
    <3>2. /\ IsFiniteSet(0 .. room - 1)
          /\ Cardinality(0 .. room - 1) = IF 0 > room - 1 THEN 0 ELSE room - 1 - 0 + 1
      BY <3>1, FS_Interval
    <3> QED BY <3>1, <3>2
  <2> HIDE DEF S
  <2>3. IsFiniteSet(S \ {idx}) /\ Cardinality(S \ {idx}) = room - 1
    BY <2>1, <2>2, FS_RemoveElement
  <2>4. Cardinality(Resting) <= room - 1 /\ IsFiniteSet(Resting)
    BY <2>1, <2>3, FS_Subset
  <2>5. Cardinality(orders) = Cardinality(Resting)
    BY AsManyOrders
  <2>6. Cardinality(Resting) \in Nat
    BY <2>4, FS_CardinalityType
  <2> HIDE DEF orders
  <2> QED BY <2>2, <2>4, <2>5, <2>6
<1>7. Turn(b) = RestTurn(b)
  BY <1>1, EndsTurn
<1>8. cmd.kind = "Limit" /\ cmd.tif = "GTC"
  BY <1>1 DEF Accounted, may_rest
<1> HIDE DEF b, orders
<1>9. incoming = [price |-> b.run.cmd.price, qty |-> b.run.left, side |-> b.run.cmd.side,
                  order_id |-> b.run.cmd.id, account |-> b.run.cmd.account,
                  seq_no |-> b.numbered - 1]
  BY <1>4 DEF incoming, seq
<1>10. Turn(b) = With(b, b.orders \cup {incoming},
                      Idle(Closed(b, FALSE, FALSE, b.run.left)))
  BY <1>2, <1>4, <1>6, <1>7, <1>8, <1>9 DEF RestTurn
<1>11. Closed(b, FALSE, FALSE, b.run.left) = Accepted(FALSE, FALSE, left)
  BY <1>4 DEF Closed, Accepted
<1>12. Turn(b) = b'
  BY <1>4, <1>5, <1>10, <1>11 DEF With
<1> QED BY <1>12 DEF b

(* The steps that queue a moved order again. *)
LEMMA MoveGoesOn ==
  ASSUME IndInv, Accounted, NEW room
  PROVE  /\ ModifyLevel => AsPriorityBook(room)' = AsPriorityBook(room)
         /\ ModifyAppend => AsPriorityBook(room)' = Turn(AsPriorityBook(room))
<1> DEFINE b == AsPriorityBook(room)
           orders == {slots[j] : j \in Resting}
<1>1. ASSUME ModifyLevel PROVE b' = b
  <2>1. /\ pc = "move" /\ pc' = "append" /\ ~IsAdd(cmd)
        /\ UNCHANGED <<slots, next_seq, next_trade_id, cmd, left, total, result>>
    BY <1>1 DEF ModifyLevel, Goto, poolVars, counterVars, IndInv, CommandOK, IsAdd
  <2>2. {slots[j] : j \in Resting}' = orders
    BY <2>1, RestingKept DEF IsAdd
  <2>3. Point = "move" /\ Point' = "move"
    BY <2>1 DEF Point, IsAdd
  <2>4. {slots[j] : j \in CountedByWalk} = {} /\ {slots[j] : j \in CountedByWalk}' = {}
    BY <2>1 DEF CountedByWalk
  <2> QED BY <2>1, <2>2, <2>3, <2>4 DEF AsPriorityBook
<1>2. ASSUME ModifyAppend PROVE b' = Turn(b)
  <2>1. /\ pc = "append" /\ Finish(Outcome(TRUE)) /\ cmd.kind = "Modify" /\ ~IsAdd(cmd)
        /\ UNCHANGED <<slots, next_seq, next_trade_id>>
    BY <1>2 DEF ModifyAppend, counterVars, IsAdd
  <2>2. {slots[j] : j \in Resting}' = orders
    BY <2>1, RestingKept DEF Finish
  <2>3. b' = [orders |-> orders, room |-> room,
              numbered |-> next_seq, made |-> next_trade_id,
              run |-> Idle(Outcome(TRUE))]
    BY <2>1, <2>2, AsReturned
  <2>4. Point = "move" /\ CountedByWalk = {} /\ total = 0
    BY <2>1 DEF Point, CountedByWalk, Accounted
  <2>5. b = [orders |-> orders, room |-> room,
             numbered |-> next_seq, made |-> next_trade_id,
             run |-> [point |-> "move", cmd |-> cmd, left |-> left,
                      counted |-> {}, total |-> 0, result |-> result]]
    BY <2>4, AsRunning
  <2> HIDE DEF b
  <2> QED BY <2>3, <2>5 DEF Turn, Return, With
<1> QED BY <1>1, <1>2

-----------------------------------------------------------------------------
(* The simulation. *)

(* Every step of the book keeps what is left where it belongs. *)
LEMMA LeftoverNext == ASSUME IndInv, Leftover, [Next]_vars PROVE Leftover'
<1>1. ASSUME NEW r, Finish(r) PROVE Leftover'
  BY <1>1 DEF Finish, Leftover
<1>2. ASSUME pc' \in {"fok", "cross", "rest", "allocate"} PROVE Leftover'
  BY <1>2 DEF Leftover
<1>3. ASSUME NEW c \in Commands, Start(c) PROVE Leftover'
  <2>1. CASE AddAccept(c)
    BY <1>2, <2>1 DEF AddAccept, Goto
  <2>2. CASE ModifyMove(c)
    BY <2>2 DEF ModifyMove, Dequeue, Goto, Leftover
  <2> QED BY <1>1, <1>3, <2>1, <2>2
         DEF Start, AddReject, ModifyReject, ModifyInPlace, CancelMiss, CancelOrder
<1>4. CASE RestAllocate
  <2>1. /\ pc = "allocate" /\ idx' = free_head /\ pc' = "append"
        /\ slots' = [slots EXCEPT ![free_head] = incoming]
        /\ UNCHANGED <<cmd, left, next_seq>>
    BY <1>4 DEF RestAllocate, allocate, Goto, counterVars
  <2>2. free_head \in Index /\ slots \in [Index -> Order \cup {Undef}]
    BY <1>4 DEF RestAllocate, allocate, exhausted, IndInv, TypeOK, PoolTypeOK, IndexOrNil
  <2>3. left > 0
    BY <2>1 DEF IndInv, CommandOK
  <2>4. incoming' = incoming
    BY <2>1 DEF incoming, seq
  <2>5. slots'[idx'] = incoming
    BY <2>1, <2>2
  <2> QED BY <2>1, <2>3, <2>4, <2>5 DEF Leftover
<1>5. CASE ModifyLevel
  BY <1>5 DEF ModifyLevel, Goto, Leftover, IndInv, CommandOK, IsAdd
<1>6. CASE \/ FokLevel \/ FokOrder \/ FokPass \/ CrossPartial \/ CrossFull
           \/ CrossResidual \/ RestLevel
  BY <1>2, <1>6 DEF FokLevel, FokOrder, FokPass, CrossPartial, CrossFull,
                    CrossResidual, RestLevel, Goto
<1>7. CASE \/ FokReject \/ CrossStop \/ CrossDone \/ RestFull \/ RestAppend
           \/ ModifyAppend
  BY <1>1, <1>7 DEF FokReject, CrossStop, CrossDone, RestFull, RestAppend, ModifyAppend
<1>8. ASSUME UNCHANGED vars PROVE Leftover'
  <2>1. UNCHANGED <<slots, pc, cmd, idx, left, next_seq>>
    BY <1>8 DEF vars, poolVars, counterVars, commandVars
  <2>2. incoming' = incoming
    BY <2>1 DEF incoming, seq
  <2> QED BY <2>1, <2>2 DEF Leftover
<1> QED BY <1>3, <1>4, <1>5, <1>6, <1>7, <1>8 DEF Next, Step, Stopped

(* What the simulation rests on, for a pool of so many slots. *)
Simulable(room) == /\ IndInv
                   /\ Accounted
                   /\ FokSound
                   /\ Leftover
                   /\ FreeListChain(0 .. room - 1)

(* Every step keeps it. *)
LEMMA SimulableNext == ASSUME NEW room, Simulable(room), [Next]_vars PROVE Simulable(room)'
<1> DEFINE S == 0 .. room - 1
<1>1. FreeListChain(S)'
  <2>1. IndInv /\ FreeListChain(S)
    BY DEF Simulable
  <2> HIDE DEF S
  <2> QED BY <2>1, ChainNext
<1>2. IndInv' /\ Accounted' /\ FokSound' /\ Leftover'
  BY NextInd, AccountedNext, FokSoundNext, LeftoverNext DEF Simulable
<1> QED BY <1>1, <1>2 DEF Simulable

(* A new book is a fresh one. *)
LEMMA NewIsFresh ==
  \A room \in 0 .. Capacity :
    Constructed(room) => Simulable(room) /\ AsPriorityBook(room) = FreshBook(room)
<1> SUFFICES ASSUME NEW room \in 0 .. Capacity, Constructed(room)
             PROVE  Simulable(room) /\ AsPriorityBook(room) = FreshBook(room)
  OBVIOUS
<1>1. IndInv
  BY NewBookInd DEF NewBook
<1>2. Accounted /\ FokSound /\ Leftover
  BY DEF Constructed, Accounted, AddRunning, FokSound, Leftover
<1>3. FreeListChain(0 .. room - 1)
  BY ChainConstructed
<1>4. Resting = {} /\ CountedByWalk = {} /\ Point = "idle"
  BY DEF Constructed, Resting, Live, CountedByWalk, Point
<1>5. /\ next_seq = 0 /\ next_trade_id = 0 /\ cmd = Undef /\ left = 0 /\ total = 0
      /\ result = Outcome(FALSE)
  BY DEF Constructed
<1>6. {slots[i] : i \in Resting} = {} /\ {slots[i] : i \in CountedByWalk} = {}
  BY <1>4
<1>7. AsPriorityBook(room) = FreshBook(room)
  BY <1>4, <1>5, <1>6 DEF AsPriorityBook, FreshBook, Idle
<1> QED BY <1>1, <1>2, <1>3, <1>7 DEF Simulable

(* The program point of the priority book is idle when that of the book is. *)
LEMMA IdleTogether ==
  ASSUME NEW room
  PROVE  AsPriorityBook(room).run.point = "idle" <=> pc = "idle"
BY DEF AsPriorityBook, Point

(* A command begins as that of the priority book. *)
LEMMA StartBegins ==
  ASSUME NEW room, Simulable(room), NEW c \in Commands, Start(c)
  PROVE  pc = "idle" /\ AsPriorityBook(room)' = Begin(AsPriorityBook(room), c)
<1>1. pc = "idle"
  BY DEF Start, AddReject, AddAccept, ModifyReject, ModifyInPlace, ModifyMove,
         CancelMiss, CancelOrder, Dequeue
<1> QED BY <1>1, AddBegins, CancelBegins, ModifyBegins DEF Start, Simulable

(* A step of a command is a turn, or leaves the priority book as it is and *)
(* does not return.                                                        *)
LEMMA StepTurns ==
  ASSUME NEW room \in 0 .. Capacity, Simulable(room), Step
  PROVE  /\ pc # "idle"
         /\ \/ AsPriorityBook(room)' = Turn(AsPriorityBook(room))
            \/ AsPriorityBook(room)' = AsPriorityBook(room) /\ pc' # "idle"
<1> DEFINE b == AsPriorityBook(room)
<1>0. IndInv /\ Accounted /\ FokSound /\ Leftover /\ FreeListChain(0 .. room - 1)
  BY DEF Simulable
<1>1. pc # "idle"
  BY DEF Step, FokLevel, FokOrder, FokReject, FokPass, CrossPartial, CrossFull, CrossStop,
         CrossDone, CrossResidual, RestLevel, RestFull, RestAllocate, RestAppend,
         ModifyLevel, ModifyAppend
<1>2. IndInv' /\ Accounted'
  <2>1. [Next]_vars
    BY DEF Next
  <2> QED BY <1>0, <2>1, NextInd, AccountedNext
<1>3. CASE FokLevel \/ CrossResidual \/ RestLevel \/ RestAllocate \/ ModifyLevel
  <2>1. b' = b
    BY <1>0, <1>2, <1>3, FokLevelStutters, RestStutters, MoveGoesOn
  <2>2. pc' # "idle"
    BY <1>3 DEF FokLevel, CrossResidual, RestLevel, RestAllocate, ModifyLevel, Goto
  <2> QED BY <1>1, <2>1, <2>2
<1>4. CASE \/ FokOrder \/ FokReject \/ FokPass \/ CrossPartial \/ CrossFull
           \/ CrossStop \/ CrossDone \/ RestFull \/ RestAppend \/ ModifyAppend
  BY <1>0, <1>1, <1>4, FokOrderTurns, FokDecides, CrossPartialTurns, CrossFullTurns,
     CrossStopTurns, CrossDoneTurns, RestFullTurns, RestAppendTurns, MoveGoesOn
<1> QED BY <1>3, <1>4 DEF Step

(***************************************************************************)
(* The book implements the priority book: what Book decides by its lists,  *)
(* levels, id map, free list and cursors is what price, time and the       *)
(* number of orders decide, step by step, whatever the constants.          *)
(***************************************************************************)
THEOREM BookImplementsPriorityBook == Spec => ImplementsPriorityBook
<1> DEFINE b == AsPriorityBook(Capacity)
<1>1. Capacity \in 0 .. Capacity
  BY CapacityAssumption
<1>2. Init => Simulable(Capacity) /\ b = FreshBook(Capacity)
  BY <1>1, InitIsNew, NewIsFresh
<1>3. Simulable(Capacity) /\ [Next]_vars => Simulable(Capacity)'
  BY SimulableNext
<1>4. Simulable(Capacity) /\ [Next]_vars => [Moves(b, b')]_vars
  <2> SUFFICES ASSUME Simulable(Capacity), Next PROVE Moves(b, b') \/ UNCHANGED vars
    OBVIOUS
  <2>1. ASSUME NEW c \in Commands, Start(c) PROVE Moves(b, b')
    BY <2>1, StartBegins, IdleTogether DEF Moves
  <2>2. CASE Step
    BY <1>1, <2>2, StepTurns, IdleTogether DEF Moves
  <2>3. CASE Stopped
    BY <2>3 DEF Stopped
  <2> QED BY <2>1, <2>2, <2>3 DEF Next
<1> QED BY <1>2, <1>3, <1>4, PTL DEF Spec, ImplementsPriorityBook

-----------------------------------------------------------------------------
(* A command has one outcome. *)

(* run lists the priority books that book b is in command c, for n turns. *)
Turns(b, c, n, run) ==
  /\ run[0] = Begin(b, c)
  /\ \A k \in 1 .. n : /\ run[k - 1].run.point # "idle"
                       /\ run[k] = Turn(run[k - 1])

(* Book b comes to be book d in command c. *)
Under(b, c, d) == \E n \in Nat : \E run : Turns(b, c, n, run) /\ run[n] = d

(* Book d is what command c makes of book b. *)
Settles(b, c, d) == Under(b, c, d) /\ d.run.point = "idle"

(* It begins so. *)
LEMMA UnderBegin == ASSUME NEW b, NEW c PROVE Under(b, c, Begin(b, c))
<1> DEFINE run == [k \in {0} |-> Begin(b, c)]
<1>1. run[0] = Begin(b, c)
  OBVIOUS
<1>2. Turns(b, c, 0, run)
  BY <1>1 DEF Turns
<1> QED BY <1>1, <1>2 DEF Under

(* And goes on so until it returns. *)
LEMMA UnderTurn ==
  ASSUME NEW b, NEW c, NEW d, Under(b, c, d), d.run.point # "idle"
  PROVE  Under(b, c, Turn(d))
<1>1. PICK n, run : n \in Nat /\ Turns(b, c, n, run) /\ run[n] = d
  BY DEF Under
<1> DEFINE next == [k \in 0 .. n + 1 |-> IF k = n + 1 THEN Turn(d) ELSE run[k]]
<1>2. /\ \A k \in 0 .. n : next[k] = run[k]
      /\ next[n + 1] = Turn(d) /\ n + 1 \in Nat
  BY <1>1
<1> HIDE DEF next
<1>3. next[0] = Begin(b, c)
  BY <1>1, <1>2 DEF Turns
<1>4. ASSUME NEW k \in 1 .. n + 1
      PROVE  next[k - 1].run.point # "idle" /\ next[k] = Turn(next[k - 1])
  <2>1. CASE k = n + 1
    <3>1. k - 1 = n /\ n \in 0 .. n
      BY <1>1, <2>1
    <3> QED BY <1>1, <1>2, <2>1, <3>1
  <2>2. CASE k # n + 1
    <3>1. k \in 1 .. n /\ k \in 0 .. n /\ k - 1 \in 0 .. n
      BY <1>1, <2>2
    <3>2. run[k - 1].run.point # "idle" /\ run[k] = Turn(run[k - 1])
      BY <1>1, <3>1 DEF Turns
    <3> QED BY <1>2, <3>1, <3>2
  <2> QED BY <2>1, <2>2
<1>5. Turns(b, c, n + 1, next)
  BY <1>3, <1>4 DEF Turns
<1> QED BY <1>2, <1>5 DEF Under

(***************************************************************************)
(* A book and a command have one outcome: two runs agree for as long as    *)
(* both go on, and neither goes on after the other has returned.           *)
(***************************************************************************)
LEMMA SettlesOnce ==
  ASSUME NEW b, NEW c, NEW d, NEW e, Settles(b, c, d), Settles(b, c, e)
  PROVE  d = e
<1>1. PICK n, f : n \in Nat /\ Turns(b, c, n, f) /\ f[n] = d
  BY DEF Under, Settles
<1>2. PICK m, g : m \in Nat /\ Turns(b, c, m, g) /\ g[m] = e
  BY DEF Under, Settles
<1>3. ASSUME NEW i \in Nat, i <= n, i <= m PROVE f[i] = g[i]
  <2>1. f[0] = g[0]
    BY <1>1, <1>2 DEF Turns
  <2>2. ASSUME NEW k \in 1 .. i, f[k - 1] = g[k - 1] PROVE f[k] = g[k]
    <3>1. k \in 1 .. n /\ k \in 1 .. m
      BY <1>1, <1>2, <1>3
    <3>2. f[k] = Turn(f[k - 1]) /\ g[k] = Turn(g[k - 1])
      BY <1>1, <1>2, <3>1 DEF Turns
    <3> QED BY <2>2, <3>2
  <2>3. AgreeUpTo(f, g, i)
    BY <2>1, <2>2, StepwiseEqual
  <2> QED BY <1>3, <2>3 DEF AgreeUpTo
<1>4. ~(n < m)
  <2> SUFFICES ASSUME n < m PROVE FALSE
    OBVIOUS
  <2>1. n + 1 \in 1 .. m /\ (n + 1) - 1 = n /\ n <= n
    BY <1>1, <1>2
  <2>2. g[n].run.point # "idle"
    BY <1>2, <2>1 DEF Turns
  <2>3. n <= m
    BY <1>1, <1>2
  <2>4. f[n] = g[n]
    BY <1>1, <1>3, <2>1, <2>3
  <2> QED BY <1>1, <2>2, <2>4 DEF Settles
<1>5. ~(m < n)
  <2> SUFFICES ASSUME m < n PROVE FALSE
    OBVIOUS
  <2>1. m + 1 \in 1 .. n /\ (m + 1) - 1 = m /\ m <= m
    BY <1>1, <1>2
  <2>2. f[m].run.point # "idle"
    BY <1>1, <2>1 DEF Turns
  <2>3. m <= n
    BY <1>1, <1>2
  <2>4. f[m] = g[m]
    BY <1>2, <1>3, <2>1, <2>3
  <2> QED BY <1>2, <2>2, <2>4 DEF Settles
<1>6. n = m /\ n <= n
  BY <1>1, <1>2, <1>4, <1>5
<1> QED BY <1>1, <1>2, <1>3, <1>6

(* B lists what a book with so much room is after each of n commands. *)
History(size, commands, n, B) ==
  /\ B[0] = FreshBook(size)
  /\ \A i \in 1 .. n : Settles(B[i - 1], commands[i], B[i])

(* The same commands make the same history. *)
LEMMA HistoryOnce ==
  ASSUME NEW size, NEW n \in Nat, NEW cs, NEW ds, \A i \in 1 .. n : cs[i] = ds[i],
         NEW B, NEW C, History(size, cs, n, B), History(size, ds, n, C)
  PROVE  \A i \in 0 .. n : B[i] = C[i]
<1>1. B[0] = C[0]
  BY DEF History
<1>2. ASSUME NEW k \in 1 .. n, B[k - 1] = C[k - 1] PROVE B[k] = C[k]
  <2>1. Settles(B[k - 1], cs[k], B[k]) /\ Settles(C[k - 1], ds[k], C[k])
    BY DEF History
  <2>2. cs[k] = ds[k]
    OBVIOUS
  <2>3. Settles(B[k - 1], cs[k], C[k])
    BY <1>2, <2>1, <2>2
  <2> QED BY <2>1, <2>3, SettlesOnce
<1>3. AgreeUpTo(B, C, n)
  BY <1>1, <1>2, StepwiseEqual
<1> QED BY <1>3 DEF AgreeUpTo

(* C is B with d after the first n commands. *)
Continues(B, n, d, C) == C[n + 1] = d /\ \A i \in 0 .. n : C[i] = B[i]

(* A history goes on with what the next command makes of its last book. *)
LEMMA HistoryGrows ==
  ASSUME NEW size, NEW n \in Nat, NEW cs, NEW B, History(size, cs, n, B),
         NEW d, Settles(B[n], cs[n + 1], d)
  PROVE  \E C : History(size, cs, n + 1, C) /\ Continues(B, n, d, C)
<1> DEFINE C == [i \in 0 .. n + 1 |-> IF i = n + 1 THEN d ELSE B[i]]
<1>1. (\A i \in 0 .. n : C[i] = B[i]) /\ C[n + 1] = d
  OBVIOUS
<1> HIDE DEF C
<1>2. C[0] = FreshBook(size)
  BY <1>1 DEF History
<1>3. ASSUME NEW i \in 1 .. n + 1 PROVE Settles(C[i - 1], cs[i], C[i])
  <2>1. CASE i = n + 1
    <3>1. i - 1 = n /\ n \in 0 .. n
      BY <2>1
    <3> QED BY <1>1, <2>1, <3>1
  <2>2. CASE i # n + 1
    <3>1. i \in 1 .. n /\ i \in 0 .. n /\ i - 1 \in 0 .. n
      BY <2>2
    <3>2. Settles(B[i - 1], cs[i], B[i])
      BY <3>1 DEF History
    <3> QED BY <1>1, <3>1, <3>2
  <2> QED BY <2>1, <2>2
<1>4. History(size, cs, n + 1, C)
  BY <1>2, <1>3 DEF History
<1> QED BY <1>1, <1>4 DEF Continues

-----------------------------------------------------------------------------
(* What a snapshot shows is a function of the orders. *)

(* Sequence q lists the orders of S by their numbers. *)
Listed(q, S) ==
  \E n \in Nat : /\ q \in [1 .. n -> S]
                 /\ \A j, k \in 1 .. n : j < k => q[j].seq_no < q[k].seq_no
                 /\ \A o \in S : \E k \in 1 .. n : q[k] = o

(* The place of an order in such a list is the number of those before it. *)
LEMMA PlaceInList ==
  ASSUME NEW S \in SUBSET Order, NEW n \in Nat, NEW q \in [1 .. n -> S],
         \A j, k \in 1 .. n : j < k => q[j].seq_no < q[k].seq_no,
         \A o \in S : \E k \in 1 .. n : q[k] = o, NEW k \in 1 .. n
  PROVE  Cardinality({o \in S : o.seq_no < q[k].seq_no}) = k - 1
<1> DEFINE T == {o \in S : o.seq_no < q[k].seq_no}
           f == [j \in 1 .. k - 1 |-> q[j]]
<1>1. \A o \in S : o.seq_no \in Nat
  BY DEF Order
<1>2. \A j \in 1 .. k - 1 : j \in 1 .. n /\ j < k
  OBVIOUS
<1>3. \A j \in 1 .. k - 1 : f[j] = q[j] /\ q[j] \in T
  BY <1>2
<1>4. ASSUME NEW o \in T PROVE \E j \in 1 .. k - 1 : f[j] = o
  <2>1. PICK j \in 1 .. n : q[j] = o
    OBVIOUS
  <2>2. q[j] \in S /\ q[k] \in S /\ q[j].seq_no < q[k].seq_no
    BY <2>1
  <2>3. ~(k < j) /\ k # j
    <3>1. q[j].seq_no \in Nat /\ q[k].seq_no \in Nat
      BY <1>1, <2>2
    <3> QED BY <2>2, <3>1
  <2>4. j \in 1 .. k - 1
    BY <2>3
  <2> QED BY <1>3, <2>1, <2>4
<1>5. ASSUME NEW i \in 1 .. k - 1, NEW j \in 1 .. k - 1, f[i] = f[j] PROVE i = j
  <2>1. q[i] = q[j] /\ q[i].seq_no \in Nat /\ i \in 1 .. n /\ j \in 1 .. n
    BY <1>1, <1>2, <1>3, <1>5
  <2>2. ~(i < j) /\ ~(j < i)
    BY <2>1
  <2> QED BY <2>2
<1>6. f \in [1 .. k - 1 -> T]
  BY <1>3
<1> HIDE DEF T, f
<1>7. f \in Injection(1 .. k - 1, T) /\ f \in Surjection(1 .. k - 1, T)
  BY <1>4, <1>5, <1>6 DEF Injection, IsInjective, Surjection
<1>8. IsFiniteSet(1 .. k - 1) /\ Cardinality(1 .. k - 1) = k - 1
  <2>1. 1 \in Int /\ k - 1 \in Int
    OBVIOUS
  <2>2. /\ IsFiniteSet(1 .. k - 1)
        /\ Cardinality(1 .. k - 1) = IF 1 > k - 1 THEN 0 ELSE (k - 1) - 1 + 1
    BY <2>1, FS_Interval
  <2> QED BY <2>1, <2>2
<1>9. Cardinality(T) = k - 1
  BY <1>7, <1>8, FS_Surjection
<1> QED BY <1>9 DEF T

(* Orders are listed in one way. *)
LEMMA ListedOnce ==
  ASSUME NEW S \in SUBSET Order, NEW q, NEW r, Listed(q, S), Listed(r, S)
  PROVE  q = r
<1>1. PICK n \in Nat : /\ q \in [1 .. n -> S]
                       /\ \A j, k \in 1 .. n : j < k => q[j].seq_no < q[k].seq_no
                       /\ \A o \in S : \E k \in 1 .. n : q[k] = o
  BY DEF Listed
<1>2. PICK m \in Nat : /\ r \in [1 .. m -> S]
                       /\ \A j, k \in 1 .. m : j < k => r[j].seq_no < r[k].seq_no
                       /\ \A o \in S : \E k \in 1 .. m : r[k] = o
  BY DEF Listed
<1>3. \A k \in 1 .. n : Cardinality({o \in S : o.seq_no < q[k].seq_no}) = k - 1
  BY <1>1, PlaceInList
<1>4. \A k \in 1 .. m : Cardinality({o \in S : o.seq_no < r[k].seq_no}) = k - 1
  BY <1>2, PlaceInList
<1>5. ASSUME NEW k \in 1 .. n PROVE k \in 1 .. m /\ q[k] = r[k]
  <2>1. PICK j \in 1 .. m : r[j] = q[k]
    BY <1>1, <1>2
  <2>2. j - 1 = k - 1
    BY <1>3, <1>4, <2>1
  <2> QED BY <2>1, <2>2
<1>6. ASSUME NEW k \in 1 .. m PROVE k \in 1 .. n
  <2>1. PICK j \in 1 .. n : q[j] = r[k]
    BY <1>1, <1>2
  <2>2. j - 1 = k - 1
    BY <1>3, <1>4, <2>1
  <2> QED BY <2>2
<1>7. 1 .. n = 1 .. m
  BY <1>5, <1>6
<1> QED BY <1>1, <1>2, <1>5, <1>7

(* A level shows its queue. *)
LEMMA WalkLists ==
  ASSUME IndInv, NEW s \in Side, NEW p \in Price
  PROVE  \E n \in 0 .. Capacity : \E ch :
           /\ Enumerates(Queue(s, p), ch, n, level[s][p].tail)
           /\ Walk(s, p) = [j \in 1 .. n |-> slots[ch[j]]]
<1>1. PICK ch : ch = Chain(level[s][p].head)
  OBVIOUS
<1>2. PICK n \in 0 .. Capacity : Enumerates(Queue(s, p), ch, n, level[s][p].tail)
  BY <1>1, ChainEnumerates DEF IndInv
<1>3. /\ n \in Nat /\ n <= Capacity /\ Capacity \in Nat
      /\ \A j \in 1 .. Capacity + 1 : ch[j] # kNilIndex <=> j <= n
  BY <1>2, CapacityAssumption DEF Enumerates
<1>4. {j \in 1 .. Capacity : ch[j] # kNilIndex} = 1 .. n
  BY <1>3
<1>5. Cardinality(1 .. n) = n
  BY <1>3, FS_Interval
<1>6. Walk(s, p) = [j \in 1 .. n |-> slots[ch[j]]]
  BY <1>1, <1>4, <1>5 DEF Walk
<1> QED BY <1>2, <1>6

(* The orders of a level. *)
LevelOrders(orders, side, price) == {o \in orders : o.side = side /\ o.price = price}

(* The snapshot of a book with these orders. *)
BookOf(orders) ==
  [s \in Side |-> [p \in {o.price : o \in {x \in orders : x.side = s}} |->
                     CHOOSE q : Listed(q, LevelOrders(orders, s, p))]]

(***************************************************************************)
(* Between two commands the snapshot shows the resting orders and nothing  *)
(* else: no trace of handles, slots or of the order levels came in.        *)
(***************************************************************************)
LEMMA SnapshotIsOrders ==
  IndInv /\ pc = "idle" => snapshot = BookOf({slots[i] : i \in Resting})
<1> SUFFICES ASSUME IndInv, pc = "idle"
             PROVE  snapshot = BookOf({slots[i] : i \in Resting})
  OBVIOUS
<1>1. PICK orders : orders = {slots[i] : i \in Resting}
  OBVIOUS
<1>2. orders = {slots[i] : i \in {i \in Index : Live(i)}} /\ orders \in SUBSET Order
  <2>1. orders = {slots[i] : i \in {i \in Index : Live(i)}}
    BY <1>1 DEF Resting, Arriving
  <2> QED BY <2>1, LiveIsOrder DEF IndInv
<1>3. \A s \in Side, p \in Price :
        Queue(s, p) = {i \in Index : Live(i) /\ slots[i].side = s /\ slots[i].price = p}
  BY DEF Queue, Linked, Placing
<1>4. ASSUME NEW s \in Side
      PROVE  prices[s] = {o.price : o \in {x \in orders : x.side = s}}
  <2>1. \A p \in Price : p \in prices[s] <=> Queue(s, p) # {}
    BY DEF IndInv, LevelsHoldOrders
  <2>2. prices[s] \subseteq Price /\ \A o \in orders : o.price \in Price
    BY <1>2 DEF IndInv, TypeOK, Order
  <2>3. \A p \in Price : Queue(s, p) # {} <=> \E o \in orders : o.side = s /\ o.price = p
    BY <1>2, <1>3
  <2> QED BY <2>1, <2>2, <2>3
<1>5. ASSUME NEW s \in Side, NEW p \in prices[s]
      PROVE  Walk(s, p) = CHOOSE q : Listed(q, LevelOrders(orders, s, p))
  <2> DEFINE S == LevelOrders(orders, s, p)
  <2>1. p \in Price
    BY DEF IndInv, TypeOK
  <2>2. PICK n, ch : /\ n \in 0 .. Capacity
                     /\ Enumerates(Queue(s, p), ch, n, level[s][p].tail)
                     /\ Walk(s, p) = [j \in 1 .. n |-> slots[ch[j]]]
    BY <2>1, WalkLists
  <2>3. /\ \A j \in 1 .. n : ch[j] \in Queue(s, p)
        /\ \A j, k \in 1 .. n : j < k => Earlier(ch[j], ch[k])
        /\ \A i \in Queue(s, p) : \E k \in 1 .. n : ch[k] = i
    BY <2>2 DEF Enumerates
  <2>4. \A i \in Queue(s, p) : slots[i] \in S
    BY <1>2, <1>3, <2>1 DEF LevelOrders
  <2>5. \A o \in S : \E i \in Queue(s, p) : slots[i] = o
    BY <1>2, <1>3, <2>1 DEF LevelOrders
  <2>6. S \in SUBSET Order
    BY <1>2 DEF LevelOrders
  <2> HIDE DEF S
  <2>7. \A j \in 1 .. n : Walk(s, p)[j] = slots[ch[j]]
    BY <2>2
  <2>8. Listed(Walk(s, p), S)
    <3>1. Walk(s, p) \in [1 .. n -> S]
      BY <2>2, <2>3, <2>4
    <3>2. \A j, k \in 1 .. n : j < k => Walk(s, p)[j].seq_no < Walk(s, p)[k].seq_no
      BY <2>3, <2>7 DEF Earlier
    <3>3. \A o \in S : \E k \in 1 .. n : Walk(s, p)[k] = o
      BY <2>3, <2>5, <2>7
    <3>4. n \in Nat
      BY <2>2, CapacityAssumption
    <3> QED BY <3>1, <3>2, <3>3, <3>4 DEF Listed
  <2>9. \A q, r : Listed(q, S) /\ Listed(r, S) => q = r
    BY <2>6, ListedOnce
  <2>10. PICK q : q = Walk(s, p)
    OBVIOUS
  <2>11. q = CHOOSE r : Listed(r, S)
    BY <2>8, <2>9, <2>10
  <2> QED BY <2>10, <2>11 DEF S
<1>6. snapshot = BookOf(orders)
  BY <1>4, <1>5 DEF snapshot, BookOf
<1> QED BY <1>1, <1>6

-----------------------------------------------------------------------------
(* The book in a run of commands. *)

(* The book of so many slots is book b, or on its way from b in command c. *)
Reached(size, b, c) ==
  IF pc = "idle" THEN AsPriorityBook(size) = b ELSE Under(b, c, AsPriorityBook(size))

(* A step of the command goes on from there. *)
LEMMA GoesOn ==
  ASSUME NEW size \in 0 .. Capacity, Simulable(size), NEW c \in Commands, Start(c) \/ Step,
         NEW b, Reached(size, b, c)
  PROVE  /\ Simulable(size)'
         /\ Under(b, c, AsPriorityBook(size)')
         /\ pc' = "idle" => Settles(b, c, AsPriorityBook(size)')
<1>1. Simulable(size)'
  <2>1. [Next]_vars
    BY DEF Next
  <2> QED BY <2>1, SimulableNext
<1>2. PICK d, e : d = AsPriorityBook(size) /\ e = AsPriorityBook(size)'
  OBVIOUS
<1>3. (d.run.point = "idle" <=> pc = "idle") /\ (e.run.point = "idle" <=> pc' = "idle")
  BY <1>2 DEF AsPriorityBook, Point
<1>4. Under(b, c, e)
  <2>1. CASE Start(c)
    <3>1. pc = "idle" /\ e = Begin(d, c)
      BY <1>2, <2>1, StartBegins
    <3>2. b = d
      BY <1>2, <3>1 DEF Reached
    <3> QED BY <3>1, <3>2, UnderBegin
  <2>2. CASE Step
    <3>1. pc # "idle" /\ (e = Turn(d) \/ e = d)
      BY <1>2, <2>2, StepTurns
    <3>2. Under(b, c, d)
      BY <1>2, <3>1 DEF Reached
    <3> QED BY <1>3, <3>1, <3>2, UnderTurn
  <2> QED BY <2>1, <2>2
<1>5. pc' = "idle" => Settles(b, c, e)
  BY <1>3, <1>4 DEF Settles
<1> QED BY <1>1, <1>2, <1>4, <1>5

(* Nothing of a book changes while the book does nothing. *)
LEMMA StillBook ==
  ASSUME NEW size, UNCHANGED vars
  PROVE  AsPriorityBook(size)' = AsPriorityBook(size)
<1>1. UNCHANGED <<slots, pc, cmd, idx, left, walked, total, result, next_seq, next_trade_id>>
  BY DEF vars, commandVars, counterVars, poolVars
<1>2. Resting' = Resting
  BY <1>1 DEF Resting, Live, Arriving
<1>3. CountedByWalk' = CountedByWalk
  BY <1>1 DEF CountedByWalk, Marketable, Acceptable, Linked, Live, Placing, Passed
<1>4. Point' = Point
  BY <1>1 DEF Point
<1> QED BY <1>1, <1>2, <1>3, <1>4 DEF AsPriorityBook
=============================================================================
