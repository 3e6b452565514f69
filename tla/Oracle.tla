------------------------------- MODULE Oracle -------------------------------
(***************************************************************************)
(* The reference implementation of the book, tests/support/oracle.hpp: one *)
(* flat collection of resting orders that is scanned for every decision,   *)
(* with no pool, no levels, no links and no id map.  Each command is one   *)
(* step.  The repository's differential tests compare Book with it; here   *)
(* it is the abstract specification that Book is shown to implement.       *)
(*                                                                         *)
(* The code's vector is a set: no decision depends on the position of an   *)
(* order in it.                                                            *)
(***************************************************************************)
EXTENDS EngineTypes, Sequences, FiniteSets

CONSTANTS Commands, MaxCommands

VARIABLES orders, next_seq, next_trade_id,
          result,             \* what the last command returned
          last                \* the last command

oracleVars == <<orders, next_seq, next_trade_id, result, last>>

Result(ok) == [accepted |-> ok, trades |-> <<>>, resting_qty |-> 0,
               stp_rejected |-> FALSE, pool_exhausted |-> FALSE]

Init == /\ orders = {}
        /\ next_seq = 0
        /\ next_trade_id = 0
        /\ result = Result(FALSE)
        /\ last = Undef

-----------------------------------------------------------------------------

find(id) == {o \in orders : o.order_id = id}

(* Priority among the resting orders a taker of this side meets. *)
better(taker, a, b) ==
  \/ Better(Opposite(taker), a.price, b.price)
  \/ a.price = b.price /\ a.seq_no < b.seq_no

(* The orders of S a taker could trade with. *)
Candidates(S, taker, has_limit, limit) ==
  {o \in S : o.side # taker /\ (has_limit => Crosses(taker, o.price, limit))}

(* At most one order: the first of the candidates. *)
best_opposite(S, taker, has_limit, limit) ==
  LET C == Candidates(S, taker, has_limit, limit)
  IN  {o \in C : \A p \in C \ {o} : better(taker, o, p)}

RECURSIVE SumQty(_)
SumQty(S) == IF S = {} THEN 0
             ELSE LET o == CHOOSE o \in S : TRUE
                  IN  o.qty + SumQty(S \ {o})

(* A 64-bit total: it does not wrap. *)
fillable_before_self_trade(taker, limit, account) ==
  LET C == Candidates(orders, taker, TRUE, limit)
  IN  SumQty({o \in C : \A p \in C : p.account = account => better(taker, o, p)})

(***************************************************************************)
(* The loop of submit.  S is what rests, q the quantity left, ts the       *)
(* trades so far.                                                          *)
(***************************************************************************)
RECURSIVE Sweep(_, _, _, _, _)
Sweep(c, has_limit, S, q, ts) ==
  LET best == best_opposite(S, c.side, has_limit, c.price)
  IN  IF q = 0 \/ best = {}
        THEN [orders |-> S, left |-> q, trades |-> ts, stp |-> FALSE]
        ELSE LET m == CHOOSE o \in best : TRUE
                 fill == IF q < m.qty THEN q ELSE m.qty
                 t == [maker_order_id |-> m.order_id, taker_order_id |-> c.id,
                       price |-> m.price, qty |-> fill,
                       trade_id |-> next_trade_id + Len(ts),
                       seq_no |-> next_seq]
                 rest == IF m.qty = fill THEN {}
                                         ELSE {[m EXCEPT !.qty = @ - fill]}
             IN  IF m.account = c.account
                   THEN [orders |-> S, left |-> q, trades |-> ts, stp |-> TRUE]
                   ELSE Sweep(c, has_limit, (S \ {m}) \cup rest,
                              q - fill, Append(ts, t))

TakeSeq(c) == /\ next_seq < MaxCommands
              /\ next_seq' = next_seq + 1
              /\ last' = c

submit(c, has_limit, tif) ==
  LET short == /\ tif = "FOK"
               /\ fillable_before_self_trade(c.side, c.price, c.account) < c.qty
      sweep == Sweep(c, has_limit, orders, c.qty, <<>>)
      residual == tif = "GTC" /\ has_limit /\ ~sweep.stp /\ sweep.left > 0
      full == Cardinality(sweep.orders) >= Capacity
      order == [price |-> c.price, qty |-> sweep.left, side |-> c.side,
                order_id |-> c.id, account |-> c.account, seq_no |-> next_seq]
  IN  /\ TakeSeq(c)
      /\ IF c.qty = 0 \/ find(c.id) # {} \/ short
           THEN /\ result' = Result(c.qty # 0 /\ find(c.id) = {})
                /\ UNCHANGED <<orders, next_trade_id>>
           ELSE /\ orders' = IF residual /\ ~full
                               THEN sweep.orders \cup {order}
                               ELSE sweep.orders
                /\ next_trade_id' = next_trade_id + Len(sweep.trades)
                /\ result' = [accepted |-> TRUE,
                              trades |-> sweep.trades,
                              resting_qty |-> IF residual /\ ~full
                                                THEN sweep.left ELSE 0,
                              stp_rejected |-> sweep.stp,
                              pool_exhausted |-> residual /\ full]

add_limit(c) == c.kind = "Limit" /\ submit(c, TRUE, c.tif)

add_market(c) == c.kind = "Market" /\ submit(c, FALSE, "IOC")

cancel(c) ==
  /\ c.kind = "Cancel"
  /\ TakeSeq(c)
  /\ orders' = orders \ find(c.id)
  /\ result' = Result(find(c.id) # {})
  /\ UNCHANGED next_trade_id

(* The order with a new price and quantity, or nothing if it is refused. *)
Modified(o, price, qty) ==
  IF price = o.price /\ qty <= o.qty
    THEN {[o EXCEPT !.qty = qty]}
    ELSE IF best_opposite(orders, o.side, TRUE, price) # {}
           THEN {}
           ELSE {[o EXCEPT !.price = price, !.qty = qty, !.seq_no = next_seq]}

modify(c) ==
  LET news == UNION {Modified(o, c.price, c.qty) : o \in find(c.id)}
  IN  /\ c.kind = "Modify"
      /\ TakeSeq(c)
      /\ IF c.qty = 0 \/ news = {}
           THEN result' = Result(FALSE) /\ UNCHANGED orders
           ELSE /\ result' = Result(TRUE)
                /\ orders' = (orders \ find(c.id)) \cup news
      /\ UNCHANGED next_trade_id

Next == \E c \in Commands :
          add_limit(c) \/ add_market(c) \/ cancel(c) \/ modify(c)

Spec == Init /\ [][Next]_oracleVars
=============================================================================
