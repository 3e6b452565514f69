---------------------------- MODULE PriorityBook ----------------------------
(***************************************************************************)
(* What the book promises, without its containers: a set of orders, and    *)
(* what a command does to it as a function of that set.  Lists, levels,    *)
(* handles and the free list are gone; what is left of the pool is the     *)
(* number of its slots.  Resting orders are picked by price-time priority. *)
(*                                                                         *)
(* Begin and Turn are functions, so a book and a command have one outcome. *)
(* Book is shown to go through their states and no other, and with it that *)
(* what a book does depends on nothing but the commands it has been given. *)
(***************************************************************************)
EXTENDS BookRun

(***************************************************************************)
(* A book has its orders, the number of its slots, the numbers it has      *)
(* given to commands and to trades, and a run: what it knows of the        *)
(* command it is in, or the result of the last one.                        *)
(***************************************************************************)
Idle(r) == [point |-> "idle", cmd |-> Undef, left |-> 0, counted |-> {},
            total |-> 0, result |-> r]

(* A book with room for so many orders that has run no command. *)
FreshBook(room) == [orders |-> {}, room |-> room, numbered |-> 0, made |-> 0,
                    run |-> Idle(Outcome(FALSE))]

(* Book b with these orders and this run. *)
With(b, orders, run) == [orders |-> orders, room |-> b.room,
                         numbered |-> b.numbered, made |-> b.made, run |-> run]

(* The running command of book b returns r. *)
Return(b, r) == With(b, b.orders, Idle(r))

Closed(b, stp, full, resting) ==
  [accepted |-> TRUE, trades |-> b.run.result.trades, resting_qty |-> resting,
   stp_rejected |-> stp, pool_exhausted |-> full]

HasOrder(b, id) == \E o \in b.orders : o.order_id = id

OrderNamed(b, id) == CHOOSE o \in b.orders : o.order_id = id

(* The order of S that has priority over the others. *)
Foremost(S) == CHOOSE o \in S : \A p \in S \ {o} : Ahead(o, p)

(* The resting orders that the running command accepts to trade with. *)
Takeable(b) ==
  {o \in b.orders : /\ o.side = Opposite(b.run.cmd.side)
                    /\ \/ b.run.cmd.kind = "Market"
                       \/ Crosses(b.run.cmd.side, o.price, b.run.cmd.price)}

WouldTrade(b, side, price) ==
  \E o \in b.orders : o.side = Opposite(side) /\ Crosses(side, o.price, price)

-----------------------------------------------------------------------------
(* A command begins. *)

Enters(point, c, qty) == [point |-> point, cmd |-> c, left |-> qty,
                          counted |-> {}, total |-> 0, result |-> Outcome(FALSE)]

BeginAdd(b, c) ==
  IF c.qty = 0 \/ HasOrder(b, c.id)
    THEN Return(b, Outcome(FALSE))
    ELSE With(b, b.orders,
              Enters(IF c.kind = "Limit" /\ c.tif = "FOK" THEN "fok" ELSE "cross",
                     c, c.qty))

BeginCancel(b, c) ==
  IF HasOrder(b, c.id)
    THEN With(b, b.orders \ {OrderNamed(b, c.id)}, Idle(Outcome(TRUE)))
    ELSE Return(b, Outcome(FALSE))

(* Order o with another quantity. *)
Resized(o, qty) == [price |-> o.price, qty |-> qty, side |-> o.side,
                    order_id |-> o.order_id, account |-> o.account,
                    seq_no |-> o.seq_no]

(* Order o with the price and quantity of modify c, and its number. *)
Moved(o, c, number) ==
  [price |-> c.price, qty |-> c.qty, side |-> o.side, order_id |-> o.order_id,
   account |-> o.account, seq_no |-> number]

BeginModify(b, c) ==
  LET o == OrderNamed(b, c.id)
      others == b.orders \ {o}
  IN  IF c.qty = 0 \/ ~HasOrder(b, c.id)
        THEN Return(b, Outcome(FALSE))
      ELSE IF KeepsPlace(c, o)
        THEN With(b, others \cup {Resized(o, c.qty)}, Idle(Outcome(TRUE)))
      ELSE IF WouldTrade(b, o.side, c.price)
        THEN Return(b, Outcome(FALSE))
        ELSE With(b, others \cup {Moved(o, c, b.numbered - 1)}, Enters("move", c, 0))

(* Every command takes a number, the refused ones included. *)
WithNumber(b) == [orders |-> b.orders, room |-> b.room,
                  numbered |-> b.numbered + 1, made |-> b.made, run |-> b.run]

Begin(b, c) == IF IsAdd(c) THEN BeginAdd(WithNumber(b), c)
               ELSE IF c.kind = "Cancel" THEN BeginCancel(WithNumber(b), c)
               ELSE BeginModify(WithNumber(b), c)

-----------------------------------------------------------------------------
(* A command goes on. *)

(* The fill-or-kill check counts the next order, or decides. *)
FokTurn(b) ==
  LET S == Takeable(b) \ b.run.counted
      o == Foremost(S)
  IN  IF S # {} /\ o.account # b.run.cmd.account
        THEN With(b, b.orders,
                  [point |-> "fok", cmd |-> b.run.cmd, left |-> b.run.left,
                   counted |-> b.run.counted \cup {o},
                   total |-> (b.run.total + o.qty) % QtyModulus,
                   result |-> b.run.result])
      ELSE IF b.run.total >= b.run.cmd.qty
        THEN With(b, b.orders,
                  [point |-> "cross", cmd |-> b.run.cmd, left |-> b.run.left,
                   counted |-> {}, total |-> 0, result |-> b.run.result])
        ELSE Return(b, Closed(b, FALSE, FALSE, 0))

(* A trade with order o. *)
TradeTurn(b, o) ==
  LET fill == IF b.run.left < o.qty THEN b.run.left ELSE o.qty
      trade == [maker_order_id |-> o.order_id, taker_order_id |-> b.run.cmd.id,
                price |-> o.price, qty |-> fill, trade_id |-> b.made,
                seq_no |-> b.numbered - 1]
  IN  [orders |-> (b.orders \ {o}) \cup
                    (IF fill < o.qty THEN {Resized(o, o.qty - fill)} ELSE {}),
       room |-> b.room, numbered |-> b.numbered, made |-> b.made + 1,
       run |-> [point |-> "cross", cmd |-> b.run.cmd, left |-> b.run.left - fill,
                counted |-> {}, total |-> 0,
                result |-> [b.run.result EXCEPT !.trades = Append(@, trade)]]]

(* Nothing is left to trade: the residual rests if it may and finds room. *)
RestTurn(b) ==
  LET c == b.run.cmd
  IN  IF ~(c.kind = "Limit" /\ c.tif = "GTC" /\ b.run.left > 0)
        THEN Return(b, Closed(b, FALSE, FALSE, 0))
      ELSE IF Cardinality(b.orders) >= b.room
        THEN Return(b, Closed(b, FALSE, TRUE, 0))
        ELSE With(b, b.orders \cup
                       {[price |-> c.price, qty |-> b.run.left, side |-> c.side,
                         order_id |-> c.id, account |-> c.account,
                         seq_no |-> b.numbered - 1]},
                  Idle(Closed(b, FALSE, FALSE, b.run.left)))

CrossTurn(b) ==
  LET S == Takeable(b)
      o == Foremost(S)
  IN  IF b.run.left = 0 \/ S = {} THEN RestTurn(b)
      ELSE IF o.account = b.run.cmd.account THEN Return(b, Closed(b, TRUE, FALSE, 0))
      ELSE TradeTurn(b, o)

Turn(b) == IF b.run.point = "fok" THEN FokTurn(b)
           ELSE IF b.run.point = "cross" THEN CrossTurn(b)
           ELSE Return(b, Outcome(TRUE))

(* The next state of book b is d, or nothing of it changes. *)
Moves(b, d) == \/ b.run.point = "idle" /\ \E c \in Commands : d = Begin(b, c)
               \/ b.run.point # "idle" /\ d = Turn(b)
               \/ d = b

-----------------------------------------------------------------------------
(* The book as such a book. *)

(* The order that rest has put into a slot but not yet queued. *)
Arriving(i) == pc = "append" /\ IsAdd(cmd) /\ i = idx

(* The walk of the fill-or-kill check is past order i. *)
Passed(i) == /\ slots[i].price \in walked
             /\ idx # kNilIndex => \/ slots[i].price # slots[idx].price
                                   \/ slots[i].seq_no < slots[idx].seq_no

Resting == {i \in Index : Live(i) /\ ~Arriving(i)}

CountedByWalk == IF pc = "fok" THEN {i \in Marketable : Passed(i)} ELSE {}

(* A repositioned order counts as moved from its first step on, a residual *)
(* as resting only once it is queued.                                      *)
Point == IF pc \in {"rest", "allocate"} \/ (pc = "append" /\ IsAdd(cmd))
           THEN "cross"
         ELSE IF pc = "append" THEN "move"
         ELSE pc

AsPriorityBook(room) ==
  [orders |-> {slots[i] : i \in Resting}, room |-> room,
   numbered |-> next_seq, made |-> next_trade_id,
   run |-> [point |-> Point, cmd |-> cmd, left |-> left,
            counted |-> {slots[i] : i \in CountedByWalk},
            total |-> total, result |-> result]]

(***************************************************************************)
(* The book implements the priority book: every step of a command is a     *)
(* turn of it or leaves it as it is.  What the lists, the levels, the id   *)
(* map and the free list decide is what price, time and the number of      *)
(* orders decide.                                                          *)
(***************************************************************************)
ImplementsPriorityBook ==
  /\ AsPriorityBook(Capacity) = FreshBook(Capacity)
  /\ [][Moves(AsPriorityBook(Capacity), AsPriorityBook(Capacity)')]_vars
=============================================================================
