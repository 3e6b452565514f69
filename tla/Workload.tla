------------------------------ MODULE Workload -------------------------------
(***************************************************************************)
(* The W1 generator, bench/workload.hpp: generate() runs its own book to   *)
(* know which orders still rest, so that every cancel it emits hits one.   *)
(* It keeps them in a dense vector, live, with the place of each id in     *)
(* `where` and what is left of it in `remaining`.  A draw of the random    *)
(* number generator may be any number it can give.                         *)
(***************************************************************************)
EXTENDS BookRun

CONSTANTS Mid, MaxOffset, CrossShift, CancelPercent, TargetResting, MaxQty,
          ZipfOne,            \* 2^40 in the code: the weight of rank 1
          Ops                 \* how many commands are generated

ASSUME IdsAssumption == /\ Ops \in Nat
                        /\ OrderId = 1 .. Ops
                        /\ OrderId \subseteq Account

VARIABLES live, where, remaining,
          next_id, out,
          made,               \* the limit order being added, or Undef
          tallied             \* how many of its trades have been looked at

genVars == <<live, where, remaining, next_id, out, made, tallied>>

(* No entry in the map for this id. *)
Absent == -1

NewGenerator ==
  /\ live = <<>> /\ out = <<>>
  /\ where = [id \in OrderId |-> Absent]
  /\ remaining = [id \in OrderId |-> Absent]
  /\ next_id = 1 /\ made = Undef /\ tallied = 0

-----------------------------------------------------------------------------
(* The draws. *)

zipf_cdf[r \in 0 .. MaxOffset] ==
  IF r = 0 THEN 0 ELSE zipf_cdf[r - 1] + ZipfOne \div r

(* upper_bound: the first rank whose cumulative weight exceeds the draw. *)
RankOf(u) == CHOOSE r \in 1 .. MaxOffset :
               zipf_cdf[r] > u /\ zipf_cdf[r - 1] <= u

PriceAt(side, rank) ==
  IF side = "Buy" THEN Mid - (rank - CrossShift) ELSE Mid + (rank - CrossShift)

(* The book takes every command of the stream: prices and quantities are   *)
(* in range.                                                               *)
ASSUME StreamAssumption ==
  /\ MaxOffset \in Nat /\ ZipfOne \in Nat
  /\ \A id \in OrderId :
       /\ cancel_command(id) \in Commands
       /\ \A side \in Side, rank \in 1 .. MaxOffset, qty \in 1 .. MaxQty :
            limit_command(id, side, PriceAt(side, rank), qty, id, "GTC") \in Commands

kPpm == 1000000

cancel_ppm ==
  LET ppm == (CancelPercent * (kPpm \div 100) * Len(live)) \div TargetResting
  IN  IF ppm < 900000 THEN ppm ELSE 900000

-----------------------------------------------------------------------------

(* Fault: the entry of the id is erased before the last one is moved. *)
forget_erases_first(id) ==
  LET i == where[id]
      last == live[Len(live)]
  IN  /\ live' = SubSeq([live EXCEPT ![i + 1] = last], 1, Len(live) - 1)
      /\ where' = [where EXCEPT ![id] = Absent, ![last] = i]
      /\ remaining' = [remaining EXCEPT ![id] = Absent]

(* Swap-removal: the last id takes the place of the one that goes. *)
forget(id) ==
  LET i == where[id]
      last == live[Len(live)]
  IN  /\ live' = SubSeq([live EXCEPT ![i + 1] = last], 1, Len(live) - 1)
      /\ where' = [where EXCEPT ![last] = i, ![id] = Absent]
      /\ remaining' = [remaining EXCEPT ![id] = Absent]

GenCancel(k) ==
  /\ made = Undef /\ Len(out) < Ops
  /\ k \in DOMAIN live /\ cancel_ppm > 0
  /\ LET c == cancel_command(live[k])
     IN  Start(c) /\ out' = Append(out, c)
  /\ forget(live[k])
  /\ UNCHANGED <<next_id, made, tallied>>

GenLimit(side, u, qty) ==
  /\ made = Undef /\ Len(out) < Ops
  /\ live = <<>> \/ cancel_ppm < kPpm
  /\ made' = limit_command(next_id, side, PriceAt(side, RankOf(u)), qty,
                           next_id, "GTC")
  /\ Start(made')
  /\ next_id' = next_id + 1
  /\ UNCHANGED <<live, where, remaining, out, tallied>>

(* The generator's own book goes on with the order. *)
GenStep == made # Undef /\ Step /\ UNCHANGED genVars

(* One trade of the order: what the maker has left, and whether it is gone. *)
GenTally ==
  /\ made # Undef /\ pc = "idle"
  /\ tallied < Len(result.trades)
  /\ LET t == result.trades[tallied + 1]
         rest == (remaining[t.maker_order_id] - t.qty) % QtyModulus
     IN  IF rest = 0
           THEN forget(t.maker_order_id)
           ELSE /\ remaining' = [remaining EXCEPT ![t.maker_order_id] = rest]
                /\ UNCHANGED <<live, where>>
  /\ tallied' = tallied + 1
  /\ UNCHANGED <<vars, next_id, out, made>>

(* The order joins the live ones if it rests, and the stream. *)
GenKeep ==
  /\ made # Undef /\ pc = "idle"
  /\ tallied = Len(result.trades)
  /\ IF result.resting_qty > 0
       THEN /\ where' = [where EXCEPT ![made.id] = Len(live)]
            /\ live' = Append(live, made.id)
            /\ remaining' = [remaining EXCEPT ![made.id] = result.resting_qty]
       ELSE UNCHANGED <<live, where, remaining>>
  /\ out' = Append(out, made)
  /\ made' = Undef /\ tallied' = 0
  /\ UNCHANGED <<vars, next_id>>

Generate == \/ \E k \in 1 .. Ops : GenCancel(k)
            \/ \E side \in Side, u \in 0 .. zipf_cdf[MaxOffset] - 1,
                 qty \in 1 .. MaxQty : GenLimit(side, u, qty)
            \/ GenStep
            \/ GenTally
            \/ GenKeep

(* The generator and its book agree on what rests. *)
KnowsItsBook ==
  /\ \A id \in OrderId :
       IF contains(id)
         THEN /\ where[id] \in 0 .. Len(live) - 1
              /\ live[where[id] + 1] = id
              /\ remaining[id] = slots[id_map[id].index].qty
         ELSE where[id] = Absent /\ remaining[id] = Absent
  /\ Len(live) = Cardinality({id \in OrderId : contains(id)})
==============================================================================
