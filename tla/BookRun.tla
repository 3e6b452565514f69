------------------------------- MODULE BookRun -------------------------------
(***************************************************************************)
(* What the callers of a book use besides its commands: the constructor    *)
(* and snapshot().                                                         *)
(***************************************************************************)
EXTENDS BookProperties

(* The free list of a new pool.  The slots of Index from capacity on are   *)
(* not part of it.                                                         *)
FreeChain(capacity) ==
  [i \in Index |-> IF i + 1 < capacity THEN i + 1 ELSE kNilIndex]

(* Book book(capacity); AddResult result; *)
Construct(capacity) ==
  /\ slots' = [i \in Index |-> Undef]
  /\ next_idx' = [i \in Index |-> kNilIndex]
  /\ prev_idx' = [i \in Index |-> kNilIndex]
  /\ next_free' = FreeChain(capacity)
  /\ generation' = [i \in Index |-> 0]
  /\ free_head' = IF capacity > 0 THEN 0 ELSE kNilIndex
  /\ level' = [s \in Side |-> [p \in Price |-> EmptyLevel]]
  /\ prices' = [s \in Side |-> {}]
  /\ id_map' = [id \in OrderId |-> NilHandle]
  /\ next_seq' = 0
  /\ next_trade_id' = 0
  /\ Finish(Outcome(FALSE))

(* The slots from a head on, following next_idx; nil once the list ends. *)
Chain(head) ==
  LET at[k \in 1 .. Capacity + 1] ==
        IF k = 1 THEN head
        ELSE IF at[k - 1] = kNilIndex THEN kNilIndex ELSE next_idx[at[k - 1]]
  IN  at

(* The orders append_side finds at a level, oldest first. *)
Walk(side, price) ==
  LET at == Chain(level[side][price].head)
      n == Cardinality({k \in 1 .. Capacity : at[k] # kNilIndex})
  IN  [k \in 1 .. n |-> slots[at[k]]]

(* snapshot(): every level that exists with its orders. *)
snapshot == [s \in Side |-> [p \in prices[s] |-> Walk(s, p)]]

(* The resting orders of a snapshot. *)
OrdersOf(snap) ==
  UNION {UNION {{snap[s][p][k] : k \in DOMAIN snap[s][p]} :
                  p \in DOMAIN snap[s]} : s \in Side}
==============================================================================
