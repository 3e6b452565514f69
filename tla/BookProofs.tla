----------------------------- MODULE BookProofs -----------------------------
(***************************************************************************)
(* The inductive invariant of the book, proved for every value of the      *)
(* constants: one lemma per action, and lemmas for what several of them do *)
(* (a command returns, a quantity changes, an order leaves, an order is    *)
(* placed).  On top of it, the order pool and the room it guarantees: the  *)
(* free list is exactly the slots without an order, so an allocation fails *)
(* only when every slot is in use, and the levels of a side never outgrow  *)
(* the array the constructor gives them.                                   *)
(***************************************************************************)
EXTENDS BookRun, Iteration, SequenceTheorems, FiniteSetTheorems, TLAPS

-----------------------------------------------------------------------------
(* The price levels and the lists threaded through the pool: what          *)
(* level_append and level_unlink do to lists in time order.                *)

(***************************************************************************)
(* A side that has levels has a best one: best() of price_levels.hpp is    *)
(* never asked in vain.  By descent on the price, and hence for every      *)
(* range of prices.                                                        *)
(***************************************************************************)
LEMMA BestExists ==
  ASSUME NEW side \in Side, NEW S \in SUBSET Price, S # {}
  PROVE  \E p \in S : IsBest(side, S, p)
<1> DEFINE Below == OpToRel(<, Nat)
           Dist(p) == IF side = "Buy" THEN PriceMax - p ELSE p - PriceMin
           D == {n \in Nat : \E p \in S : n = Dist(p)}
<1>1. \A p \in S : p \in Int /\ Dist(p) \in Nat
  BY PriceAssumption DEF Price
<1>2. D # {} /\ D \subseteq Nat
  BY <1>1
<1>3. PICK n \in D : \A m \in D : ~(<<m, n>> \in Below)
  <2> HIDE DEF D, Below
  <2> QED BY <1>2, NatLessThanWellFounded, WFMin DEF Below
<1>4. \A m \in D : ~(m < n)
  BY <1>3 DEF OpToRel
<1>5. PICK p \in S : n = Dist(p)
  OBVIOUS
<1>6. \A q \in S \ {p} : Better(side, p, q)
  BY <1>1, <1>4, <1>5, PriceAssumption DEF Better, Side
<1> QED BY <1>6 DEF IsBest

(* What is left of a finite set without some of its elements. *)
LEMMA CountWithout ==
  ASSUME NEW S, IsFiniteSet(S), NEW T \in SUBSET S
  PROVE  Cardinality(S \ T) = Cardinality(S) - Cardinality(T)
<1>1. S \cap T = T
  OBVIOUS
<1>2. Cardinality(S \ T) = Cardinality(S) - Cardinality(S \cap T)
  BY FS_Difference, Zenon
<1> QED BY <1>1, <1>2

(* The slot of the pool that is in use holds an Order. *)
LEMMA LiveIsOrder ==
  ASSUME TypeOK, NEW i \in Index, Live(i)
  PROVE  slots[i] \in Order
BY DEF TypeOK, PoolTypeOK, Live

(***************************************************************************)
(* A step that leaves the links, the levels, and the place, price and      *)
(* seq_no of every linked order alone keeps every list in time order; it   *)
(* may change quantities, as cross and modify_order do, while they stay    *)
(* positive.                                                               *)
(***************************************************************************)
LEMMA QueuesKept ==
  ASSUME QueuesInTimeOrder,
         UNCHANGED <<next_idx, prev_idx, level>>,
         \A i \in Index : /\ Linked(i)' <=> Linked(i)
                          /\ Linked(i) => /\ slots[i].qty' > 0
                                          /\ slots[i].side' = slots[i].side
                                          /\ slots[i].price' = slots[i].price
                                          /\ slots[i].seq_no' = slots[i].seq_no
  PROVE  QueuesInTimeOrder'
<1> SUFFICES ASSUME NEW side \in Side, NEW price \in Price
             PROVE  /\ \A i \in Queue(side, price)' :
                         /\ slots'[i].qty > 0
                         /\ Links(Queue(side, price), i, next_idx[i], Earlier)'
                         /\ Links(Queue(side, price), i, prev_idx[i], Later)'
                    /\ First(Queue(side, price), level[side][price].head, Earlier)'
                    /\ First(Queue(side, price), level[side][price].tail, Later)'
  BY DEF QueuesInTimeOrder
<1>1. Queue(side, price)' = Queue(side, price)
  BY DEF Queue
<1>2. \A i, j \in Queue(side, price) :
        /\ Earlier(i, j)' <=> Earlier(i, j)
        /\ Later(i, j)' <=> Later(i, j)
  BY DEF Queue, Earlier, Later
<1> QED BY <1>1, <1>2 DEF QueuesInTimeOrder, Links, First, Queue

(* seq_no orders the orders at one price strictly and totally. *)
LEMMA TimeOrder ==
  ASSUME TypeOK, SeqNosOrdered, NEW side \in Side, NEW price \in Price
  PROVE  /\ \A i \in Queue(side, price) : ~Earlier(i, i)
         /\ \A i, j \in Queue(side, price) :
              i # j => (Earlier(i, j) <=> ~Earlier(j, i))
         /\ \A i, j, k \in Queue(side, price) :
              Earlier(i, j) /\ Earlier(j, k) => Earlier(i, k)
<1>1. \A i \in Queue(side, price) : i \in Index /\ Live(i)
  BY DEF Queue, Linked
<1>2. \A i \in Queue(side, price) : slots[i].seq_no \in Nat
  BY <1>1, LiveIsOrder DEF Order
<1> QED BY <1>1, <1>2 DEF SeqNosOrdered, Earlier

(***************************************************************************)
(* level_unlink: taking any linked order out, at the head, at the tail or  *)
(* in between, leaves every list in time order.                            *)
(***************************************************************************)
LEMMA QueuesAfterUnlink ==
  ASSUME TypeOK, QueuesInTimeOrder, SeqNosOrdered,
         NEW i \in Index, Linked(i),
         level_unlink(slots[i].side, slots[i].price, i),
         ~Linked(i)',
         \A j \in Index \ {i} : /\ Linked(j)' <=> Linked(j)
                                /\ slots'[j] = slots[j]
  PROVE  QueuesInTimeOrder'
<1> DEFINE p == prev_idx[i]
           n == next_idx[i]
<1>0. slots[i] \in Order
  BY LiveIsOrder DEF Linked
<1>1. /\ p \in IndexOrNil /\ n \in IndexOrNil
      /\ level \in [Side -> [Price -> LevelObject]]
      /\ next_idx \in [Index -> IndexOrNil] /\ prev_idx \in [Index -> IndexOrNil]
  BY DEF TypeOK, PoolTypeOK, LevelTypeOK
<1>2. /\ next_idx' = [j \in Index |-> CASE j = i -> kNilIndex
                                        [] j = p /\ j # i -> n
                                        [] OTHER -> next_idx[j]]
      /\ prev_idx' = [j \in Index |-> CASE j = i -> kNilIndex
                                        [] j = n /\ j # i -> p
                                        [] OTHER -> prev_idx[j]]
  BY DEF level_unlink
<1> SUFFICES ASSUME NEW side \in Side, NEW price \in Price
             PROVE  /\ \A j \in Queue(side, price)' :
                         /\ slots'[j].qty > 0
                         /\ Links(Queue(side, price), j, next_idx[j], Earlier)'
                         /\ Links(Queue(side, price), j, prev_idx[j], Later)'
                    /\ First(Queue(side, price), level[side][price].head, Earlier)'
                    /\ First(Queue(side, price), level[side][price].tail, Later)'
  BY DEF QueuesInTimeOrder
<1> DEFINE Q == Queue(side, price)
<1>3. /\ \A j \in Q : /\ slots[j].qty > 0
                      /\ Links(Q, j, next_idx[j], Earlier)
                      /\ Links(Q, j, prev_idx[j], Later)
      /\ First(Q, level[side][price].head, Earlier)
      /\ First(Q, level[side][price].tail, Later)
  BY DEF QueuesInTimeOrder
<1>4. Q' = Q \ {i}
  BY DEF Queue
<1>5. Q \subseteq Index /\ kNilIndex \notin Q
  BY CapacityAssumption DEF Queue, Index, kNilIndex
<1>6. \A j, k \in Q' : Earlier(j, k)' <=> Earlier(j, k)
  BY <1>4, <1>5 DEF Earlier
<1>7. \A j \in Q' : slots'[j].qty > 0
  BY <1>3, <1>4, <1>5
<1>8. CASE i \in Q
  <2>0. side = slots[i].side /\ price = slots[i].price
    BY <1>8 DEF Queue
  <2>1. level'[side][price] = LevelWithout(level[side][price], i)
    BY <2>0, <1>1 DEF level_unlink
  <2>2. /\ level'[side][price].head = IF p # kNilIndex THEN level[side][price].head ELSE n
        /\ level'[side][price].tail = IF n # kNilIndex THEN level[side][price].tail ELSE p
    BY <2>1 DEF LevelWithout
  <2>3. /\ \A j \in Q : ~Earlier(j, j)
        /\ \A j, k \in Q : j # k => (Earlier(j, k) <=> ~Earlier(k, j))
        /\ \A j, k, l \in Q : Earlier(j, k) /\ Earlier(k, l) => Earlier(j, l)
    BY TimeOrder
  <2> HIDE DEF Q, p, n
  <2>4. Links(Q, i, n, Earlier) /\ Links(Q, i, p, Later)
    BY <1>3, <1>8 DEF n, p
  <2>5. ASSUME NEW j \in Q' PROVE Links(Q', j, next_idx'[j], Earlier)
    <3>1. j \in Q /\ j # i /\ j \in Index
      BY <1>4, <1>5
    <3>2. Links(Q, j, next_idx[j], Earlier)
      BY <1>3, <3>1
    <3>3. next_idx'[j] = IF j = p THEN n ELSE next_idx[j]
      BY <1>2, <3>1
    <3>4. CASE j = p
      BY <3>4, <3>1, <3>3, <2>3, <2>4, <1>4, <1>5, <1>8 DEF Links, Later
    <3>5. CASE j # p
      BY <3>5, <3>1, <3>2, <3>3, <2>3, <2>4, <1>4, <1>5, <1>8 DEF Links, Later
    <3> QED BY <3>4, <3>5
  <2>6. ASSUME NEW j \in Q' PROVE Links(Q', j, prev_idx'[j], Later)
    <3>1. j \in Q /\ j # i /\ j \in Index
      BY <1>4, <1>5
    <3>2. Links(Q, j, prev_idx[j], Later)
      BY <1>3, <3>1
    <3>3. prev_idx'[j] = IF j = n THEN p ELSE prev_idx[j]
      BY <1>2, <3>1
    <3>4. CASE j = n
      BY <3>4, <3>1, <3>3, <2>3, <2>4, <1>4, <1>5, <1>8 DEF Links, Later
    <3>5. CASE j # n
      BY <3>5, <3>1, <3>2, <3>3, <2>3, <2>4, <1>4, <1>5, <1>8 DEF Links, Later
    <3> QED BY <3>4, <3>5
  <2>7. First(Q', level'[side][price].head, Earlier)
    BY <1>3, <1>4, <1>8, <2>2, <2>3, <2>4 DEF First, Links, Later
  <2>8. First(Q', level'[side][price].tail, Later)
    BY <1>3, <1>4, <1>8, <2>2, <2>3, <2>4 DEF First, Links, Later
  <2> QED
    BY <1>6, <1>7, <2>5, <2>6, <2>7, <2>8 DEF Links, First, Later, Q
<1>9. CASE i \notin Q
  <2>1. ~(side = slots[i].side /\ price = slots[i].price)
    BY <1>9 DEF Queue
  <2>2. level'[side][price] = level[side][price]
    BY <2>1, <1>0, <1>1 DEF level_unlink, Order
  <2>3. p \notin Q /\ n \notin Q
    <3>1. slots[i].side \in Side /\ slots[i].price \in Price
      BY <1>0 DEF Order
    <3>2. i \in Queue(slots[i].side, slots[i].price)
      BY DEF Queue
    <3>3. \/ p = kNilIndex
          \/ p \in Queue(slots[i].side, slots[i].price)
      BY <3>1, <3>2 DEF QueuesInTimeOrder, Links
    <3>4. \/ n = kNilIndex
          \/ n \in Queue(slots[i].side, slots[i].price)
      BY <3>1, <3>2 DEF QueuesInTimeOrder, Links
    <3> QED BY <2>1, <3>3, <3>4 DEF Queue, kNilIndex, Index
  <2>4. Q' = Q
    BY <1>4, <1>9
  <2>5. \A j \in Q : next_idx'[j] = next_idx[j] /\ prev_idx'[j] = prev_idx[j]
    BY <1>2, <1>5, <1>9, <2>3
  <2> HIDE DEF Q, p, n
  <2> QED
    BY <1>3, <1>6, <1>7, <2>2, <2>4, <2>5 DEF Links, First, Later, Q
<1> QED BY <1>8, <1>9

(***************************************************************************)
(* level_append: an order later than all linked ones, put behind the tail  *)
(* of its level, leaves every list in time order.                          *)
(***************************************************************************)
LEMMA QueuesAfterAppend ==
  ASSUME TypeOK, QueuesInTimeOrder, SeqNosOrdered,
         NEW i \in Index, Live(i), ~Linked(i), slots[i].qty > 0,
         \A j \in Index : Linked(j) => Earlier(j, i),
         level_append(slots[i].side, slots[i].price, i),
         slots' = slots,
         Linked(i)',
         \A j \in Index \ {i} : Linked(j)' <=> Linked(j)
  PROVE  QueuesInTimeOrder'
<1>0. slots[i] \in Order
  BY LiveIsOrder
<1>1. /\ level \in [Side -> [Price -> LevelObject]]
      /\ next_idx \in [Index -> IndexOrNil] /\ prev_idx \in [Index -> IndexOrNil]
  BY DEF TypeOK, PoolTypeOK, LevelTypeOK
<1> SUFFICES ASSUME NEW side \in Side, NEW price \in Price
             PROVE  /\ \A j \in Queue(side, price)' :
                         /\ slots'[j].qty > 0
                         /\ Links(Queue(side, price), j, next_idx[j], Earlier)'
                         /\ Links(Queue(side, price), j, prev_idx[j], Later)'
                    /\ First(Queue(side, price), level[side][price].head, Earlier)'
                    /\ First(Queue(side, price), level[side][price].tail, Later)'
  BY DEF QueuesInTimeOrder
<1> DEFINE Q == Queue(side, price)
           t == level[slots[i].side][slots[i].price].tail
<1>2. /\ next_idx' = [j \in Index |-> CASE j = t -> i
                                        [] j = i /\ j # t -> kNilIndex
                                        [] OTHER -> next_idx[j]]
      /\ prev_idx' = [prev_idx EXCEPT ![i] = t]
  BY DEF level_append
<1>3. /\ \A j \in Q : /\ slots[j].qty > 0
                      /\ Links(Q, j, next_idx[j], Earlier)
                      /\ Links(Q, j, prev_idx[j], Later)
      /\ First(Q, level[side][price].head, Earlier)
      /\ First(Q, level[side][price].tail, Later)
  BY DEF QueuesInTimeOrder
<1>4. /\ Q \subseteq Index /\ kNilIndex \notin Q /\ i \notin Q
      /\ kNilIndex \notin Index
  BY CapacityAssumption DEF Queue, Index, kNilIndex
<1>5. \A j, k \in Index : Earlier(j, k)' <=> Earlier(j, k)
  BY DEF Earlier
<1>6. \/ t = kNilIndex
      \/ t \in Queue(slots[i].side, slots[i].price)
  BY <1>0 DEF QueuesInTimeOrder, First, Order
<1>7. CASE side = slots[i].side /\ price = slots[i].price
  <2>1. Q' = Q \cup {i}
    BY <1>7 DEF Queue
  <2>2. \A j \in Q : Earlier(j, i)
    BY DEF Queue
  <2>3. level'[side][price] = [head |-> IF t # kNilIndex THEN level[side][price].head ELSE i,
                               tail |-> i]
    BY <1>7, <1>1 DEF level_append
  <2>4. First(Q, t, Later)
    BY <1>3, <1>7
  <2>5. /\ \A j \in Q : ~Earlier(j, j)
        /\ \A j, k \in Q : j # k => (Earlier(j, k) <=> ~Earlier(k, j))
        /\ \A j, k, l \in Q : Earlier(j, k) /\ Earlier(k, l) => Earlier(j, l)
    BY TimeOrder
  <2>6. t # i
    BY <1>4, <2>4 DEF First
  <2>7. level'[side][price].tail = i
    BY <2>3
  <2>8. level'[side][price].head = IF t # kNilIndex THEN level[side][price].head ELSE i
    BY <2>3
  <2> HIDE DEF Q, t
  <2>9. ASSUME NEW j \in Q' PROVE Links(Q', j, next_idx'[j], Earlier)
    <3>1. CASE j = i
      <4>1. next_idx'[j] = kNilIndex
        BY <1>2, <2>6, <3>1
      <4> QED BY <4>1, <3>1, <2>1, <2>2 DEF Links
    <3>2. CASE j = t
      <4>1. next_idx'[j] = i
        BY <1>2, <1>4, <2>1, <3>2, <2>6
      <4>2. j \in Q /\ j # i
        BY <2>1, <2>6, <3>2
      <4> QED BY <4>1, <4>2, <3>2, <2>1, <2>2, <2>4, <1>4 DEF Links, First, Later
    <3>3. CASE j # i /\ j # t
      <4>1. j \in Q /\ next_idx'[j] = next_idx[j]
        BY <1>2, <1>4, <2>1, <3>3
      <4> QED BY <4>1, <3>3, <1>3, <1>4, <2>1, <2>2, <2>4, <2>5 DEF Links, First, Later
    <3> QED BY <3>1, <3>2, <3>3
  <2>10. ASSUME NEW j \in Q' PROVE Links(Q', j, prev_idx'[j], Later)
    <3>1. CASE j = i
      <4>1. prev_idx'[j] = t
        BY <1>1, <1>2, <3>1
      <4> QED BY <4>1, <3>1, <1>4, <2>1, <2>2, <2>4 DEF Links, First, Later
    <3>2. CASE j # i
      <4>1. j \in Q /\ prev_idx'[j] = prev_idx[j]
        BY <1>1, <1>2, <1>4, <2>1, <3>2
      <4>2. Links(Q, j, prev_idx[j], Later) /\ Later(i, j)
        BY <1>3, <2>2, <4>1 DEF Later
      <4> HIDE DEF Later
      <4> QED BY <4>1, <4>2, <3>2, <1>4, <2>1 DEF Links
    <3> QED BY <3>1, <3>2
  <2>11. First(Q', level'[side][price].head, Earlier)
    BY <1>3, <1>4, <2>1, <2>2, <2>4, <2>8 DEF First, Later
  <2>12. First(Q', level'[side][price].tail, Later)
    BY <1>4, <2>1, <2>2, <2>7 DEF First, Later
  <2>13. \A j \in Q' : slots'[j].qty > 0 /\ j \in Index
    BY <1>3, <1>4, <2>1
  <2> QED
    BY <1>5, <2>9, <2>10, <2>11, <2>12, <2>13 DEF Links, First, Later, Q
<1>8. CASE ~(side = slots[i].side /\ price = slots[i].price)
  <2>1. Q' = Q
    BY <1>8 DEF Queue
  <2>2. level'[side][price] = level[side][price]
    BY <1>8, <1>0, <1>1 DEF level_append, Order
  <2>3. t \notin Q
    BY <1>6, <1>8, <1>4 DEF Queue
  <2>4. \A j \in Q : next_idx'[j] = next_idx[j] /\ prev_idx'[j] = prev_idx[j]
    BY <1>1, <1>2, <1>4, <2>3
  <2>5. \A j \in Q : slots'[j].qty > 0 /\ j \in Index
    BY <1>3, <1>4
  <2> HIDE DEF Q, t
  <2> QED
    BY <1>3, <1>5, <2>1, <2>2, <2>4, <2>5, <1>4 DEF Links, First, Later, Q
<1> QED BY <1>7, <1>8

-----------------------------------------------------------------------------
(* The steps of a command. *)

(* The program points at which every order in the pool is in a list. *)
Quiet == {"idle", "fok", "cross", "rest"}

(***************************************************************************)
(* A step between program points at which no order is being placed, and    *)
(* which leaves the containers alone, keeps what IndInv says of the        *)
(* containers.                                                             *)
(***************************************************************************)
LEMMA QuietStep ==
  ASSUME IndInv, UNCHANGED <<poolVars, level, prices, id_map>>,
         pc \in Quiet, pc' \in Quiet
  PROVE  /\ FreeLinks' /\ QueuesInTimeOrder' /\ LevelsHoldOrders'
         /\ PendingLevel' /\ IdMapExact' /\ NotCrossed'
<1> USE DEF Quiet, IndInv, poolVars
<1>1. \A i \in Index : (Live(i)' <=> Live(i)) /\ (Linked(i)' <=> Linked(i))
                       /\ (Linked(i) <=> Live(i))
  BY DEF Linked, Live, Placing
<1>2. QueuesInTimeOrder'
  <2>1. \A i \in Index : Linked(i) => slots[i].qty > 0
    <3> SUFFICES ASSUME NEW i \in Index, Linked(i) PROVE slots[i].qty > 0
      OBVIOUS
    <3>1. slots[i].side \in Side /\ slots[i].price \in Price
      BY LiveIsOrder DEF Linked, Order
    <3> QED BY <3>1 DEF QueuesInTimeOrder, Queue
  <2> QED BY <1>1, <2>1, QueuesKept
<1>3. LevelsHoldOrders'
  <2>1. \A side \in Side, price \in Price :
          Queue(side, price)' = Queue(side, price)
    BY <1>1 DEF Queue
  <2>2. \A side \in Side, price \in Price :
          price \in prices[side] <=> Queue(side, price) # {}
    BY DEF LevelsHoldOrders
  <2> QED BY <2>1, <2>2 DEF LevelsHoldOrders
<1>4. FreeLinks'
  BY DEF FreeLinks, Live
<1>5. PendingLevel'
  BY DEF PendingLevel
<1>6. IdMapExact'
  BY <1>1 DEF IdMapExact, contains, validate, valid, handle_of
<1>7. NotCrossed'
  BY DEF NotCrossed
<1> QED BY <1>2, <1>3, <1>4, <1>5, <1>6, <1>7

(* The part of TypeOK that is about the running command. *)
CommandTypeOK == /\ pc \in ProgramPoint
                 /\ cmd \in Command \cup {Undef}
                 /\ left \in Qty
                 /\ idx \in IndexOrNil
                 /\ walked \in SUBSET Price
                 /\ total \in Qty
                 /\ result \in AddResult

(* reset() gives a well-formed AddResult. *)
LEMMA OutcomeType == \A ok \in BOOLEAN : Outcome(ok) \in AddResult
BY QtyAssumption DEF Outcome, AddResult, Qty

(* So does the AddResult of an accepted add. *)
LEMMA AcceptedType ==
  ASSUME TypeOK, NEW stp \in BOOLEAN, NEW full \in BOOLEAN, NEW resting \in Qty
  PROVE  Accepted(stp, full, resting) \in AddResult
BY DEF TypeOK, Accepted, AddResult

(* A command that returns leaves no obligation behind. *)
LEMMA FinishType ==
  ASSUME NEW r \in AddResult, Finish(r)
  PROVE  CommandTypeOK' /\ CommandOK' /\ PendingNotCrossing' /\ pc' \in Quiet
BY QtyAssumption DEF Finish, CommandTypeOK, CommandOK, PendingNotCrossing,
   ProgramPoint, Qty, IndexOrNil, Quiet

(* 0 is a quantity. *)
LEMMA ZeroQty == 0 \in Qty
BY QtyAssumption DEF Qty

(***************************************************************************)
(* A command that returns without having touched the containers in its     *)
(* last step keeps IndInv: this is every refusal and every sweep with      *)
(* nothing to rest.                                                        *)
(***************************************************************************)
LEMMA QuietFinish ==
  ASSUME IndInv, UNCHANGED <<poolVars, level, prices, id_map, next_trade_id>>,
         pc \in Quiet, NEW r \in AddResult, Finish(r),
         next_seq' \in 0 .. MaxCommands, next_seq' >= next_seq
  PROVE  IndInv'
<1>1. CommandTypeOK' /\ CommandOK' /\ PendingNotCrossing' /\ pc' \in Quiet
  BY FinishType
<1>2. TypeOK'
  BY <1>1 DEF IndInv, TypeOK, CommandTypeOK, PoolTypeOK, LevelTypeOK, poolVars
<1>3. SeqNosOrdered'
  <2>1. \A i \in Index : Live(i) => slots[i].seq_no \in Nat
    BY LiveIsOrder DEF Order, IndInv
  <2>2. pc' = "idle" /\ slots' = slots
    BY DEF Finish, poolVars
  <2>3. next_seq \in Nat /\ next_seq' \in Nat
    BY MaxCommandsAssumption DEF IndInv, TypeOK
  <2> QED BY <2>1, <2>2, <2>3 DEF IndInv, SeqNosOrdered, Live
<1>4. FreeLinks' /\ QueuesInTimeOrder' /\ LevelsHoldOrders'
      /\ PendingLevel' /\ IdMapExact' /\ NotCrossed'
  BY <1>1, QuietStep DEF poolVars
<1> QED BY <1>1, <1>2, <1>3, <1>4 DEF IndInv

(* A command that starts finds the book idle and takes the next seq_no. *)
LEMMA DequeueSeq ==
  ASSUME IndInv, Dequeue
  PROVE  /\ pc = "idle" /\ pc \in Quiet
         /\ next_seq \in Nat
         /\ next_seq' = next_seq + 1
         /\ next_seq' \in 0 .. MaxCommands
         /\ next_seq' >= next_seq
BY MaxCommandsAssumption DEF Dequeue, IndInv, TypeOK, Quiet

(* A step inside a command keeps next_seq_ in its range. *)
LEMMA StaysSeq ==
  ASSUME IndInv, UNCHANGED next_seq
  PROVE  /\ next_seq \in Nat
         /\ next_seq' \in 0 .. MaxCommands
         /\ next_seq' >= next_seq
BY MaxCommandsAssumption DEF IndInv, TypeOK

(* add_limit_order and add_market_order refusing a command keep IndInv. *)
LEMMA AddRejectInd ==
  ASSUME IndInv, NEW c \in Commands, AddReject(c)
  PROVE  IndInv'
BY QuietFinish, OutcomeType, DequeueSeq DEF AddReject, poolVars

(***************************************************************************)
(* add_limit_order refusing a fill-or-kill order for want of liquidity     *)
(* keeps IndInv.                                                           *)
(***************************************************************************)
LEMMA FokRejectInd == ASSUME IndInv, FokReject PROVE IndInv'
BY QuietFinish, AcceptedType, ZeroQty, StaysSeq DEF FokReject, poolVars, counterVars, Quiet, IndInv

(* cross stopping at an order of the taker's own account keeps IndInv. *)
LEMMA CrossStopInd == ASSUME IndInv, CrossStop PROVE IndInv'
BY QuietFinish, AcceptedType, ZeroQty, StaysSeq DEF CrossStop, poolVars, counterVars, Quiet, IndInv

(* A sweep with nothing left to rest keeps IndInv. *)
LEMMA CrossDoneInd == ASSUME IndInv, CrossDone PROVE IndInv'
BY QuietFinish, AcceptedType, ZeroQty, StaysSeq DEF CrossDone, poolVars, counterVars, Quiet, IndInv

(***************************************************************************)
(* The defensive branch of cancel_order and modify_order, which drops a    *)
(* handle that does not validate, never runs: no entry of the id map is    *)
(* stale.                                                                  *)
(***************************************************************************)
LEMMA NoStale ==
  ASSUME IndInv, NEW c \in Commands, DropStale(c)
  PROVE  UNCHANGED id_map
<1>1. c.id \in OrderId
  BY CommandsAssumption DEF Command
<1> QED BY <1>1 DEF DropStale, IndInv, IdMapExact

(* modify_order refusing a command keeps IndInv. *)
LEMMA ModifyRejectInd ==
  ASSUME IndInv, NEW c \in Commands, ModifyReject(c)
  PROVE  IndInv'
<1>1. UNCHANGED id_map
  BY NoStale DEF ModifyReject
<1> QED BY <1>1, QuietFinish, OutcomeType, DequeueSeq DEF ModifyReject, poolVars

(* cancel_order of an unknown id keeps IndInv. *)
LEMMA CancelMissInd ==
  ASSUME IndInv, NEW c \in Commands, CancelMiss(c)
  PROVE  IndInv'
<1>1. UNCHANGED id_map
  BY NoStale DEF CancelMiss
<1> QED BY <1>1, QuietFinish, OutcomeType, DequeueSeq DEF CancelMiss, poolVars

(***************************************************************************)
(* A step that only moves the command along keeps IndInv, given what it    *)
(* establishes for its next program point.                                 *)
(***************************************************************************)
LEMMA QuietGoes ==
  ASSUME IndInv, UNCHANGED <<poolVars, level, prices, id_map, next_trade_id>>,
         pc \in Quiet, pc' \in Quiet, next_seq' \in 0 .. MaxCommands,
         CommandTypeOK', CommandOK', SeqNosOrdered', PendingNotCrossing'
  PROVE  IndInv'
<1>1. TypeOK'
  BY DEF IndInv, TypeOK, CommandTypeOK, PoolTypeOK, LevelTypeOK, poolVars
<1>2. FreeLinks' /\ QueuesInTimeOrder' /\ LevelsHoldOrders'
      /\ PendingLevel' /\ IdMapExact' /\ NotCrossed'
  BY QuietStep DEF poolVars
<1> QED BY <1>1, <1>2 DEF IndInv

(* The start of an accepted add keeps IndInv. *)
LEMMA AddAcceptInd ==
  ASSUME IndInv, NEW c \in Commands, AddAccept(c)
  PROVE  IndInv'
<1>1. c \in Command /\ c.qty \in Qty /\ c.id \in OrderId
  BY CommandsAssumption DEF Command
<1>2. pc' \in {"fok", "cross"} /\ cmd' = c /\ left' = c.qty
      /\ UNCHANGED <<idx, walked, total, slots, id_map>>
      /\ IsAdd(c) /\ ~contains(c.id)
  BY DEF AddAccept, Goto, AddRefused, poolVars
<1>3. CommandTypeOK'
  BY <1>1, <1>2, OutcomeType DEF AddAccept, CommandTypeOK, IndInv, TypeOK, ProgramPoint
<1>4. CommandOK'
  <2>1. idx' = kNilIndex
    BY <1>2, DequeueSeq DEF AddAccept, IndInv, CommandOK
  <2> QED BY <1>1, <1>2, <2>1, DequeueSeq DEF AddAccept, CommandOK, contains
<1>5. SeqNosOrdered'
  <2>1. \A i \in Index : Live(i) => slots[i].seq_no \in Nat
    BY LiveIsOrder DEF Order, IndInv
  <2> QED BY <2>1, <1>2, DequeueSeq DEF AddAccept, SeqNosOrdered, IndInv, seq, Live
<1>6. PendingNotCrossing'
  BY <1>2 DEF PendingNotCrossing
<1> QED
  BY <1>2, <1>3, <1>4, <1>5, <1>6, QuietGoes, DequeueSeq DEF AddAccept, Quiet, poolVars

(* available_before_self_trade going to the next level keeps IndInv. *)
LEMMA FokLevelInd == ASSUME IndInv, FokLevel PROVE IndInv'
<1>1. PICK p \in Price : /\ FokNext(p)
                         /\ walked' = walked \cup {p}
                         /\ idx' = level[Opposite(cmd.side)][p].head
  BY DEF FokLevel
<1> DEFINE opp == Opposite(cmd.side)
<1>2. cmd \in Command /\ opp \in Side
  BY DEF FokLevel, IndInv, CommandOK, Command, Opposite, Side
<1>3. level[opp][p] \in LevelObject /\ idx' \in IndexOrNil
  BY <1>1, <1>2 DEF IndInv, TypeOK, LevelTypeOK, LevelObject
<1>4. idx' # kNilIndex => idx' \in Queue(opp, p)
  BY <1>1, <1>2 DEF IndInv, QueuesInTimeOrder, First
<1>5. CommandTypeOK'
  BY <1>1, <1>3 DEF FokLevel, CommandTypeOK, IndInv, TypeOK
<1>6. CommandOK'
  BY <1>4 DEF FokLevel, CommandOK, IndInv, Queue, Linked, Live, poolVars, contains
<1>7. SeqNosOrdered'
  BY DEF FokLevel, SeqNosOrdered, IndInv, seq, Live, poolVars, counterVars
<1>8. PendingNotCrossing'
  BY DEF FokLevel, PendingNotCrossing
<1> QED
  BY <1>5, <1>6, <1>7, <1>8, QuietGoes, StaysSeq DEF FokLevel, Quiet, poolVars, counterVars

(* The next order of a linked order is a linked order of its side. *)
LEMMA LinkedLink ==
  ASSUME IndInv, NEW i \in Index, Linked(i), next_idx[i] # kNilIndex
  PROVE  /\ next_idx[i] \in Index /\ Linked(next_idx[i])
         /\ slots[next_idx[i]].side = slots[i].side
<1>1. slots[i].side \in Side /\ slots[i].price \in Price
  BY LiveIsOrder DEF Linked, Order, IndInv
<1>2. i \in Queue(slots[i].side, slots[i].price)
  BY DEF Queue
<1>3. next_idx[i] \in Queue(slots[i].side, slots[i].price)
  BY <1>1, <1>2 DEF IndInv, QueuesInTimeOrder, Links
<1> QED BY <1>3 DEF Queue

(***************************************************************************)
(* available_before_self_trade counting one order keeps IndInv: the index  *)
(* it reads next is nil or that of an order, never of a free slot.         *)
(***************************************************************************)
LEMMA FokOrderInd == ASSUME IndInv, FokOrder PROVE IndInv'
<1>1. /\ idx \in Index /\ Live(idx) /\ Linked(idx) /\ slots[idx] \in Order
      /\ slots[idx].side = Opposite(cmd.side)
  BY LiveIsOrder DEF FokOrder, IndInv, CommandOK, TypeOK, IndexOrNil, Linked, Placing
<1>2. idx' \in IndexOrNil
  BY <1>1 DEF FokOrder, IndInv, TypeOK, PoolTypeOK
<1>3. total' \in Qty
  BY <1>1, QtyAssumption DEF FokOrder, IndInv, TypeOK, Qty, Order
<1>4. CommandTypeOK'
  BY <1>2, <1>3 DEF FokOrder, CommandTypeOK, IndInv, TypeOK
<1>5. CommandOK'
  <2>1. idx' # kNilIndex => Live(idx') /\ slots[idx'].side = Opposite(cmd.side)
    BY <1>1, LinkedLink DEF FokOrder, Linked
  <2> QED BY <2>1 DEF FokOrder, CommandOK, IndInv, Live, poolVars, contains
<1>6. SeqNosOrdered'
  BY DEF FokOrder, SeqNosOrdered, IndInv, seq, Live, poolVars, counterVars
<1>7. PendingNotCrossing'
  BY DEF FokOrder, PendingNotCrossing
<1> QED
  BY <1>4, <1>5, <1>6, <1>7, QuietGoes, StaysSeq DEF FokOrder, Quiet, poolVars, counterVars

(* The fill-or-kill check passing on to cross keeps IndInv. *)
LEMMA FokPassInd == ASSUME IndInv, FokPass PROVE IndInv'
<1>1. CommandTypeOK'
  BY ZeroQty DEF FokPass, Goto, CommandTypeOK, IndInv, TypeOK, ProgramPoint, IndexOrNil
<1>2. CommandOK'
  BY DEF FokPass, Goto, CommandOK, IndInv, Live, poolVars, contains
<1>3. SeqNosOrdered'
  BY DEF FokPass, Goto, SeqNosOrdered, IndInv, seq, Live, poolVars, counterVars
<1>4. PendingNotCrossing'
  BY DEF FokPass, Goto, PendingNotCrossing
<1> QED
  BY <1>1, <1>2, <1>3, <1>4, QuietGoes, StaysSeq DEF FokPass, Goto, Quiet, poolVars, counterVars

(***************************************************************************)
(* If the best price of a side is not within a limit, none of its prices   *)
(* is: the one comparison of cross and would_cross decides for the whole   *)
(* side.                                                                   *)
(***************************************************************************)
LEMMA BestDecides ==
  ASSUME NEW side \in Side, NEW S \in SUBSET Price, NEW limit \in Price,
         \A p \in S : IsBest(Opposite(side), S, p) => ~Crosses(side, p, limit)
  PROVE  \A p \in S : ~Crosses(side, p, limit)
<1> SUFFICES ASSUME S # {} PROVE \A p \in S : ~Crosses(side, p, limit)
  OBVIOUS
<1>1. Opposite(side) \in Side
  BY DEF Opposite, Side
<1>2. PICK p \in S : IsBest(Opposite(side), S, p)
  BY <1>1, BestExists
<1>3. ~Crosses(side, p, limit)
  BY <1>2
<1> QED
  BY <1>2, <1>3, PriceAssumption DEF IsBest, Better, Crosses, Opposite, Side, Price

(***************************************************************************)
(* A sweep that ends with a residual keeps IndInv: no price left on the    *)
(* other side crosses the limit of the residual.                           *)
(***************************************************************************)
LEMMA CrossResidualInd == ASSUME IndInv, CrossResidual PROVE IndInv'
<1>1. /\ pc = "cross" /\ pc' = "rest" /\ cmd \in Command /\ cmd.kind = "Limit"
      /\ left > 0 /\ left \in Qty
      /\ UNCHANGED <<poolVars, level, prices, id_map, counterVars,
                     cmd, left, idx, walked, total, result>>
  BY DEF CrossResidual, Goto, may_rest, IndInv, CommandOK, TypeOK
<1>2. CommandTypeOK'
  BY <1>1 DEF CommandTypeOK, IndInv, TypeOK, ProgramPoint
<1>3. CommandOK'
  BY <1>1 DEF CommandOK, IndInv, contains, IsAdd
<1>4. SeqNosOrdered'
  BY <1>1 DEF SeqNosOrdered, IndInv, seq, Live, poolVars, counterVars
<1>5. PendingNotCrossing'
  <2>1. cmd.side \in Side /\ cmd.price \in Price
    BY <1>1 DEF Command
  <2>2. Opposite(cmd.side) \in Side /\ prices[Opposite(cmd.side)] \in SUBSET Price
    BY <2>1 DEF Opposite, Side, IndInv, TypeOK
  <2>3. \A p \in Price : ~CrossLevel(p)
    BY <1>1, QtyAssumption DEF CrossResidual, CrossEnded, Qty
  <2>4. \A p \in prices[Opposite(cmd.side)] :
          IsBest(Opposite(cmd.side), prices[Opposite(cmd.side)], p)
            => ~Crosses(cmd.side, p, cmd.price)
    BY <1>1, <2>2, <2>3 DEF CrossLevel, crosses
  <2>5. \A p \in prices[Opposite(cmd.side)] : ~Crosses(cmd.side, p, cmd.price)
    BY <2>1, <2>2, <2>4, BestDecides
  <2> QED BY <1>1, <2>5 DEF PendingNotCrossing
<1> QED
  BY <1>1, <1>2, <1>3, <1>4, <1>5, QuietGoes, StaysSeq DEF Quiet, poolVars, counterVars

(***************************************************************************)
(* A linked order is in the queue of its own side and price, and has       *)
(* quantity.                                                               *)
(***************************************************************************)
LEMMA LinkedOrder ==
  ASSUME IndInv, NEW i \in Index, Linked(i)
  PROVE  /\ slots[i] \in Order
         /\ slots[i].side \in Side /\ slots[i].price \in Price
         /\ i \in Queue(slots[i].side, slots[i].price)
         /\ slots[i].qty > 0
<1>1. slots[i] \in Order /\ slots[i].side \in Side /\ slots[i].price \in Price
  BY LiveIsOrder DEF Linked, Order, IndInv
<1>2. i \in Queue(slots[i].side, slots[i].price)
  BY DEF Queue
<1> QED BY <1>1, <1>2 DEF IndInv, QueuesInTimeOrder

(***************************************************************************)
(* A step that leaves pool, links and id map alone keeps what IndInv says  *)
(* of them.                                                                *)
(***************************************************************************)
LEMMA PoolKept ==
  ASSUME IndInv, UNCHANGED <<poolVars, level, id_map>>,
         \A i \in Index : Placing(i)' <=> Placing(i), pc # "append"
  PROVE  FreeLinks' /\ QueuesInTimeOrder' /\ IdMapExact'
<1> USE DEF poolVars
<1>1. \A i \in Index : (Live(i)' <=> Live(i)) /\ (Linked(i)' <=> Linked(i))
  BY DEF Linked, Live
<1>2. QueuesInTimeOrder'
  <2>1. QueuesInTimeOrder
    BY DEF IndInv
  <2> QED BY <1>1, <2>1, LinkedOrder, QueuesKept
<1>3. FreeLinks'
  BY DEF IndInv, FreeLinks, Live
<1>4. IdMapExact'
  BY <1>1 DEF IndInv, IdMapExact, contains, validate, valid, handle_of
<1> QED BY <1>2, <1>3, <1>4

(* rest getting the level of the residual keeps IndInv. *)
LEMMA RestLevelInd == ASSUME IndInv, RestLevel PROVE IndInv'
<1>1. /\ pc = "rest" /\ pc' = "allocate" /\ cmd \in Command
      /\ cmd.side \in Side /\ cmd.price \in Price
      /\ prices \in [Side -> SUBSET Price]
      /\ prices' = [prices EXCEPT ![cmd.side] = @ \cup {cmd.price}]
      /\ UNCHANGED <<poolVars, level, id_map, counterVars,
                     cmd, left, idx, walked, total, result>>
  BY DEF RestLevel, Goto, level_for_insert, IndInv, CommandOK, Command, TypeOK
<1>2. FreeLinks' /\ QueuesInTimeOrder' /\ IdMapExact'
  BY <1>1, PoolKept DEF Placing
<1>3. TypeOK'
  BY <1>1 DEF IndInv, TypeOK, ProgramPoint, PoolTypeOK, LevelTypeOK, poolVars, counterVars
<1>4. CommandOK'
  BY <1>1 DEF IndInv, CommandOK, contains
<1>5. SeqNosOrdered'
  BY <1>1 DEF IndInv, SeqNosOrdered, seq, Live, poolVars, counterVars
<1>6. LevelsHoldOrders'
  <2>1. \A side \in Side, price \in Price :
          Queue(side, price)' = Queue(side, price)
    BY <1>1 DEF Queue, Linked, Live, Placing, poolVars
  <2>2. \A side \in Side, price \in Price :
          price \in prices[side] <=> Queue(side, price) # {}
    BY <1>1 DEF IndInv, LevelsHoldOrders
  <2> QED BY <1>1, <2>1, <2>2 DEF LevelsHoldOrders
<1>7. PendingLevel'
  BY <1>1 DEF PendingLevel
<1>8. NotCrossed'
  <2>1. \A p \in prices[Opposite(cmd.side)] : ~Crosses(cmd.side, p, cmd.price)
    BY <1>1 DEF IndInv, PendingNotCrossing
  <2> QED BY <1>1, <2>1, PriceAssumption
          DEF IndInv, NotCrossed, Opposite, Crosses, Side, Price
<1>9. PendingNotCrossing'
  BY <1>1 DEF IndInv, PendingNotCrossing, Opposite, Side
<1> QED BY <1>2, <1>3, <1>4, <1>5, <1>6, <1>7, <1>8, <1>9 DEF IndInv

(***************************************************************************)
(* rest failing for want of a slot keeps IndInv: the level it had just     *)
(* made goes again, and one that already had orders stays.                 *)
(***************************************************************************)
LEMMA RestFullInd == ASSUME IndInv, RestFull PROVE IndInv'
<1>1. /\ pc = "allocate" /\ pc' = "idle" /\ cmd \in Command
      /\ cmd.side \in Side /\ cmd.price \in Price
      /\ prices \in [Side -> SUBSET Price]
      /\ prices' = IF level[cmd.side][cmd.price].head = kNilIndex
                     THEN [prices EXCEPT ![cmd.side] = @ \ {cmd.price}]
                     ELSE prices
      /\ UNCHANGED <<poolVars, level, id_map, counterVars>>
  BY DEF RestFull, Finish, EraseIfEmpty, erase_level, IndInv, CommandOK,
         Command, TypeOK
<1>2. FreeLinks' /\ QueuesInTimeOrder' /\ IdMapExact'
  BY <1>1, PoolKept DEF Placing
<1>3. CommandTypeOK' /\ CommandOK' /\ PendingNotCrossing' /\ pc' \in Quiet
  BY FinishType, AcceptedType, ZeroQty DEF RestFull, IndInv
<1>4. TypeOK'
  BY <1>1, <1>3 DEF IndInv, TypeOK, CommandTypeOK, PoolTypeOK, LevelTypeOK,
                    poolVars, counterVars
<1>5. SeqNosOrdered'
  BY <1>1 DEF IndInv, SeqNosOrdered, Live, poolVars, counterVars
<1>6. LevelsHoldOrders'
  <2>1. \A side \in Side, price \in Price :
          Queue(side, price)' = Queue(side, price)
    BY <1>1 DEF Queue, Linked, Live, Placing, poolVars
  <2>2. \A side \in Side, price \in Price :
          \/ price \in prices[side] <=> Queue(side, price) # {}
          \/ side = cmd.side /\ price = cmd.price
    BY <1>1 DEF IndInv, LevelsHoldOrders
  <2>3. level[cmd.side][cmd.price].head = kNilIndex
          <=> Queue(cmd.side, cmd.price) = {}
    BY <1>1, CapacityAssumption DEF IndInv, QueuesInTimeOrder, First
  <2>4. cmd.price \in prices[cmd.side]
    BY <1>1 DEF IndInv, PendingLevel
  <2>5. \A side \in Side, price \in Price :
          price \in prices'[side] <=> Queue(side, price) # {}
    BY <1>1, <2>2, <2>3, <2>4
  <2> QED BY <2>1, <2>5 DEF LevelsHoldOrders
<1>7. PendingLevel'
  BY <1>1 DEF PendingLevel
<1>8. NotCrossed'
  BY <1>1 DEF IndInv, NotCrossed, Side
<1> QED BY <1>2, <1>3, <1>4, <1>5, <1>6, <1>7, <1>8 DEF IndInv

(* modify_order getting the level of the new price keeps IndInv. *)
LEMMA ModifyLevelInd == ASSUME IndInv, ModifyLevel PROVE IndInv'
<1> DEFINE side_i == slots[idx].side
           price_i == slots[idx].price
<1>1. /\ pc = "move" /\ pc' = "append" /\ cmd \in Command /\ idx \in Index
      /\ cmd.kind = "Modify" /\ Live(idx)
      /\ prices \in [Side -> SUBSET Price]
      /\ prices' = [prices EXCEPT ![side_i] = @ \cup {price_i}]
      /\ UNCHANGED <<poolVars, level, id_map, counterVars,
                     cmd, left, idx, walked, total, result>>
  BY DEF ModifyLevel, Goto, level_for_insert, IndInv, CommandOK, TypeOK, IndexOrNil
<1>2. side_i \in Side /\ price_i \in Price
  BY <1>1, LiveIsOrder DEF IndInv, Order
<1>3. FreeLinks' /\ QueuesInTimeOrder' /\ IdMapExact'
  BY <1>1, PoolKept DEF Placing
<1>4. TypeOK'
  BY <1>1, <1>2 DEF IndInv, TypeOK, ProgramPoint, PoolTypeOK, LevelTypeOK, poolVars, counterVars
<1>5. CommandOK'
  BY <1>1 DEF IndInv, CommandOK, Live, poolVars
<1>6. SeqNosOrdered'
  BY <1>1 DEF IndInv, SeqNosOrdered, seq, Live, poolVars, counterVars
<1>7. LevelsHoldOrders'
  <2>1. \A side \in Side, price \in Price :
          Queue(side, price)' = Queue(side, price)
    BY <1>1 DEF Queue, Linked, Live, Placing, poolVars
  <2>2. \A side \in Side, price \in Price :
          price \in prices[side] <=> Queue(side, price) # {}
    BY <1>1 DEF IndInv, LevelsHoldOrders
  <2> QED BY <1>1, <1>2, <2>1, <2>2 DEF LevelsHoldOrders, poolVars
<1>8. PendingLevel'
  BY <1>1, <1>2 DEF PendingLevel, poolVars
<1>9. NotCrossed'
  <2>1. \A p \in prices[Opposite(side_i)] : ~Crosses(side_i, p, price_i)
    BY <1>1 DEF IndInv, PendingNotCrossing
  <2> HIDE DEF side_i, price_i
  <2> QED BY <1>1, <1>2, <2>1, PriceAssumption
          DEF IndInv, NotCrossed, Opposite, Crosses, Side, Price
<1>10. PendingNotCrossing'
  BY <1>1, <1>2 DEF IndInv, PendingNotCrossing, Opposite, Side, poolVars
<1> QED BY <1>3, <1>4, <1>5, <1>6, <1>7, <1>8, <1>9, <1>10 DEF IndInv

(* Changing the quantity of an order changes nothing else. *)
LEMMA QtyUpdate ==
  ASSUME TypeOK, NEW i \in Index, Live(i), NEW q \in Qty,
         slots' = [slots EXCEPT ![i].qty = q]
  PROVE  /\ slots' \in [Index -> Order \cup {Undef}]
         /\ slots'[i] \in Order /\ slots'[i].qty = q
         /\ slots'[i].side = slots[i].side /\ slots'[i].price = slots[i].price
         /\ slots'[i].order_id = slots[i].order_id
         /\ slots'[i].seq_no = slots[i].seq_no
         /\ \A j \in Index : /\ Live(j)' <=> Live(j)
                             /\ j # i => slots'[j] = slots[j]
<1>1. slots[i] \in Order /\ slots \in [Index -> Order \cup {Undef}]
  BY LiveIsOrder DEF TypeOK, PoolTypeOK
<1> DEFINE o == [slots[i] EXCEPT !.qty = q]
<1>2. slots' = [slots EXCEPT ![i] = o]
  OBVIOUS
<1>3. o \in Order /\ o.qty = q /\ o.side = slots[i].side /\ o.price = slots[i].price
      /\ o.order_id = slots[i].order_id /\ o.seq_no = slots[i].seq_no
  BY <1>1 DEF Order
<1> HIDE DEF o
<1>4. slots' \in [Index -> Order \cup {Undef}] /\ slots'[i] = o
      /\ \A j \in Index : j # i => slots'[j] = slots[j]
  BY <1>1, <1>2, <1>3
<1>5. \A j \in Index : Live(j)' <=> Live(j)
  BY <1>1, <1>3, <1>4, UndefAssumption DEF Live
<1> QED BY <1>3, <1>4, <1>5

(***************************************************************************)
(* Giving one linked order another positive quantity keeps IndInv: a       *)
(* partial fill and a modify in place.                                     *)
(***************************************************************************)
LEMMA QtyChange ==
  ASSUME IndInv, NEW i \in Index, Linked(i), NEW q \in Qty, q > 0,
         slots' = [slots EXCEPT ![i].qty = q],
         UNCHANGED <<next_idx, prev_idx, next_free, generation, free_head,
                     level, prices, id_map, pc, cmd, idx>>,
         pc \in {"idle", "cross"}, left' \in Qty,
         next_seq' \in 0 .. MaxCommands, next_seq' >= next_seq,
         pc = "cross" => next_seq' = next_seq,
         next_trade_id' \in Nat, walked' \in SUBSET Price, total' \in Qty,
         result' \in AddResult
  PROVE  IndInv'
<1>1. /\ slots' \in [Index -> Order \cup {Undef}]
      /\ slots'[i] \in Order /\ slots'[i].qty = q
      /\ slots'[i].side = slots[i].side /\ slots'[i].price = slots[i].price
      /\ slots'[i].order_id = slots[i].order_id
      /\ slots'[i].seq_no = slots[i].seq_no
      /\ \A j \in Index : /\ Live(j)' <=> Live(j)
                          /\ j # i => slots'[j] = slots[j]
  BY QtyUpdate DEF IndInv, Linked
<1>2. \A j \in Index : (Linked(j)' <=> Linked(j)) /\ (Linked(j) <=> Live(j))
  BY <1>1 DEF Linked, Placing
<1>3. \A j \in Index : Linked(j) =>
        /\ slots'[j].side = slots[j].side /\ slots'[j].price = slots[j].price
        /\ slots'[j].order_id = slots[j].order_id
        /\ slots'[j].seq_no = slots[j].seq_no
        /\ slots'[j].qty > 0
        /\ slots[j].seq_no \in Nat
  BY <1>1, LinkedOrder DEF Order
<1>4. TypeOK'
  BY <1>1 DEF IndInv, TypeOK, PoolTypeOK, LevelTypeOK
<1>5. CommandOK'
  BY DEF IndInv, CommandOK, contains
<1>6. SeqNosOrdered'
  <2>1. next_seq \in Nat /\ next_seq' \in Nat
    BY MaxCommandsAssumption DEF IndInv, TypeOK
  <2>2. \A j \in Index : Live(j)' => /\ Live(j)
                                   /\ slots'[j].seq_no = slots[j].seq_no
                                   /\ slots[j].seq_no \in Nat
    BY <1>1, <1>2, <1>3
  <2>3. pc' = pc /\ pc' \notin {"move", "append"}
    OBVIOUS
  <2>4. \A j \in Index : Live(j)' => slots'[j].seq_no < next_seq'
    BY <2>1, <2>2 DEF IndInv, SeqNosOrdered
  <2>5. \A j, k \in Index : Live(j)' /\ Live(k)' /\ j # k
                              => slots'[j].seq_no # slots'[k].seq_no
    BY <2>2 DEF IndInv, SeqNosOrdered
  <2>6. pc = "cross" => /\ next_seq' > 0
                        /\ \A j \in Index : Live(j)' => slots'[j].seq_no < next_seq' - 1
    BY <2>2 DEF IndInv, SeqNosOrdered, seq
  <2> QED BY <2>3, <2>4, <2>5, <2>6 DEF SeqNosOrdered, seq
<1>7. FreeLinks'
  <2>1. \A j \in Index : next_free[j] \in IndexOrNil /\ next_free[j] # kNilIndex
                           => next_free[j] \in Index
    BY DEF IndexOrNil
  <2>2. free_head # kNilIndex => free_head \in Index
    BY DEF IndInv, TypeOK, PoolTypeOK, IndexOrNil
  <2> QED BY <1>1, <2>1, <2>2 DEF IndInv, FreeLinks
<1>8. QueuesInTimeOrder'
  <2>1. QueuesInTimeOrder
    BY DEF IndInv
  <2> QED BY <1>2, <1>3, <2>1, QueuesKept
<1>9. LevelsHoldOrders'
  <2>1. \A side \in Side, price \in Price :
          Queue(side, price)' = Queue(side, price)
    BY <1>2, <1>3 DEF Queue
  <2>2. \A side \in Side, price \in Price :
          price \in prices[side] <=> Queue(side, price) # {}
    BY DEF IndInv, LevelsHoldOrders
  <2> QED BY <2>1, <2>2 DEF LevelsHoldOrders
<1>10. PendingLevel' /\ PendingNotCrossing' /\ NotCrossed'
  BY DEF IndInv, PendingLevel, PendingNotCrossing, NotCrossed
<1>11. IdMapExact'
  <2>1. \A id \in OrderId : id_map'[id] = id_map[id] /\ (validate(id_map[id])' <=> validate(id_map[id]))
    BY DEF validate, valid
  <2>2. \A id \in OrderId : validate(id_map[id]) => id_map[id].index \in Index
    BY DEF validate
  <2> QED BY <1>1, <1>2, <1>3, <2>1, <2>2 DEF IndInv, IdMapExact, contains, handle_of
<1> QED BY <1>4, <1>5, <1>6, <1>7, <1>8, <1>9, <1>10, <1>11 DEF IndInv

(***************************************************************************)
(* The head of a level that cross has reached is an order of the other     *)
(* side at that price, with quantity.                                      *)
(***************************************************************************)
LEMMA Maker ==
  ASSUME IndInv, pc = "cross", NEW p \in Price,
         level[Opposite(cmd.side)][p].head # kNilIndex
  PROVE  LET i == level[Opposite(cmd.side)][p].head
         IN  /\ i \in Index /\ Linked(i)
             /\ slots[i].side = Opposite(cmd.side) /\ slots[i].price = p
             /\ slots[i] \in Order /\ slots[i].qty > 0
             /\ Opposite(cmd.side) \in Side
<1> DEFINE opp == Opposite(cmd.side)
           i == level[opp][p].head
<1>1. opp \in Side
  BY DEF IndInv, CommandOK, Command, Opposite, Side
<1>2. i \in Queue(opp, p)
  BY <1>1 DEF IndInv, QueuesInTimeOrder, First
<1>3. i \in Index /\ Linked(i) /\ slots[i].side = opp /\ slots[i].price = p
  BY <1>2 DEF Queue
<1> QED BY <1>1, <1>3, LinkedOrder

(* A fill of at most the incoming quantity does not wrap it below zero. *)
LEMMA FillType ==
  ASSUME IndInv, pc = "cross", NEW maker \in Order, NEW fill \in Qty,
         fill <= left, Fill(maker, fill)
  PROVE  left' \in Qty /\ next_trade_id' \in Nat /\ result' \in AddResult
<1>1. left' \in Qty /\ next_trade_id' \in Nat
  BY QtyAssumption DEF Fill, IndInv, TypeOK, Qty
<1>2. TradeWith(maker, fill) \in Trade
  <2>1. cmd \in Command /\ next_trade_id \in Nat
    BY DEF IndInv, CommandOK, TypeOK
  <2>2. seq \in Nat
    BY MaxCommandsAssumption DEF IndInv, SeqNosOrdered, seq, TypeOK
  <2> QED BY <2>1, <2>2 DEF TradeWith, Trade, Order, Command
<1>3. Append(result.trades, TradeWith(maker, fill)) \in Seq(Trade)
  <2>1. result.trades \in Seq(Trade)
    BY DEF IndInv, TypeOK, AddResult
  <2> QED BY <1>2, <2>1, AppendProperties
<1> QED BY <1>1, <1>3 DEF Fill, IndInv, TypeOK, AddResult

(* cross reducing a maker that stays at its head keeps IndInv. *)
LEMMA CrossPartialInd == ASSUME IndInv, CrossPartial PROVE IndInv'
<1>1. PICK p \in Price :
        LET i == level[Opposite(cmd.side)][p].head
        IN  /\ i # kNilIndex
            /\ left < slots[i].qty
            /\ Fill(slots[i], left)
            /\ slots' = [slots EXCEPT ![i].qty = @ - left]
  BY DEF CrossPartial
<1> DEFINE i == level[Opposite(cmd.side)][p].head
<1>2. i \in Index /\ Linked(i) /\ slots[i] \in Order
  BY <1>1, Maker DEF CrossPartial
<1> DEFINE q == slots[i].qty - left
<1>3. q \in Qty /\ q > 0 /\ left \in Qty /\ left <= left
  <2>1. left \in Qty
    BY DEF IndInv, TypeOK
  <2>2. slots[i].qty \in Qty
    BY <1>2 DEF Order
  <2>3. left < slots[i].qty
    BY <1>1
  <2> HIDE DEF i
  <2> QED BY <2>1, <2>2, <2>3, QtyAssumption DEF Qty
<1>4. slots' = [slots EXCEPT ![i].qty = q]
  BY <1>1
<1>5. left' \in Qty /\ next_trade_id' \in Nat /\ result' \in AddResult
  BY <1>1, <1>2, <1>3, FillType DEF CrossPartial
<1>6. walked' \in SUBSET Price /\ total' \in Qty
  BY DEF CrossPartial, IndInv, TypeOK
<1> HIDE DEF q, i
<1> QED
  BY <1>2, <1>3, <1>4, <1>5, <1>6, QtyChange, StaysSeq DEF CrossPartial

(* The handle the id map gives leads to the linked order of that id. *)
LEMMA FoundOrder ==
  ASSUME IndInv, NEW c \in Commands, pc = "idle", Found(c)
  PROVE  LET i == id_map[c.id].index
         IN  /\ c \in Command /\ c.id \in OrderId
             /\ i \in Index /\ Linked(i) /\ slots[i].order_id = c.id
             /\ id_map[c.id] = handle_of(i)
<1>1. c \in Command /\ c.id \in OrderId
  BY CommandsAssumption DEF Command
<1> DEFINE i == id_map[c.id].index
<1>2. i \in Index /\ Live(i) /\ slots[i].order_id = c.id
  BY <1>1 DEF Found, IndInv, IdMapExact, validate
<1>3. Linked(i)
  BY <1>2 DEF Linked, Placing
<1>4. id_map[c.id] = handle_of(i)
  BY <1>2 DEF IndInv, IdMapExact
<1> QED BY <1>1, <1>2, <1>3, <1>4

(* modify_order changing a quantity in place keeps IndInv. *)
LEMMA ModifyInPlaceInd ==
  ASSUME IndInv, NEW c \in Commands, ModifyInPlace(c)
  PROVE  IndInv'
<1> DEFINE i == id_map[c.id].index
<1>1. /\ pc = "idle" /\ Found(c) /\ c.qty # 0
      /\ slots' = [slots EXCEPT ![i].qty = c.qty]
  BY DEF ModifyInPlace, Dequeue, ModifyRefused
<1>2. c \in Command /\ i \in Index /\ Linked(i)
  BY <1>1, FoundOrder
<1>3. c.qty \in Qty /\ c.qty > 0
  BY <1>1, <1>2, QtyAssumption DEF Command, Qty
<1>4. CommandTypeOK' /\ pc' = "idle" /\ cmd' = cmd /\ idx' = idx
  BY <1>1, FinishType, OutcomeType DEF ModifyInPlace, Finish, IndInv, CommandOK
<1> HIDE DEF i
<1> QED
  BY <1>1, <1>2, <1>3, <1>4, QtyChange, DequeueSeq
     DEF ModifyInPlace, CommandTypeOK, IndInv, TypeOK

(* The nil index is no slot of the pool. *)
LEMMA NilNotIndex == kNilIndex \notin Index
BY CapacityAssumption DEF kNilIndex, Index

(* The handle of a slot at its current generation validates. *)
LEMMA HandleOfValid ==
  ASSUME TypeOK, NEW i \in Index
  PROVE  /\ validate(handle_of(i)) /\ valid(handle_of(i))
         /\ handle_of(i).index = i /\ handle_of(i) \in Handle
         /\ handle_of(i).generation = generation[i]
BY NilNotIndex DEF validate, valid, handle_of, make_handle, NilHandle, Handle,
   TypeOK, PoolTypeOK, IndexOrNil

(***************************************************************************)
(* free of a current handle is not the no-op: the slot goes to the front   *)
(* of the free list with a new generation.                                 *)
(***************************************************************************)
LEMMA FreeEffect ==
  ASSUME TypeOK, NEW i \in Index, free(handle_of(i))
  PROVE  /\ slots' = [slots EXCEPT ![i] = Undef]
         /\ next_free' = [next_free EXCEPT ![i] = free_head]
         /\ free_head' = i
         /\ generation' = [generation EXCEPT ![i] = (@ + 1) % GenModulus]
         /\ generation' \in [Index -> Generation]
<1>1. validate(handle_of(i)) /\ handle_of(i).index = i
  BY HandleOfValid
<1>2. /\ slots' = [slots EXCEPT ![i] = Undef]
      /\ next_free' = [next_free EXCEPT ![i] = free_head]
      /\ free_head' = i
      /\ generation' = [generation EXCEPT ![i] = (@ + 1) % GenModulus]
  BY <1>1 DEF free
<1>3. \A g \in Generation : (g + 1) % GenModulus \in Generation
  BY GenAssumption DEF Generation
<1> QED BY <1>2, <1>3 DEF TypeOK, PoolTypeOK

(***************************************************************************)
(* Freeing a slot in use keeps the free list among the free slots, without *)
(* two links to one slot.                                                  *)
(***************************************************************************)
LEMMA FreeLinksAfterFree ==
  ASSUME TypeOK, FreeLinks, NEW i \in Index, Live(i),
         slots' = [slots EXCEPT ![i] = Undef],
         next_free' = [next_free EXCEPT ![i] = free_head],
         free_head' = i
  PROVE  FreeLinks'
<1>1. /\ slots \in [Index -> Order \cup {Undef}]
      /\ next_free \in [Index -> IndexOrNil \cup {Undef}]
      /\ free_head \in IndexOrNil
  BY DEF TypeOK, PoolTypeOK
<1>2. \A j \in Index : ~Live(j)' <=> (~Live(j) \/ j = i)
  BY <1>1 DEF Live
<1>3. \A j \in Index : next_free'[j] = IF j = i THEN free_head ELSE next_free[j]
  BY <1>1
<1>4. free_head # kNilIndex => free_head \in Index /\ ~Live(free_head) /\ free_head # i
  BY <1>1 DEF FreeLinks, IndexOrNil
<1>5. \A j \in Index : ~Live(j) /\ next_free[j] # kNilIndex =>
        /\ next_free[j] \in Index /\ ~Live(next_free[j])
        /\ next_free[j] # free_head /\ next_free[j] # i
  BY DEF FreeLinks, IndexOrNil
<1>6. ASSUME NEW j \in Index, ~Live(j)'
      PROVE  /\ next_free'[j] \in IndexOrNil
             /\ next_free'[j] # kNilIndex =>
                  /\ slots'[next_free'[j]] = Undef
                  /\ next_free'[j] # free_head'
                  /\ \A k \in Index :
                       ~Live(k)' /\ next_free'[k] = next_free'[j] => k = j
  <2>1. CASE j = i
    BY <1>1, <1>2, <1>3, <1>4, <1>5, <2>1 DEF Live
  <2>2. CASE j # i
    <3>1. ~Live(j) /\ next_free'[j] = next_free[j]
      BY <1>2, <1>3, <1>6, <2>2
    <3>2. next_free[j] \in IndexOrNil
      BY <3>1 DEF FreeLinks
    <3>3. SUFFICES ASSUME next_free[j] # kNilIndex
                   PROVE  /\ slots'[next_free[j]] = Undef
                          /\ next_free[j] # i
                          /\ \A k \in Index :
                               ~Live(k)' /\ next_free'[k] = next_free[j] => k = j
      BY <3>1, <3>2
    <3>4. slots'[next_free[j]] = Undef /\ next_free[j] # i
      BY <3>1, <3>3, <1>2, <1>5 DEF Live
    <3>5. ASSUME NEW k \in Index, ~Live(k)', next_free'[k] = next_free[j]
          PROVE  k = j
      <4>1. k # i
        BY <3>1, <3>3, <3>5, <1>3, <1>5
      <4>2. ~Live(k) /\ next_free[k] = next_free[j]
        BY <4>1, <3>5, <1>2, <1>3
      <4> QED BY <4>2, <3>1, <3>3 DEF FreeLinks
    <3> QED BY <3>4, <3>5
  <2> QED BY <2>1, <2>2
<1> QED BY <1>2, <1>6 DEF FreeLinks, Live

(***************************************************************************)
(* Taking an order out of its level and erasing the level if that empties  *)
(* it keeps a level exactly where there are orders.                        *)
(***************************************************************************)
LEMMA LevelsAfterUnlink ==
  ASSUME TypeOK, NEW i \in Index, slots[i] \in Order,
         i \in Queue(slots[i].side, slots[i].price),
         level_unlink(slots[i].side, slots[i].price, i),
         EraseIfEmpty(slots[i].side, slots[i].price,
                      LevelWithout(level[slots[i].side][slots[i].price], i)),
         QueuesInTimeOrder',
         \A side \in Side, price \in Price :
           price \in prices[side] <=> Queue(side, price) # {},
         \A side \in Side, price \in Price :
           Queue(side, price)' = Queue(side, price) \ {i}
  PROVE  /\ \A side \in Side, price \in Price :
              price \in prices'[side] <=> Queue(side, price)' # {}
         /\ prices' \in [Side -> SUBSET Price]
         /\ \A side \in Side : prices'[side] \subseteq prices[side]
<1>0. PICK s \in Side, p \in Price : s = slots[i].side /\ p = slots[i].price
  BY DEF Order
<1> DEFINE lvl == LevelWithout(level[s][p], i)
<1>2. level'[s][p] = lvl
  BY <1>0 DEF level_unlink, TypeOK, LevelTypeOK
<1>3. lvl.head = kNilIndex <=> Queue(s, p)' = {}
  <2>1. First(Queue(s, p), level[s][p].head, Earlier)'
    BY DEF QueuesInTimeOrder
  <2>2. (level[s][p].head)' = lvl.head
    BY <1>2
  <2> HIDE DEF lvl
  <2> QED BY <2>1, <2>2 DEF First
<1>4. prices' = IF lvl.head = kNilIndex
                  THEN [prices EXCEPT ![s] = @ \ {p}] ELSE prices
  BY <1>0 DEF EraseIfEmpty, erase_level
<1>5. prices \in [Side -> SUBSET Price]
  BY DEF TypeOK
<1>6. \A side \in Side, price \in Price :
        ~(side = s /\ price = p) => i \notin Queue(side, price)
  BY <1>0 DEF Queue
<1> HIDE DEF lvl
<1>7. \A side \in Side, price \in Price :
        ~(side = s /\ price = p) => Queue(side, price)' = Queue(side, price)
  <2> SUFFICES ASSUME NEW side \in Side, NEW price \in Price,
                      ~(side = s /\ price = p)
               PROVE  Queue(side, price)' = Queue(side, price)
    OBVIOUS
  <2>1. Queue(side, price)' = Queue(side, price) \ {i}
    OBVIOUS
  <2>2. i \notin Queue(side, price)
    BY <1>6
  <2> QED BY <2>1, <2>2
<1>8. p \in prices[s]
  BY <1>0
<1>9. ASSUME NEW side \in Side, NEW price \in Price
      PROVE  price \in prices'[side] <=> Queue(side, price)' # {}
  <2>1. CASE side = s /\ price = p
    BY <2>1, <1>3, <1>4, <1>5, <1>8
  <2>2. CASE ~(side = s /\ price = p)
    BY <2>2, <1>4, <1>5, <1>7
  <2> QED BY <2>1, <2>2
<1> QED BY <1>4, <1>5, <1>9

(* level_unlink keeps the types of the links and of the levels. *)
LEMMA UnlinkType ==
  ASSUME TypeOK, NEW i \in Index, slots[i] \in Order,
         level_unlink(slots[i].side, slots[i].price, i)
  PROVE  /\ next_idx' \in [Index -> IndexOrNil]
         /\ prev_idx' \in [Index -> IndexOrNil]
         /\ level' \in [Side -> [Price -> LevelObject]]
<1>1. /\ next_idx \in [Index -> IndexOrNil] /\ prev_idx \in [Index -> IndexOrNil]
      /\ level \in [Side -> [Price -> LevelObject]]
      /\ slots[i].side \in Side /\ slots[i].price \in Price
      /\ kNilIndex \in IndexOrNil
  BY DEF TypeOK, PoolTypeOK, LevelTypeOK, Order, IndexOrNil
<1>2. \A lvl \in LevelObject : LevelWithout(lvl, i) \in LevelObject
  BY <1>1 DEF LevelWithout, LevelObject
<1> QED BY <1>1, <1>2 DEF level_unlink

(***************************************************************************)
(* An order leaving the book for good keeps IndInv: unlink, erase of an    *)
(* empty level, free of its slot and erase of its id, as cancel_order and  *)
(* the full fill of cross do.                                              *)
(***************************************************************************)
LEMMA Removal ==
  ASSUME IndInv, pc \in {"idle", "cross"}, pc' \in {"idle", "cross"},
         NEW i \in Index, Linked(i),
         level_unlink(slots[i].side, slots[i].price, i),
         EraseIfEmpty(slots[i].side, slots[i].price,
                      LevelWithout(level[slots[i].side][slots[i].price], i)),
         free(handle_of(i)),
         id_erase(slots[i].order_id),
         next_seq' \in 0 .. MaxCommands, next_seq' >= next_seq,
         pc' = "cross" => pc = "cross" /\ next_seq' = next_seq,
         next_trade_id' \in Nat, CommandTypeOK', CommandOK'
  PROVE  IndInv'
<1>1. slots[i] \in Order /\ i \in Queue(slots[i].side, slots[i].price)
  BY LinkedOrder
<1>2. /\ slots' = [slots EXCEPT ![i] = Undef]
      /\ next_free' = [next_free EXCEPT ![i] = free_head]
      /\ free_head' = i
      /\ generation' = [generation EXCEPT ![i] = (@ + 1) % GenModulus]
      /\ generation' \in [Index -> Generation]
  BY FreeEffect DEF IndInv
<1>3. /\ slots \in [Index -> Order \cup {Undef}]
      /\ slots'[i] = Undef
      /\ \A j \in Index \ {i} : slots'[j] = slots[j]
  BY <1>2 DEF IndInv, TypeOK, PoolTypeOK
<1>4. /\ ~Live(i)' /\ ~Linked(i)'
      /\ \A j \in Index \ {i} : (Linked(j)' <=> Linked(j)) /\ (Live(j)' <=> Live(j))
      /\ \A j \in Index : Linked(j) <=> Live(j)
  BY <1>3 DEF Live, Linked, Placing
<1>5. QueuesInTimeOrder'
  <2>1. TypeOK /\ QueuesInTimeOrder /\ SeqNosOrdered
    BY DEF IndInv
  <2> QED BY <1>3, <1>4, <2>1, QueuesAfterUnlink
<1>6. /\ \A side \in Side, price \in Price :
           price \in prices'[side] <=> Queue(side, price)' # {}
      /\ prices' \in [Side -> SUBSET Price]
      /\ \A side \in Side : prices'[side] \subseteq prices[side]
  <2>1. \A side \in Side, price \in Price :
          Queue(side, price)' = Queue(side, price) \ {i}
    BY <1>3, <1>4 DEF Queue
  <2>2. TypeOK /\ \A side \in Side, price \in Price :
                    price \in prices[side] <=> Queue(side, price) # {}
    BY DEF IndInv, LevelsHoldOrders
  <2> QED BY <1>1, <1>5, <2>1, <2>2, LevelsAfterUnlink
<1>7. TypeOK'
  <2>1. /\ next_idx' \in [Index -> IndexOrNil]
        /\ prev_idx' \in [Index -> IndexOrNil]
        /\ level' \in [Side -> [Price -> LevelObject]]
    BY <1>1, UnlinkType DEF IndInv
  <2>2. /\ slots' \in [Index -> Order \cup {Undef}]
        /\ next_free' \in [Index -> IndexOrNil \cup {Undef}]
        /\ free_head' \in IndexOrNil
    BY <1>2 DEF IndInv, TypeOK, PoolTypeOK, IndexOrNil
  <2>3. NilHandle \in Handle
    BY GenAssumption DEF NilHandle, Handle, IndexOrNil, Generation
  <2>4. id_map' \in [OrderId -> Handle]
    BY <2>3 DEF id_erase, IndInv, TypeOK
  <2> QED BY <1>2, <1>6, <2>1, <2>2, <2>4
          DEF TypeOK, PoolTypeOK, LevelTypeOK, CommandTypeOK
<1>8. SeqNosOrdered'
  <2>1. next_seq \in Nat /\ next_seq' \in Nat
    BY MaxCommandsAssumption DEF IndInv, TypeOK
  <2>2. \A j \in Index : Live(j)' => /\ Live(j)
                                     /\ slots'[j] = slots[j]
                                     /\ slots[j].seq_no \in Nat
    BY <1>3, <1>4, LiveIsOrder DEF Order, IndInv
  <2>3. \A j \in Index : Live(j)' => slots'[j].seq_no < next_seq'
    BY <2>1, <2>2 DEF IndInv, SeqNosOrdered
  <2>4. \A j, k \in Index : Live(j)' /\ Live(k)' /\ j # k
                              => slots'[j].seq_no # slots'[k].seq_no
    BY <2>2 DEF IndInv, SeqNosOrdered
  <2>5. pc' = "cross" =>
          next_seq' > 0 /\ \A j \in Index : Live(j)' => slots'[j].seq_no < next_seq' - 1
    BY <2>2 DEF IndInv, SeqNosOrdered, seq
  <2> QED BY <2>3, <2>4, <2>5 DEF SeqNosOrdered, seq
<1>9. FreeLinks'
  BY <1>2, <1>4, FreeLinksAfterFree DEF IndInv
<1>10. LevelsHoldOrders'
  BY <1>6 DEF LevelsHoldOrders
<1>11. PendingLevel' /\ PendingNotCrossing'
  BY DEF PendingLevel, PendingNotCrossing
<1>12. NotCrossed'
  BY <1>6 DEF IndInv, NotCrossed, Side
<1>13. IdMapExact'
  <2>1. slots[i].order_id \in OrderId /\ id_map \in [OrderId -> Handle]
    BY <1>1 DEF Order, IndInv, TypeOK
  <2>2. \A id \in OrderId : id_map'[id] = IF id = slots[i].order_id
                                            THEN NilHandle ELSE id_map[id]
    BY <2>1 DEF id_erase
  <2>3. ASSUME NEW id \in OrderId, contains(id)'
        PROVE  /\ validate(id_map[id])'
               /\ Live(id_map[id].index)'
               /\ slots'[id_map'[id].index].order_id = id
    <3>1. id # slots[i].order_id /\ id_map'[id] = id_map[id] /\ contains(id)
      BY <2>2, <2>3 DEF contains
    <3>2. /\ validate(id_map[id]) /\ Live(id_map[id].index)
          /\ slots[id_map[id].index].order_id = id
      BY <3>1 DEF IndInv, IdMapExact
    <3>3. id_map[id].index \in Index /\ id_map[id].index # i
      BY <3>1, <3>2 DEF validate
    <3>4. generation'[id_map[id].index] = generation[id_map[id].index]
      BY <1>2, <3>3 DEF IndInv, TypeOK, PoolTypeOK
    <3> QED BY <1>3, <3>1, <3>2, <3>3, <3>4 DEF validate, valid, Live
  <2>4. ASSUME NEW j \in Index, Live(j)'
        PROVE  id_map'[slots'[j].order_id] = handle_of(j)'
    <3>1. j # i /\ Live(j) /\ slots'[j] = slots[j] /\ slots[j] \in Order
      BY <1>3, <1>4, <2>4, LiveIsOrder DEF IndInv
    <3>2. id_map[slots[j].order_id] = handle_of(j)
          /\ id_map[slots[i].order_id] = handle_of(i)
      BY <1>4, <3>1 DEF IndInv, IdMapExact
    <3>3. slots[j].order_id # slots[i].order_id
      BY <3>1, <3>2, HandleOfValid DEF IndInv
    <3>4. generation'[j] = generation[j]
      BY <1>2, <3>1 DEF IndInv, TypeOK, PoolTypeOK
    <3> QED BY <2>2, <3>1, <3>2, <3>3, <3>4 DEF handle_of, Order
  <2> QED BY <2>3, <2>4 DEF IdMapExact
<1> QED BY <1>5, <1>7, <1>8, <1>9, <1>10, <1>11, <1>12, <1>13 DEF IndInv

(* cancel_order keeps IndInv. *)
LEMMA CancelOrderInd ==
  ASSUME IndInv, NEW c \in Commands, CancelOrder(c)
  PROVE  IndInv'
<1> DEFINE i == id_map[c.id].index
<1>1. pc = "idle" /\ Found(c)
  BY DEF CancelOrder, Dequeue
<1>2. /\ i \in Index /\ Linked(i) /\ slots[i].order_id = c.id
      /\ id_map[c.id] = handle_of(i)
  BY <1>1, FoundOrder
<1>3. /\ level_unlink(slots[i].side, slots[i].price, i)
      /\ EraseIfEmpty(slots[i].side, slots[i].price,
                      LevelWithout(level[slots[i].side][slots[i].price], i))
      /\ free(handle_of(i))
      /\ id_erase(slots[i].order_id)
  BY <1>2 DEF CancelOrder
<1>4. CommandTypeOK' /\ CommandOK' /\ pc' = "idle" /\ next_trade_id' \in Nat
  BY FinishType, OutcomeType DEF CancelOrder, Finish, IndInv, TypeOK
<1>5. next_seq' \in 0 .. MaxCommands /\ next_seq' >= next_seq
  BY DequeueSeq DEF CancelOrder
<1> HIDE DEF i
<1> QED BY <1>1, <1>2, <1>3, <1>4, <1>5, Removal

(* cross filling a maker completely keeps IndInv. *)
LEMMA CrossFullInd == ASSUME IndInv, CrossFull PROVE IndInv'
<1>1. PICK p \in Price :
        LET opp == Opposite(cmd.side)
            i == level[opp][p].head
        IN  /\ i # kNilIndex
            /\ left >= slots[i].qty
            /\ Fill(slots[i], slots[i].qty)
            /\ level_unlink(opp, p, i)
            /\ id_erase(slots[i].order_id)
            /\ free(handle_of(i))
            /\ EraseIfEmpty(opp, p, LevelWithout(level[opp][p], i))
  BY DEF CrossFull
<1> DEFINE i == level[Opposite(cmd.side)][p].head
<1>2. /\ i \in Index /\ Linked(i) /\ slots[i] \in Order
      /\ slots[i].side = Opposite(cmd.side) /\ slots[i].price = p
  BY <1>1, Maker DEF CrossFull
<1>3. /\ level_unlink(slots[i].side, slots[i].price, i)
      /\ EraseIfEmpty(slots[i].side, slots[i].price,
                      LevelWithout(level[slots[i].side][slots[i].price], i))
      /\ free(handle_of(i))
      /\ id_erase(slots[i].order_id)
      /\ Fill(slots[i], slots[i].qty)
      /\ left >= slots[i].qty
  BY <1>1, <1>2
<1> HIDE DEF i
<1>4. pc = "cross" /\ UNCHANGED <<next_seq, pc, cmd, idx, walked, total>>
  BY DEF CrossFull
<1>5. slots[i].qty \in Qty /\ slots[i].qty <= left
  BY <1>2, <1>3, QtyAssumption DEF Order, IndInv, TypeOK, Qty
<1>6. left' \in Qty /\ next_trade_id' \in Nat /\ result' \in AddResult
  BY <1>2, <1>3, <1>4, <1>5, FillType
<1>7. CommandTypeOK'
  BY <1>4, <1>6 DEF CommandTypeOK, IndInv, TypeOK
<1>8. CommandOK'
  <2>1. slots[i].order_id \in OrderId /\ cmd \in Command /\ cmd.id \in OrderId
    BY <1>2, <1>4 DEF Order, IndInv, CommandOK, Command
  <2>2. ~contains(cmd.id)'
    BY <1>3, <1>4, <2>1 DEF id_erase, contains, IndInv, CommandOK, TypeOK
  <2> QED BY <1>4, <2>1, <2>2 DEF IndInv, CommandOK
<1> QED BY <1>2, <1>3, <1>4, <1>6, <1>7, <1>8, StaysSeq, Removal

(***************************************************************************)
(* modify_order taking the order out of its level and rewriting it keeps   *)
(* IndInv, with the order in the pool and in the id map but in no list.    *)
(***************************************************************************)
LEMMA ModifyMoveInd ==
  ASSUME IndInv, NEW c \in Commands, ModifyMove(c)
  PROVE  IndInv'
<1>1. PICK i \in Index : i = id_map[c.id].index /\ Linked(i)
                         /\ slots[i].order_id = c.id /\ c \in Command
                         /\ id_map[c.id] = handle_of(i) /\ c.id \in OrderId
  BY FoundOrder DEF ModifyMove, Dequeue, ModifyRefused
<1>2. /\ level_unlink(slots[i].side, slots[i].price, i)
      /\ EraseIfEmpty(slots[i].side, slots[i].price,
                      LevelWithout(level[slots[i].side][slots[i].price], i))
      /\ slots' = [slots EXCEPT ![i] = Repositioned(slots[i], c)]
      /\ idx' = i /\ cmd' = c /\ result' = Outcome(FALSE) /\ pc' = "move"
      /\ pc = "idle"
      /\ UNCHANGED <<next_free, generation, free_head, id_map, next_trade_id,
                     left, walked, total>>
      /\ c.qty # 0 /\ c.kind = "Modify"
      /\ ~would_cross(slots[i].side, c.price)
  BY <1>1 DEF ModifyMove, Goto, Dequeue, ModifyRefused, OrderOf
<1>3. /\ slots[i] \in Order /\ slots[i].side \in Side /\ slots[i].price \in Price
      /\ i \in Queue(slots[i].side, slots[i].price)
  BY <1>1, LinkedOrder
<1>4. /\ next_seq \in Nat /\ next_seq' = next_seq + 1
      /\ next_seq' \in 0 .. MaxCommands
  BY DequeueSeq DEF ModifyMove
<1> DEFINE o == Repositioned(slots[i], c)
<1>5. /\ o \in Order /\ o.seq_no = next_seq /\ o.qty = c.qty /\ o.qty > 0
      /\ o.side = slots[i].side /\ o.price = c.price
      /\ o.order_id = slots[i].order_id
  <2>1. c.price \in Price /\ c.qty \in Qty
    BY <1>1 DEF Command
  <2>2. c.qty # 0
    BY <1>2
  <2>3. c.qty > 0
    BY <2>1, <2>2, QtyAssumption DEF Qty
  <2> QED BY <1>3, <1>4, <2>1, <2>3 DEF Repositioned, Order
<1> HIDE DEF o
<1>6. /\ slots \in [Index -> Order \cup {Undef}]
      /\ slots' \in [Index -> Order \cup {Undef}]
      /\ slots'[i] = o
      /\ \A j \in Index \ {i} : slots'[j] = slots[j]
  BY <1>2, <1>5 DEF IndInv, TypeOK, PoolTypeOK, o
<1>7. /\ Live(i)' /\ ~Linked(i)'
      /\ \A j \in Index \ {i} : (Linked(j)' <=> Linked(j))
      /\ \A j \in Index : (Live(j)' <=> Live(j)) /\ (Linked(j) <=> Live(j))
  BY <1>1, <1>2, <1>5, <1>6, UndefAssumption DEF Live, Linked, Placing
<1>8. QueuesInTimeOrder'
  <2>1. TypeOK /\ QueuesInTimeOrder /\ SeqNosOrdered
    BY DEF IndInv
  <2> QED BY <1>1, <1>2, <1>6, <1>7, <2>1, QueuesAfterUnlink
<1>9. /\ \A side \in Side, price \in Price :
           price \in prices'[side] <=> Queue(side, price)' # {}
      /\ prices' \in [Side -> SUBSET Price]
      /\ \A side \in Side : prices'[side] \subseteq prices[side]
  <2>1. \A side \in Side, price \in Price :
          Queue(side, price)' = Queue(side, price) \ {i}
    BY <1>6, <1>7 DEF Queue
  <2>2. TypeOK /\ \A side \in Side, price \in Price :
                    price \in prices[side] <=> Queue(side, price) # {}
    BY <1>2 DEF IndInv, LevelsHoldOrders
  <2> QED BY <1>2, <1>3, <1>8, <2>1, <2>2, LevelsAfterUnlink
<1>10. TypeOK'
  <2>1. /\ next_idx' \in [Index -> IndexOrNil]
        /\ prev_idx' \in [Index -> IndexOrNil]
        /\ level' \in [Side -> [Price -> LevelObject]]
    BY <1>2, <1>3, UnlinkType DEF IndInv
  <2> QED BY <1>1, <1>2, <1>4, <1>6, <1>9, <2>1, OutcomeType
          DEF IndInv, TypeOK, PoolTypeOK, LevelTypeOK, ProgramPoint, IndexOrNil
<1>11. CommandOK'
  BY <1>1, <1>2, <1>5, <1>6, <1>7, NilNotIndex DEF CommandOK
<1>12. SeqNosOrdered'
  <2>1. \A j \in Index : Live(j)' /\ j # i => /\ Live(j)
                                              /\ slots'[j] = slots[j]
                                              /\ slots[j].seq_no \in Nat
                                              /\ slots[j].seq_no < next_seq
    BY <1>6, <1>7, LiveIsOrder DEF Order, IndInv, SeqNosOrdered
  <2>2. slots'[i].seq_no = next_seq
    BY <1>5, <1>6
  <2>3. \A j \in Index : Live(j)' => slots'[j].seq_no < next_seq'
    BY <1>4, <2>1, <2>2
  <2>4. \A j, k \in Index : Live(j)' /\ Live(k)' /\ j # k
                              => slots'[j].seq_no # slots'[k].seq_no
    BY <1>4, <2>1, <2>2 DEF IndInv, SeqNosOrdered
  <2> QED BY <1>2, <1>4, <2>2, <2>3, <2>4 DEF SeqNosOrdered, seq
<1>13. FreeLinks'
  <2>1. \A j \in Index : next_free[j] \in IndexOrNil /\ next_free[j] # kNilIndex
                           => next_free[j] \in Index
    BY DEF IndexOrNil
  <2>2. free_head # kNilIndex => free_head \in Index
    BY DEF IndInv, TypeOK, PoolTypeOK, IndexOrNil
  <2> QED BY <1>2, <1>7, <2>1, <2>2 DEF IndInv, FreeLinks
<1>14. LevelsHoldOrders'
  BY <1>9 DEF LevelsHoldOrders
<1>15. PendingLevel'
  BY <1>2 DEF PendingLevel
<1>16. NotCrossed'
  BY <1>9 DEF IndInv, NotCrossed, Side
<1>17. PendingNotCrossing'
  <2> DEFINE side == slots[i].side
  <2>1. c.price \in Price /\ side \in Side /\ Opposite(side) \in Side
    BY <1>1, <1>3 DEF Command, Opposite, Side
  <2>2. prices[Opposite(side)] \in SUBSET Price
    BY <2>1 DEF IndInv, TypeOK
  <2>3. \A p \in prices[Opposite(side)] :
          IsBest(Opposite(side), prices[Opposite(side)], p)
            => ~Crosses(side, p, c.price)
    BY <1>2 DEF would_cross
  <2>4. \A p \in prices[Opposite(side)] : ~Crosses(side, p, c.price)
    BY <2>1, <2>2, <2>3, BestDecides
  <2>5. \A p \in prices'[Opposite(side)] : ~Crosses(side, p, c.price)
    BY <1>9, <2>1, <2>4
  <2> QED BY <1>2, <1>5, <1>6, <2>5 DEF PendingNotCrossing
<1>18. IdMapExact'
  <2>1. \A id \in OrderId : id_map'[id] = id_map[id]
                            /\ (validate(id_map[id])' <=> validate(id_map[id]))
    BY <1>2 DEF validate, valid
  <2>2. \A id \in OrderId : validate(id_map[id]) => id_map[id].index \in Index
    BY DEF validate
  <2>3. \A j \in Index : Live(j)' => slots'[j].order_id = slots[j].order_id
    BY <1>5, <1>6
  <2>4. \A j \in Index : Live(j) => id_map[slots[j].order_id] = handle_of(j)
    BY <1>2 DEF IndInv, IdMapExact
  <2>5. \A j \in Index : Live(j)' => id_map'[slots'[j].order_id] = handle_of(j)'
    BY <1>2, <1>7, <2>3, <2>4 DEF handle_of
  <2>6. \A id \in OrderId :
          contains(id)' => /\ validate(id_map[id])'
                           /\ Live(id_map[id].index)'
                           /\ slots'[id_map'[id].index].order_id = id
    BY <1>2, <1>7, <2>1, <2>2, <2>3 DEF IndInv, IdMapExact, contains
  <2> QED BY <2>5, <2>6 DEF IdMapExact
<1> QED BY <1>8, <1>10, <1>11, <1>12, <1>13, <1>14, <1>15, <1>16, <1>17, <1>18
        DEF IndInv

(***************************************************************************)
(* rest taking a slot from the pool keeps IndInv: the slot was free, so no *)
(* list, handle or other order is disturbed.                               *)
(***************************************************************************)
LEMMA RestAllocateInd == ASSUME IndInv, RestAllocate PROVE IndInv'
<1>1. /\ pc = "allocate" /\ pc' = "append" /\ idx' = free_head
      /\ free_head # kNilIndex
      /\ free_head' = next_free[free_head]
      /\ slots' = [slots EXCEPT ![free_head] = incoming]
      /\ next_free' = [next_free EXCEPT ![free_head] = Undef]
      /\ next_idx' = [next_idx EXCEPT ![free_head] = kNilIndex]
      /\ prev_idx' = [prev_idx EXCEPT ![free_head] = kNilIndex]
      /\ UNCHANGED <<generation, level, prices, id_map, counterVars,
                     cmd, left, walked, total, result>>
  BY DEF RestAllocate, Goto, allocate, exhausted
<1>2. PICK f \in Index : f = free_head /\ ~Live(f)
  BY <1>1 DEF IndInv, TypeOK, PoolTypeOK, IndexOrNil, FreeLinks
<1>3. /\ cmd \in Command /\ cmd.kind = "Limit" /\ ~contains(cmd.id)
      /\ cmd.side \in Side /\ cmd.price \in Price /\ cmd.id \in OrderId
      /\ left \in Qty /\ left > 0
  BY <1>1 DEF IndInv, CommandOK, Command, TypeOK
<1>4. next_seq \in Nat /\ next_seq > 0 /\ seq \in Nat
  BY <1>1, MaxCommandsAssumption DEF IndInv, SeqNosOrdered, TypeOK, seq
<1>5. /\ incoming \in Order /\ incoming.seq_no = seq /\ incoming.qty = left
      /\ incoming.side = cmd.side /\ incoming.price = cmd.price
      /\ incoming.order_id = cmd.id
  BY <1>3, <1>4 DEF incoming, Order, Command
<1> DEFINE o == incoming
<1> HIDE DEF o
<1>6. /\ slots \in [Index -> Order \cup {Undef}]
      /\ slots' \in [Index -> Order \cup {Undef}]
      /\ slots'[f] = o
      /\ \A j \in Index \ {f} : slots'[j] = slots[j]
  BY <1>1, <1>2, <1>5 DEF IndInv, TypeOK, PoolTypeOK, o
<1>7. /\ Live(f)' /\ ~Linked(f)' /\ ~Linked(f)
      /\ \A j \in Index \ {f} : (Linked(j)' <=> Linked(j)) /\ (Live(j)' <=> Live(j))
      /\ \A j \in Index : Linked(j) <=> Live(j)
  BY <1>1, <1>2, <1>5, <1>6, UndefAssumption DEF Live, Linked, Placing, o
<1>8. /\ next_idx' \in [Index -> IndexOrNil] /\ prev_idx' \in [Index -> IndexOrNil]
      /\ \A j \in Index \ {f} : next_idx'[j] = next_idx[j] /\ prev_idx'[j] = prev_idx[j]
  BY <1>1, <1>2 DEF IndInv, TypeOK, PoolTypeOK, IndexOrNil
<1>9. \A side \in Side, price \in Price :
        /\ Queue(side, price)' = Queue(side, price)
        /\ f \notin Queue(side, price) /\ Queue(side, price) \subseteq Index
  BY <1>6, <1>7 DEF Queue
<1>10. QueuesInTimeOrder'
  <2> SUFFICES ASSUME NEW side \in Side, NEW price \in Price
               PROVE  /\ \A i \in Queue(side, price)' :
                           /\ slots'[i].qty > 0
                           /\ Links(Queue(side, price), i, next_idx[i], Earlier)'
                           /\ Links(Queue(side, price), i, prev_idx[i], Later)'
                      /\ First(Queue(side, price), level[side][price].head, Earlier)'
                      /\ First(Queue(side, price), level[side][price].tail, Later)'
    BY DEF QueuesInTimeOrder
  <2> DEFINE Q == Queue(side, price)
  <2>1. /\ \A i \in Q : /\ slots[i].qty > 0
                        /\ Links(Q, i, next_idx[i], Earlier)
                        /\ Links(Q, i, prev_idx[i], Later)
        /\ First(Q, level[side][price].head, Earlier)
        /\ First(Q, level[side][price].tail, Later)
    BY DEF IndInv, QueuesInTimeOrder
  <2>2. Q' = Q /\ f \notin Q /\ Q \subseteq Index
    BY <1>9
  <2>3. \A j, k \in Q : Earlier(j, k)' <=> Earlier(j, k)
    BY <1>6, <2>2 DEF Earlier
  <2>4. \A j \in Q : /\ slots'[j].qty > 0
                     /\ next_idx'[j] = next_idx[j] /\ prev_idx'[j] = prev_idx[j]
    BY <1>6, <1>8, <2>1, <2>2
  <2>5. level' = level
    BY <1>1
  <2> HIDE DEF Q
  <2> QED BY <2>1, <2>2, <2>3, <2>4, <2>5 DEF Links, First, Later, Q
<1>11. TypeOK'
  <2>1. next_free[f] \in IndexOrNil
    BY <1>2 DEF IndInv, FreeLinks
  <2>2. next_free' \in [Index -> IndexOrNil \cup {Undef}] /\ free_head' \in IndexOrNil
    BY <1>1, <1>2, <2>1 DEF IndInv, TypeOK, PoolTypeOK
  <2>3. idx' \in IndexOrNil
    BY <1>1 DEF IndInv, TypeOK, PoolTypeOK
  <2> QED BY <1>1, <1>6, <1>8, <2>2, <2>3
          DEF IndInv, TypeOK, PoolTypeOK, LevelTypeOK, ProgramPoint, counterVars
<1>12. CommandOK'
  BY <1>1, <1>2, <1>3, <1>5, <1>6, <1>7 DEF CommandOK, o
<1>13. SeqNosOrdered'
  <2>1. \A j \in Index : Live(j)' /\ j # f => /\ Live(j)
                                              /\ slots'[j] = slots[j]
                                              /\ slots[j].seq_no \in Nat
                                              /\ slots[j].seq_no < seq
    BY <1>1, <1>6, <1>7, LiveIsOrder DEF Order, IndInv, SeqNosOrdered
  <2>2. slots'[f].seq_no = seq /\ seq = next_seq - 1 /\ next_seq' = next_seq
    BY <1>1, <1>5, <1>6 DEF o, seq, counterVars
  <2>3. \A j \in Index : Live(j)' => slots'[j].seq_no < next_seq'
    BY <1>4, <2>1, <2>2
  <2>4. \A j, k \in Index : Live(j)' /\ Live(k)' /\ j # k
                              => slots'[j].seq_no # slots'[k].seq_no
    BY <1>4, <2>1, <2>2 DEF IndInv, SeqNosOrdered
  <2> QED BY <1>1, <1>2, <1>4, <2>2, <2>3, <2>4 DEF SeqNosOrdered, seq
<1>14. FreeLinks'
  <2>1. /\ \A j \in Index : ~Live(j)' <=> (~Live(j) /\ j # f)
        /\ \A j \in Index \ {f} : next_free'[j] = next_free[j]
        /\ free_head' = next_free[f]
    BY <1>1, <1>2, <1>7 DEF IndInv, TypeOK, PoolTypeOK
  <2>2. free_head' # kNilIndex => free_head' \in Index /\ slots'[free_head'] = Undef
    BY <1>1, <1>2, <1>6, <2>1 DEF IndInv, FreeLinks, IndexOrNil, Live
  <2>3. ASSUME NEW j \in Index, ~Live(j)'
        PROVE  /\ next_free'[j] \in IndexOrNil
               /\ next_free'[j] # kNilIndex =>
                    /\ slots'[next_free'[j]] = Undef
                    /\ next_free'[j] # free_head'
                    /\ \A k \in Index :
                         ~Live(k)' /\ next_free'[k] = next_free'[j] => k = j
    <3>1. ~Live(j) /\ j # f /\ next_free'[j] = next_free[j]
      BY <2>1, <2>3
    <3>2. next_free[j] \in IndexOrNil
      BY <3>1 DEF IndInv, FreeLinks
    <3>3. SUFFICES ASSUME next_free[j] # kNilIndex
                   PROVE  /\ slots'[next_free[j]] = Undef
                          /\ next_free[j] # free_head'
                          /\ \A k \in Index :
                               ~Live(k)' /\ next_free'[k] = next_free[j] => k = j
      BY <3>1, <3>2
    <3>4. next_free[j] \in Index /\ ~Live(next_free[j]) /\ next_free[j] # f
      BY <1>2, <3>1, <3>2, <3>3 DEF IndInv, FreeLinks, IndexOrNil
    <3>5. slots'[next_free[j]] = Undef
      BY <1>6, <3>4 DEF Live
    <3>6. next_free[j] # free_head'
      BY <1>2, <2>1, <3>1, <3>3 DEF IndInv, FreeLinks
    <3>7. ASSUME NEW k \in Index, ~Live(k)', next_free'[k] = next_free[j]
          PROVE  k = j
      BY <2>1, <3>1, <3>3, <3>7 DEF IndInv, FreeLinks
    <3> QED BY <3>5, <3>6, <3>7
  <2> QED BY <2>2, <2>3 DEF FreeLinks, Live
<1>15. LevelsHoldOrders'
  <2>1. \A side \in Side, price \in Price :
          \/ price \in prices[side] <=> Queue(side, price) # {}
          \/ cmd.side = side /\ cmd.price = price
    BY <1>1 DEF IndInv, LevelsHoldOrders
  <2>2. slots'[idx'].side = cmd.side /\ slots'[idx'].price = cmd.price
    BY <1>1, <1>2, <1>5, <1>6 DEF o
  <2> QED BY <1>1, <1>9, <2>1, <2>2 DEF LevelsHoldOrders
<1>16. PendingLevel' /\ PendingNotCrossing' /\ NotCrossed'
  BY <1>1, <1>2, <1>5, <1>6
     DEF IndInv, PendingLevel, PendingNotCrossing, NotCrossed, o
<1>17. IdMapExact'
  <2>1. \A id \in OrderId : id_map'[id] = id_map[id]
                            /\ (validate(id_map[id])' <=> validate(id_map[id]))
    BY <1>1 DEF validate, valid
  <2>2. \A id \in OrderId :
          contains(id)' => /\ validate(id_map[id])'
                           /\ Live(id_map[id].index)'
                           /\ slots'[id_map'[id].index].order_id = id
    <3> SUFFICES ASSUME NEW id \in OrderId, contains(id)'
                 PROVE  /\ validate(id_map[id])'
                        /\ Live(id_map[id].index)'
                        /\ slots'[id_map'[id].index].order_id = id
      OBVIOUS
    <3>1. /\ validate(id_map[id]) /\ Live(id_map[id].index)
          /\ slots[id_map[id].index].order_id = id
      BY <2>1 DEF IndInv, IdMapExact, contains
    <3>2. id_map[id].index \in Index \ {f}
      BY <1>2, <3>1 DEF validate
    <3> QED BY <1>6, <2>1, <3>1, <3>2 DEF Live
  <2>3. \A j \in Index \ {f} : Live(j)' => id_map'[slots'[j].order_id] = handle_of(j)'
    BY <1>1, <1>6, <1>7 DEF IndInv, IdMapExact, handle_of
  <2>4. IsAdd(cmd)' /\ ~contains(slots[f].order_id)'
    BY <1>1, <1>3, <1>5, <1>6 DEF IsAdd, contains, o
  <2> QED BY <1>1, <1>2, <2>2, <2>3, <2>4 DEF IdMapExact
<1> QED BY <1>10, <1>11, <1>12, <1>13, <1>14, <1>15, <1>16, <1>17 DEF IndInv

(***************************************************************************)
(* Appending the order being placed to its level keeps IndInv: it is later *)
(* than every order there, and crosses nothing on the other side.          *)
(***************************************************************************)
LEMMA Placement ==
  ASSUME IndInv, pc = "append", NEW r \in AddResult, Finish(r),
         level_append(slots[idx].side, slots[idx].price, idx),
         UNCHANGED <<slots, next_free, generation, free_head, prices, counterVars>>,
         id_map' \in [OrderId -> Handle], IdMapExact'
  PROVE  IndInv'
<1>1. PICK i \in Index : i = idx /\ Live(i) /\ slots[i].qty > 0
  BY DEF IndInv, CommandOK, TypeOK, IndexOrNil
<1>2. slots[i] \in Order /\ slots[i].side \in Side /\ slots[i].price \in Price
  BY <1>1, LiveIsOrder DEF IndInv, Order
<1>3. CommandTypeOK' /\ CommandOK' /\ PendingNotCrossing' /\ pc' = "idle"
  BY FinishType DEF Finish
<1>4. /\ ~Linked(i) /\ Linked(i)'
      /\ \A j \in Index \ {i} : Linked(j)' <=> Linked(j)
      /\ \A j \in Index : Linked(j)' <=> Live(j)
  BY <1>1, <1>3 DEF Linked, Live, Placing
<1>5. \A j \in Index : Linked(j) => Earlier(j, i)
  <2> SUFFICES ASSUME NEW j \in Index, Linked(j) PROVE Earlier(j, i)
    OBVIOUS
  <2>1. Live(j) /\ j # i /\ slots[j].seq_no \in Nat
    BY <1>4, LiveIsOrder DEF Linked, Order, IndInv
  <2>2. /\ slots[j].seq_no < next_seq /\ slots[j].seq_no # slots[i].seq_no
        /\ slots[i].seq_no = next_seq - 1 /\ next_seq \in Nat
    BY <1>1, <2>1, MaxCommandsAssumption DEF IndInv, SeqNosOrdered, seq, TypeOK
  <2> QED BY <2>1, <2>2 DEF Earlier
<1>6. QueuesInTimeOrder'
  <2>1. TypeOK /\ QueuesInTimeOrder /\ SeqNosOrdered
    BY DEF IndInv
  <2>2. level_append(slots[i].side, slots[i].price, i) /\ slots' = slots
    BY <1>1
  <2> QED BY <1>1, <1>4, <1>5, <2>1, <2>2, QueuesAfterAppend
<1>7. TypeOK'
  <2>1. /\ next_idx \in [Index -> IndexOrNil] /\ prev_idx \in [Index -> IndexOrNil]
        /\ level \in [Side -> [Price -> LevelObject]]
    BY DEF IndInv, TypeOK, PoolTypeOK, LevelTypeOK
  <2> DEFINE lvl == level[slots[i].side][slots[i].price]
  <2>2. lvl \in LevelObject /\ lvl.tail \in IndexOrNil /\ lvl.head \in IndexOrNil
        /\ i \in IndexOrNil /\ kNilIndex \in IndexOrNil
    BY <1>2, <2>1 DEF LevelObject, IndexOrNil
  <2>3. [head |-> IF lvl.tail # kNilIndex THEN lvl.head ELSE i, tail |-> i]
          \in LevelObject
    BY <2>2 DEF LevelObject
  <2>4. /\ next_idx' \in [Index -> IndexOrNil] /\ prev_idx' \in [Index -> IndexOrNil]
        /\ level' \in [Side -> [Price -> LevelObject]]
    BY <1>1, <1>2, <2>1, <2>2, <2>3 DEF level_append
  <2> QED BY <1>3, <2>4 DEF IndInv, TypeOK, PoolTypeOK, LevelTypeOK,
                            CommandTypeOK, counterVars
<1>8. SeqNosOrdered'
  BY <1>3 DEF IndInv, SeqNosOrdered, Live, counterVars
<1>9. FreeLinks'
  BY DEF IndInv, FreeLinks, Live
<1>10. LevelsHoldOrders'
  <2>1. ASSUME NEW side \in Side, NEW price \in Price
        PROVE  price \in prices'[side] <=> Queue(side, price)' # {}
    <3>1. CASE side = slots[i].side /\ price = slots[i].price
      <4>1. i \in Queue(side, price)'
        BY <1>4, <3>1 DEF Queue
      <4>2. price \in prices'[side]
        BY <1>1, <3>1 DEF IndInv, PendingLevel
      <4> QED BY <4>1, <4>2
    <3>2. CASE ~(side = slots[i].side /\ price = slots[i].price)
      <4>1. Queue(side, price)' = Queue(side, price)
        BY <1>4, <3>2 DEF Queue
      <4>2. price \in prices[side] <=> Queue(side, price) # {}
        BY <1>1, <3>2 DEF IndInv, LevelsHoldOrders
      <4> QED BY <4>1, <4>2
    <3> QED BY <3>1, <3>2
  <2> QED BY <2>1 DEF LevelsHoldOrders
<1>11. PendingLevel' /\ NotCrossed'
  BY <1>3 DEF IndInv, PendingLevel, NotCrossed
<1> QED BY <1>3, <1>6, <1>7, <1>8, <1>9, <1>10, <1>11 DEF IndInv

(* The end of rest keeps IndInv. *)
LEMMA RestAppendInd == ASSUME IndInv, RestAppend PROVE IndInv'
<1>1. PICK i \in Index : i = idx /\ Live(i)
  BY DEF RestAppend, IndInv, CommandOK, TypeOK, IndexOrNil
<1>2. slots[i] \in Order /\ slots[i].order_id \in OrderId
  BY <1>1, LiveIsOrder DEF IndInv, Order
<1>3. /\ pc = "append" /\ pc' = "idle" /\ UNCHANGED <<slots, generation>>
      /\ id_map' = [id_map EXCEPT ![slots[i].order_id] = handle_of(i)]
  BY <1>1 DEF RestAppend, Finish, id_insert
<1>4. id_map \in [OrderId -> Handle] /\ id_map' \in [OrderId -> Handle]
  BY <1>1, <1>2, <1>3, HandleOfValid DEF IndInv, TypeOK
<1>5. \A id \in OrderId : id_map'[id] = IF id = slots[i].order_id
                                          THEN handle_of(i) ELSE id_map[id]
  BY <1>2, <1>3, <1>4
<1>6. \A h \in Handle : validate(h)' <=> validate(h)
  BY <1>3 DEF validate, valid
<1>7. IdMapExact'
  <2>1. ASSUME NEW id \in OrderId, contains(id)'
        PROVE  /\ validate(id_map[id])'
               /\ Live(id_map[id].index)'
               /\ slots'[id_map'[id].index].order_id = id
    <3>1. CASE id = slots[i].order_id
      BY <1>1, <1>3, <1>4, <1>5, <1>6, <3>1, HandleOfValid DEF IndInv, Live
    <3>2. CASE id # slots[i].order_id
      <4>1. id_map'[id] = id_map[id] /\ contains(id)
        BY <1>5, <2>1, <3>2 DEF contains
      <4> QED BY <4>1, <1>3, <1>4, <1>6 DEF IndInv, IdMapExact, Live
    <3> QED BY <3>1, <3>2
  <2>2. ASSUME NEW j \in Index, Live(j)'
        PROVE  id_map'[slots'[j].order_id] = handle_of(j)'
    <3>1. Live(j) /\ slots[j] \in Order /\ slots' = slots
      BY <1>3, <2>2, LiveIsOrder DEF Live, IndInv
    <3>2. handle_of(j)' = handle_of(j)
      BY <1>3 DEF handle_of
    <3>3. CASE j = i
      BY <1>2, <1>5, <3>1, <3>2, <3>3
    <3>4. CASE j # i
      <4>1. id_map[slots[j].order_id] = handle_of(j)
        BY <1>1, <3>1, <3>4 DEF IndInv, IdMapExact
      <4>2. slots[j].order_id # slots[i].order_id
        <5>1. \/ id_map[slots[i].order_id] = handle_of(i)
              \/ ~contains(slots[i].order_id)
          BY <1>1 DEF IndInv, IdMapExact
        <5>2. handle_of(j) # handle_of(i) /\ handle_of(j) # NilHandle
          BY <3>4, HandleOfValid DEF IndInv, valid
        <5> QED BY <4>1, <5>1, <5>2 DEF contains
      <4>3. slots[j].order_id \in OrderId
        BY <3>1 DEF Order
      <4> QED BY <1>5, <3>1, <3>2, <4>1, <4>2, <4>3
    <3> QED BY <3>3, <3>4
  <2> QED BY <2>1, <2>2 DEF IdMapExact
<1>8. Accepted(FALSE, FALSE, left) \in AddResult
  BY AcceptedType DEF IndInv, TypeOK
<1> QED BY <1>4, <1>7, <1>8, Placement DEF RestAppend

(* The end of a repositioning modify_order keeps IndInv. *)
LEMMA ModifyAppendInd == ASSUME IndInv, ModifyAppend PROVE IndInv'
<1>1. /\ pc = "append" /\ cmd.kind = "Modify" /\ pc' = "idle"
      /\ UNCHANGED <<slots, generation, id_map>>
  BY DEF ModifyAppend, Finish
<1>2. IdMapExact'
  <2>1. \A j \in Index : Live(j) => id_map[slots[j].order_id] = handle_of(j)
    BY <1>1 DEF IndInv, IdMapExact, IsAdd
  <2>2. \A id \in OrderId : contains(id) =>
          /\ validate(id_map[id]) /\ Live(id_map[id].index)
          /\ slots[id_map[id].index].order_id = id
    BY DEF IndInv, IdMapExact
  <2> QED BY <1>1, <2>1, <2>2 DEF IdMapExact, Live, handle_of, contains, validate, valid
<1>3. id_map' \in [OrderId -> Handle]
  BY <1>1 DEF IndInv, TypeOK
<1> QED BY <1>1, <1>2, <1>3, OutcomeType, Placement DEF ModifyAppend

(* A book as the constructor leaves it.  The pool may be given fewer slots *)
(* than Index has.                                                         *)
Constructed(capacity) ==
  /\ slots = [i \in Index |-> Undef]
  /\ next_idx = [i \in Index |-> kNilIndex]
  /\ prev_idx = [i \in Index |-> kNilIndex]
  /\ next_free = FreeChain(capacity)
  /\ generation = [i \in Index |-> 0]
  /\ free_head = IF capacity > 0 THEN 0 ELSE kNilIndex
  /\ level = [s \in Side |-> [p \in Price |-> EmptyLevel]]
  /\ prices = [s \in Side |-> {}]
  /\ id_map = [id \in OrderId |-> NilHandle]
  /\ next_seq = 0 /\ next_trade_id = 0
  /\ pc = "idle" /\ cmd = Undef
  /\ left = 0 /\ idx = kNilIndex /\ walked = {} /\ total = 0
  /\ result = Outcome(FALSE)

NewBook == \E capacity \in 0 .. Capacity : Constructed(capacity)

(* A new Book satisfies IndInv. *)
LEMMA NewBookInd == NewBook => IndInv
<1> SUFFICES ASSUME NEW capacity \in 0 .. Capacity, Constructed(capacity)
             PROVE  IndInv
  BY DEF NewBook
<1>1. \A i \in Index : ~Live(i) /\ ~Linked(i)
  BY DEF Constructed, Live, Linked
<1>2. TypeOK
  <2>1. PoolTypeOK
    BY CapacityAssumption, GenAssumption
       DEF Constructed, FreeChain, PoolTypeOK, IndexOrNil, Index, kNilIndex, Generation
  <2>2. LevelTypeOK
    BY DEF Constructed, LevelTypeOK, LevelObject, EmptyLevel, IndexOrNil
  <2>3. NilHandle \in Handle
    BY GenAssumption DEF NilHandle, Handle, IndexOrNil, Generation
  <2>4. prices \in [Side -> SUBSET Price]
    BY DEF Constructed
  <2>5. id_map \in [OrderId -> Handle]
    BY <2>3 DEF Constructed
  <2>6. next_seq \in 0 .. MaxCommands /\ next_trade_id \in Nat
    BY MaxCommandsAssumption DEF Constructed
  <2>7. pc \in ProgramPoint /\ cmd \in Command \cup {Undef}
    BY DEF Constructed, ProgramPoint
  <2>8. left \in Qty /\ total \in Qty
    BY ZeroQty DEF Constructed
  <2>9. idx \in IndexOrNil /\ walked \in SUBSET Price
    BY DEF Constructed, IndexOrNil
  <2>10. result \in AddResult
    BY OutcomeType DEF Constructed
  <2> QED BY <2>1, <2>2, <2>4, <2>5, <2>6, <2>7, <2>8, <2>9, <2>10 DEF TypeOK
<1>3. CommandOK /\ SeqNosOrdered /\ PendingLevel /\ PendingNotCrossing /\ NotCrossed
  BY <1>1 DEF Constructed, CommandOK, SeqNosOrdered, PendingLevel, PendingNotCrossing,
              NotCrossed, Side
<1>4. FreeLinks
  BY <1>1, CapacityAssumption
     DEF Constructed, FreeChain, FreeLinks, Live, Index, IndexOrNil, kNilIndex
<1>5. \A side \in Side, price \in Price : Queue(side, price) = {}
  BY <1>1 DEF Queue
<1>6. QueuesInTimeOrder
  BY <1>5 DEF Constructed, EmptyLevel, QueuesInTimeOrder, First
<1>7. LevelsHoldOrders
  BY <1>5 DEF Constructed, LevelsHoldOrders
<1>8. IdMapExact
  BY <1>1 DEF Constructed, IdMapExact, contains
<1> QED BY <1>2, <1>3, <1>4, <1>6, <1>7, <1>8 DEF IndInv

(* The first book is a new one with room for every slot of Index. *)
LEMMA InitIsNew == Init => Constructed(Capacity)
BY CapacityAssumption DEF Init, PoolInit, LevelInit, Constructed, FreeChain

LEMMA InitInd == Init => IndInv
BY InitIsNew, NewBookInd, CapacityAssumption DEF NewBook

(* Every step of the book keeps IndInv. *)
LEMMA NextInd == IndInv /\ [Next]_vars => IndInv'
<1> SUFFICES ASSUME IndInv, [Next]_vars PROVE IndInv'
  OBVIOUS
<1>1. ASSUME NEW c \in Commands, Start(c) PROVE IndInv'
  BY <1>1, AddRejectInd, AddAcceptInd, ModifyRejectInd, ModifyInPlaceInd,
     ModifyMoveInd, CancelMissInd, CancelOrderInd DEF Start
<1>2. CASE Step
  BY <1>2, FokLevelInd, FokOrderInd, FokRejectInd, FokPassInd, CrossPartialInd,
     CrossFullInd, CrossStopInd, CrossDoneInd, CrossResidualInd, RestLevelInd,
     RestFullInd, RestAllocateInd, RestAppendInd, ModifyLevelInd,
     ModifyAppendInd DEF Step
<1>3. CASE UNCHANGED vars
  BY <1>3 DEF vars, poolVars, counterVars, commandVars, IndInv, TypeOK,
     PoolTypeOK, LevelTypeOK, CommandOK, SeqNosOrdered, FreeLinks,
     QueuesInTimeOrder, LevelsHoldOrders, PendingLevel, IdMapExact, NotCrossed,
     PendingNotCrossing, Queue, Linked, Placing, Live, Links, First, Earlier,
     Later, seq, contains, validate, valid, handle_of
<1> QED BY <1>1, <1>2, <1>3 DEF Next, Stopped

(***************************************************************************)
(* The inductive invariant holds at every program point of every sequence  *)
(* of commands, for every capacity, price range, set of ids and accounts,  *)
(* and width of quantities and generations.                                *)
(***************************************************************************)
THEOREM Invariance == Spec => []IndInv
<1>1. Init => IndInv
  BY InitInd
<1>2. IndInv /\ [Next]_vars => IndInv'
  BY NextInd
<1> QED BY <1>1, <1>2, PTL DEF Spec

(***************************************************************************)
(* Every variable keeps its type: in particular no quantity is ever taken  *)
(* below zero by cross, no index leaves the pool, and the free list never  *)
(* hands out the content of an order as a link.                            *)
(***************************************************************************)
THEOREM TypeCorrect == Spec => []TypeOK
<1>1. IndInv => TypeOK
  BY DEF IndInv
<1> QED BY <1>1, Invariance, PTL

(***************************************************************************)
(* No bid level is ever at or above an ask level: what the sweep of an add *)
(* leaves behind does not cross its residual, and would_cross refuses any  *)
(* modify that would.                                                      *)
(***************************************************************************)
THEOREM BookNeverCrossed == Spec => []NotCrossed
<1>1. IndInv => NotCrossed
  BY DEF IndInv
<1> QED BY <1>1, Invariance, PTL

(***************************************************************************)
(* The lists of level.hpp are the orders at their price by seq_no, through *)
(* every append, every unlink, and every reuse of a slot.                  *)
(***************************************************************************)
THEOREM QueuesCorrect == Spec => []QueuesInTimeOrder
<1>1. IndInv => QueuesInTimeOrder
  BY DEF IndInv
<1> QED BY <1>1, Invariance, PTL

(***************************************************************************)
(* A side has a level exactly where it has orders, but for the level of an *)
(* order that is being placed.                                             *)
(***************************************************************************)
THEOREM LevelsCorrect == Spec => []LevelsHoldOrders
<1>1. IndInv => LevelsHoldOrders
  BY DEF IndInv
<1> QED BY <1>1, Invariance, PTL

(***************************************************************************)
(* Every handle in the id map validates and leads to the order of its id,  *)
(* whatever the number of generations a slot can tell apart: the code      *)
(* never keeps a handle to a slot it has freed.                            *)
(***************************************************************************)
THEOREM IdMapCorrect == Spec => []IdMapExact
<1>1. IndInv => IdMapExact
  BY DEF IndInv
<1> QED BY <1>1, Invariance, PTL


-----------------------------------------------------------------------------
(* The free list. *)

(***************************************************************************)
(* ch lists the free slots of pool S, each once, from the end of the free  *)
(* list to its head.                                                       *)
(***************************************************************************)
ChainOf(S, n, ch) ==
  /\ ch \in [1 .. n -> Index]
  /\ \A j, k \in 1 .. n : ch[j] = ch[k] => j = k
  /\ \A i \in Index : i \in S /\ ~Live(i) <=> \E k \in 1 .. n : ch[k] = i
  /\ \A i \in Index : Live(i) => i \in S
  /\ free_head = IF n = 0 THEN kNilIndex ELSE ch[n]
  /\ \A k \in 1 .. n :
       next_free[ch[k]] = IF k = 1 THEN kNilIndex ELSE ch[k - 1]

FreeListChain(S) ==
  \E n \in Nat : \E ch \in [1 .. n -> Index] : ChainOf(S, n, ch)

(* The walk of the free list goes along the chain and stops at its end. *)
LEMMA FreeSlotWalks ==
  ASSUME NEW S, NEW n \in 0 .. Capacity, NEW ch, ChainOf(S, n, ch)
  PROVE  \A k \in 0 .. Capacity :
           FreeSlot[k] = IF k < n THEN ch[n - k] ELSE kNilIndex
<1> DEFINE w == [k \in 0 .. Capacity |-> IF k < n THEN ch[n - k] ELSE kNilIndex]
           Walks(f) == f = [k \in 0 .. Capacity |->
                              IF k = 0 THEN free_head
                              ELSE IF f[k - 1] \in Index THEN next_free[f[k - 1]]
                                                         ELSE kNilIndex]
<1>0. Capacity \in Nat /\ n \in Nat
  BY CapacityAssumption
<1>1. ASSUME NEW k \in 0 .. Capacity
      PROVE  w[k] = IF k = 0 THEN free_head
                    ELSE IF w[k - 1] \in Index THEN next_free[w[k - 1]]
                                               ELSE kNilIndex
  <2>1. CASE k = 0
    BY <1>0, <2>1 DEF ChainOf
  <2>2. CASE k # 0 /\ k - 1 < n
    <3>1. w[k - 1] = ch[n - (k - 1)] /\ n - (k - 1) \in 1 .. n
      BY <1>0, <2>2
    <3>2. ch[n - (k - 1)] \in Index
      BY <3>1 DEF ChainOf
    <3>3. next_free[w[k - 1]] = IF n - (k - 1) = 1 THEN kNilIndex
                                ELSE ch[(n - (k - 1)) - 1]
      BY <3>1 DEF ChainOf
    <3>4. (n - (k - 1)) - 1 = n - k /\ (n - (k - 1) = 1 <=> ~(k < n))
      BY <1>0, <2>2
    <3> QED BY <2>2, <3>1, <3>2, <3>3, <3>4
  <2>3. CASE k # 0 /\ ~(k - 1 < n)
    BY <1>0, <2>3, NilNotIndex
  <2> QED BY <2>1, <2>2, <2>3
<1>2. Walks(w)
  BY <1>1
<1>3. FreeSlot = CHOOSE f : Walks(f)
  BY DEF FreeSlot
<1>4. Walks(FreeSlot)
  <2> HIDE DEF Walks, w
  <2> QED BY <1>2, <1>3
<1>5. FreeSlot[0] = w[0]
  <2>1. 0 \in 0 .. Capacity
    BY <1>0
  <2>2. FreeSlot[0] = free_head
    BY <1>4, <2>1
  <2>3. w[0] = free_head
    BY <1>1, <2>1
  <2> QED BY <2>2, <2>3
<1>6. \A k \in 1 .. Capacity : FreeSlot[k - 1] = w[k - 1] => FreeSlot[k] = w[k]
  <2> SUFFICES ASSUME NEW k \in 1 .. Capacity, FreeSlot[k - 1] = w[k - 1]
               PROVE  FreeSlot[k] = w[k]
    OBVIOUS
  <2>1. k \in 0 .. Capacity /\ k # 0
    BY <1>0
  <2>2. FreeSlot[k] = IF FreeSlot[k - 1] \in Index THEN next_free[FreeSlot[k - 1]]
                      ELSE kNilIndex
    BY <1>4, <2>1
  <2>3. w[k] = IF w[k - 1] \in Index THEN next_free[w[k - 1]] ELSE kNilIndex
    BY <1>1, <2>1
  <2> HIDE DEF w
  <2> QED BY <2>2, <2>3
<1>7. AgreeUpTo(FreeSlot, w, Capacity)
  <2> HIDE DEF w
  <2> QED BY <1>0, <1>5, <1>6, StepwiseEqual
<1> QED BY <1>7 DEF AgreeUpTo

(* A chain of the free slots makes the free list exact. *)
LEMMA ChainIsExact == FreeListChain(Index) => FreeListExact
<1> SUFFICES ASSUME NEW n \in Nat, NEW ch \in [1 .. n -> Index],
                    ChainOf(Index, n, ch)
             PROVE  FreeListExact
  BY DEF FreeListChain
<1> DEFINE Free == {i \in Index : ~Live(i)}
<1>1. ch \in Bijection(1 .. n, Free)
  <2>1. \A k \in 1 .. n : ch[k] \in Free
    BY DEF ChainOf
  <2>2. ch \in [1 .. n -> Free]
    BY <2>1
  <2>3. \A j, k \in 1 .. n : ch[j] = ch[k] => j = k
    BY DEF ChainOf
  <2>4. \A i \in Free : \E k \in 1 .. n : ch[k] = i
    BY DEF ChainOf
  <2> HIDE DEF Free
  <2> QED BY <2>2, <2>3, <2>4 DEF Bijection, Injection, Surjection, IsInjective
<1>2. IsFiniteSet(1 .. n) /\ Cardinality(1 .. n) = n
  BY FS_Interval
<1>3. IsFiniteSet(Free) /\ Cardinality(Free) = n
  BY <1>1, <1>2, FS_Bijection DEF ExistsBijection
<1>4. IsFiniteSet(Index) /\ Cardinality(Index) = Capacity
  BY FS_Interval, CapacityAssumption DEF Index
<1>5. n \in 0 .. Capacity
  <2>1. Free \in SUBSET Index
    OBVIOUS
  <2>2. Cardinality(Free) <= Cardinality(Index)
    BY <1>4, <2>1, FS_Subset
  <2> QED BY <1>3, <1>4, <2>2, CapacityAssumption
<1>6. \A k \in 0 .. Capacity :
        FreeSlot[k] = IF k < n THEN ch[n - k] ELSE kNilIndex
  BY <1>5, FreeSlotWalks
<1>7. FreeSlot[n] = kNilIndex
  BY <1>5, <1>6
<1>8. {FreeSlot[k] : k \in 0 .. n - 1} = Free
  <2>1. ASSUME NEW k \in 0 .. n - 1 PROVE FreeSlot[k] \in Free
    <3>1. k \in 0 .. Capacity /\ k < n /\ n - k \in 1 .. n
      BY <1>5, CapacityAssumption
    <3>2. FreeSlot[k] = ch[n - k]
      BY <1>6, <3>1
    <3> QED BY <3>1, <3>2 DEF ChainOf
  <2>2. ASSUME NEW i \in Free PROVE \E k \in 0 .. n - 1 : FreeSlot[k] = i
    <3>1. PICK m \in 1 .. n : ch[m] = i
      BY DEF ChainOf
    <3>2. n - m \in 0 .. n - 1 /\ n - (n - m) = m /\ n - m \in 0 .. Capacity
          /\ n - m < n
      BY <1>5, CapacityAssumption
    <3>3. FreeSlot[n - m] = ch[n - (n - m)]
      BY <1>6, <3>2
    <3> QED BY <3>1, <3>2, <3>3
  <2> HIDE DEF Free
  <2> QED BY <2>1, <2>2
<1> QED BY <1>3, <1>7, <1>8 DEF FreeListExact

(* The constructor chains the slots it is given room for, in index order. *)
LEMMA ChainConstructed ==
  ASSUME NEW room \in 0 .. Capacity, Constructed(room)
  PROVE  FreeListChain(0 .. room - 1)
<1> DEFINE ch == [k \in 1 .. room |-> room - k]
           S == 0 .. room - 1
<1>0. room \in Nat /\ S \subseteq Index
  BY CapacityAssumption DEF Index
<1>1. ch \in [1 .. room -> Index]
  BY <1>0 DEF Index
<1>2. /\ \A i \in Index : ~Live(i)
      /\ \A i \in S : room - i \in 1 .. room /\ ch[room - i] = i
      /\ \A k \in 1 .. room : ch[k] \in S
  BY <1>0 DEF Constructed, Live
<1>3. \A j, k \in 1 .. room : ch[j] = ch[k] => j = k
  BY <1>0
<1>4. free_head = IF room = 0 THEN kNilIndex ELSE ch[room]
  BY <1>0 DEF Constructed
<1>5. ASSUME NEW k \in 1 .. room
      PROVE  next_free[ch[k]] = IF k = 1 THEN kNilIndex ELSE ch[k - 1]
  <2>1. ch[k] = room - k /\ room - k \in Index
    BY <1>0 DEF Index
  <2>2. next_free[ch[k]] = IF (room - k) + 1 < room
                             THEN (room - k) + 1 ELSE kNilIndex
    BY <2>1 DEF Constructed, FreeChain
  <2>3. k # 1 => ch[k - 1] = (room - k) + 1 /\ (room - k) + 1 < room
    BY <1>0
  <2>4. k = 1 => ~((room - k) + 1 < room)
    BY <1>0
  <2> QED BY <2>2, <2>3, <2>4
<1>6. ChainOf(S, room, ch)
  <2> HIDE DEF ch, S
  <2>1. \A i \in Index : i \in S /\ ~Live(i) <=> \E k \in 1 .. room : ch[k] = i
    BY <1>2
  <2> QED BY <1>1, <1>2, <1>3, <1>4, <1>5, <2>1 DEF ChainOf
<1> QED
  <2> HIDE DEF ch
  <2> QED BY <1>0, <1>1, <1>6 DEF FreeListChain

(* The pool of a new book is all of Index. *)
LEMMA ChainInit == Init => FreeListChain(Index)
BY InitIsNew, ChainConstructed, CapacityAssumption DEF Index

(* A step that leaves the free list and the set of free slots alone. *)
LEMMA ChainKept ==
  ASSUME NEW S, FreeListChain(S), UNCHANGED <<next_free, free_head>>,
         \A i \in Index : Live(i)' <=> Live(i)
  PROVE  FreeListChain(S)'
<1>1. PICK n, ch : n \in Nat /\ ch \in [1 .. n -> Index] /\ ChainOf(S, n, ch)
  BY DEF FreeListChain
<1>2. ChainOf(S, n, ch)'
  BY <1>1 DEF ChainOf
<1> QED BY <1>1, <1>2 DEF FreeListChain

(* allocate takes the head of the chain. *)
LEMMA ChainAfterAllocate ==
  ASSUME NEW S, TypeOK, FreeListChain(S), NEW value \in Order, allocate(value)
  PROVE  FreeListChain(S)'
<1>1. PICK n, ch : n \in Nat /\ ch \in [1 .. n -> Index] /\ ChainOf(S, n, ch)
  BY DEF FreeListChain
<1>2. n \in Nat \ {0} /\ free_head = ch[n] /\ n \in 1 .. n /\ ch[n] \in Index
  BY <1>1 DEF ChainOf, allocate, exhausted
<1> DEFINE m == n - 1
           c == [k \in 1 .. m |-> ch[k]]
<1>3. m \in Nat /\ c \in [1 .. m -> Index] /\ \A k \in 1 .. m : k \in 1 .. n /\ k # n
  BY <1>1, <1>2
<1>4. \A i \in Index : Live(i)' <=> Live(i) \/ i = ch[n]
  BY <1>2, UndefAssumption DEF TypeOK, PoolTypeOK, allocate, Live
<1>5. \A k \in 1 .. m : next_free'[ch[k]] = next_free[ch[k]]
  <2>1. \A k \in 1 .. m : ch[k] # ch[n]
    BY <1>1, <1>2, <1>3 DEF ChainOf
  <2> QED BY <1>2, <1>3, <2>1 DEF TypeOK, PoolTypeOK, allocate
<1>6. free_head' = IF m = 0 THEN kNilIndex ELSE c[m]
  BY <1>1, <1>2 DEF ChainOf, allocate
<1>7. \A i \in Index : i \in S /\ ~Live(i)' <=> \E k \in 1 .. m : c[k] = i
  <2> SUFFICES ASSUME NEW i \in Index
               PROVE  i \in S /\ ~Live(i)' <=> \E k \in 1 .. m : c[k] = i
    OBVIOUS
  <2>1. i \in S /\ ~Live(i) <=> \E k \in 1 .. n : ch[k] = i
    BY <1>1 DEF ChainOf
  <2>2. \A k \in 1 .. n : k \in 1 .. m \/ k = n
    BY <1>2
  <2>3. \A k \in 1 .. m : ch[k] # ch[n]
    BY <1>1, <1>2, <1>3 DEF ChainOf
  <2> QED BY <1>3, <1>4, <2>1, <2>2, <2>3
<1>8. ChainOf(S, m, c)'
  <2>1. \A j, k \in 1 .. m : c[j] = c[k] => j = k
    BY <1>1, <1>3 DEF ChainOf
  <2>2. ASSUME NEW k \in 1 .. m
        PROVE  next_free'[c[k]] = IF k = 1 THEN kNilIndex ELSE c[k - 1]
    <3>1. next_free'[c[k]] = IF k = 1 THEN kNilIndex ELSE ch[k - 1]
      BY <1>1, <1>3, <1>5 DEF ChainOf
    <3>2. k # 1 => c[k - 1] = ch[k - 1]
      BY <1>3
    <3> QED BY <3>1, <3>2
  <2>3. \A i \in Index : Live(i)' => i \in S
    BY <1>1, <1>2, <1>4 DEF ChainOf
  <2> HIDE DEF c, m
  <2> QED BY <1>3, <1>6, <1>7, <2>1, <2>2, <2>3 DEF ChainOf
<1> QED
  <2> HIDE DEF c, m
  <2> QED BY <1>3, <1>8 DEF FreeListChain

(* free puts a slot that held an order in front of the chain. *)
LEMMA ChainAfterFree ==
  ASSUME NEW S, TypeOK, FreeListChain(S), NEW i \in Index, Live(i),
         slots' = [slots EXCEPT ![i] = Undef],
         next_free' = [next_free EXCEPT ![i] = free_head],
         free_head' = i
  PROVE  FreeListChain(S)'
<1>1. PICK n, ch : n \in Nat /\ ch \in [1 .. n -> Index] /\ ChainOf(S, n, ch)
  BY DEF FreeListChain
<1> DEFINE m == n + 1
           c == [k \in 1 .. m |-> IF k = m THEN i ELSE ch[k]]
<1>2. /\ m \in Nat /\ m # 0 /\ c \in [1 .. m -> Index] /\ c[m] = i /\ m \in 1 .. m
      /\ \A k \in 1 .. n : k \in 1 .. m /\ k # m /\ c[k] = ch[k]
      /\ \A k \in 1 .. m : k = m \/ k \in 1 .. n
  BY <1>1
<1>3. \A j \in Index : Live(j)' <=> Live(j) /\ j # i
  BY DEF TypeOK, PoolTypeOK, Live
<1>4. \A k \in 1 .. n : ch[k] # i /\ ch[k] \in Index
  BY <1>1 DEF ChainOf
<1>5. \A j \in Index : next_free'[j] = IF j = i THEN free_head ELSE next_free[j]
  BY DEF TypeOK, PoolTypeOK
<1>6. \A j \in Index : j \in S /\ ~Live(j)' <=> \E k \in 1 .. m : c[k] = j
  <2> SUFFICES ASSUME NEW j \in Index
               PROVE  j \in S /\ ~Live(j)' <=> \E k \in 1 .. m : c[k] = j
    OBVIOUS
  <2>1. j \in S /\ ~Live(j) <=> \E k \in 1 .. n : ch[k] = j
    BY <1>1 DEF ChainOf
  <2>2. i \in S
    BY <1>1 DEF ChainOf
  <2> HIDE DEF c, m
  <2> QED BY <1>2, <1>3, <2>1, <2>2
<1>7. ASSUME NEW k \in 1 .. m
      PROVE  next_free'[c[k]] = IF k = 1 THEN kNilIndex ELSE c[k - 1]
  <2>1. CASE k = m
    <3>1. next_free'[c[k]] = free_head
      BY <1>2, <1>5, <2>1
    <3>2. k = 1 <=> n = 0
      BY <1>1, <2>1
    <3>3. k # 1 => c[k - 1] = ch[n]
      BY <1>1, <2>1
    <3> QED BY <1>1, <3>1, <3>2, <3>3 DEF ChainOf
  <2>2. CASE k # m
    <3>1. k \in 1 .. n /\ c[k] = ch[k]
      BY <1>2, <2>2
    <3>2. next_free'[c[k]] = IF k = 1 THEN kNilIndex ELSE ch[k - 1]
      BY <1>1, <1>4, <1>5, <3>1 DEF ChainOf
    <3>3. k # 1 => c[k - 1] = ch[k - 1]
      BY <1>1, <3>1
    <3> QED BY <3>2, <3>3
  <2> QED BY <2>1, <2>2
<1>8. \A j, k \in 1 .. m : c[j] = c[k] => j = k
  <2>1. \A j, k \in 1 .. n : ch[j] = ch[k] => j = k
    BY <1>1 DEF ChainOf
  <2> HIDE DEF c, m
  <2> QED BY <1>2, <1>4, <2>1
<1>9. ChainOf(S, m, c)'
  <2>1. \A j \in Index : Live(j)' => j \in S
    BY <1>1, <1>3 DEF ChainOf
  <2> HIDE DEF c, m
  <2> QED BY <1>2, <1>6, <1>7, <1>8, <2>1 DEF ChainOf
<1> QED
  <2> HIDE DEF c, m
  <2> QED BY <1>2, <1>9 DEF FreeListChain

(***************************************************************************)
(* Every step of the book keeps the chain: cross and cancel_order free the *)
(* slot of the order they remove, rest allocates one, and no other step    *)
(* turns an order into a free slot or the reverse.                         *)
(***************************************************************************)
LEMMA ChainNext ==
  ASSUME NEW S, IndInv, FreeListChain(S), [Next]_vars
  PROVE  FreeListChain(S)'
<1>0. TypeOK
  BY DEF IndInv
<1>1. CASE CrossFull
  <2>1. PICK p \in Price : /\ level[Opposite(cmd.side)][p].head # kNilIndex
                           /\ free(handle_of(level[Opposite(cmd.side)][p].head))
    BY <1>1 DEF CrossFull
  <2>2. PICK i \in Index : i = level[Opposite(cmd.side)][p].head /\ Live(i)
    BY <1>1, <2>1, Maker DEF CrossFull, Linked
  <2> QED BY <1>0, <2>1, <2>2, FreeEffect, ChainAfterFree
<1>2. ASSUME NEW c \in Commands, CancelOrder(c) PROVE FreeListChain(S)'
  <2>1. pc = "idle" /\ Found(c) /\ free(id_map[c.id])
    BY <1>2 DEF CancelOrder, Dequeue
  <2>2. PICK i \in Index : Live(i) /\ id_map[c.id] = handle_of(i)
    BY <2>1, FoundOrder DEF Linked
  <2> QED BY <1>0, <2>1, <2>2, FreeEffect, ChainAfterFree
<1>3. CASE RestAllocate
  <2>1. incoming \in Order
    <3>1. cmd \in Command /\ left \in Qty
      BY <1>3 DEF RestAllocate, IndInv, CommandOK, TypeOK
    <3>2. seq \in Nat
      BY <1>3, MaxCommandsAssumption
         DEF RestAllocate, IndInv, SeqNosOrdered, seq, TypeOK
    <3> QED BY <3>1, <3>2 DEF incoming, Order, Command
  <2> QED BY <1>0, <1>3, <2>1, ChainAfterAllocate DEF RestAllocate
<1>4. CASE CrossPartial
  <2>1. PICK p \in Price :
          LET i == level[Opposite(cmd.side)][p].head
          IN  /\ i # kNilIndex
              /\ left < slots[i].qty
              /\ slots' = [slots EXCEPT ![i].qty = @ - left]
    BY <1>4 DEF CrossPartial
  <2>2. PICK i \in Index : i = level[Opposite(cmd.side)][p].head
                           /\ slots[i] \in Order
    BY <1>4, <2>1, Maker DEF CrossPartial
  <2>3. slots[i].qty - left \in Qty
    BY <2>1, <2>2, QtyAssumption DEF IndInv, TypeOK, Order, Qty
  <2>4. [slots[i] EXCEPT !.qty = @ - left] \in Order
    BY <2>2, <2>3 DEF Order
  <2>5. \A j \in Index : Live(j)' <=> Live(j)
    BY <1>0, <2>1, <2>2, <2>4, UndefAssumption DEF TypeOK, PoolTypeOK, Live
  <2> QED BY <1>4, <2>5, ChainKept DEF CrossPartial
<1>5. ASSUME NEW c \in Commands, ModifyInPlace(c) PROVE FreeListChain(S)'
  <2>1. pc = "idle" /\ Found(c)
        /\ slots' = [slots EXCEPT ![id_map[c.id].index].qty = c.qty]
        /\ UNCHANGED <<next_free, free_head>>
    BY <1>5 DEF ModifyInPlace, Dequeue, ModifyRefused
  <2>2. PICK i \in Index : i = id_map[c.id].index /\ Live(i) /\ c \in Command
    BY <2>1, FoundOrder DEF Linked
  <2>3. slots[i] \in Order
    BY <1>0, <2>2, LiveIsOrder
  <2>4. [slots[i] EXCEPT !.qty = c.qty] \in Order
    BY <2>2, <2>3 DEF Order, Command
  <2>5. \A j \in Index : Live(j)' <=> Live(j)
    BY <1>0, <2>1, <2>2, <2>4, UndefAssumption DEF TypeOK, PoolTypeOK, Live
  <2> QED BY <2>1, <2>5, ChainKept
<1>6. ASSUME NEW c \in Commands, ModifyMove(c) PROVE FreeListChain(S)'
  <2>1. pc = "idle" /\ Found(c)
        /\ slots' = [slots EXCEPT ![id_map[c.id].index] =
                                    Repositioned(slots[id_map[c.id].index], c)]
        /\ UNCHANGED <<next_free, free_head>>
    BY <1>6 DEF ModifyMove, Dequeue, ModifyRefused
  <2>2. PICK i \in Index : i = id_map[c.id].index /\ Live(i) /\ c \in Command
    BY <2>1, FoundOrder DEF Linked
  <2>3. slots[i] \in Order /\ next_seq \in Nat
    BY <1>0, <2>2, LiveIsOrder, MaxCommandsAssumption DEF TypeOK
  <2>4. Repositioned(slots[i], c) \in Order
    BY <2>2, <2>3 DEF Repositioned, Order, Command
  <2>5. \A j \in Index : Live(j)' <=> Live(j)
    BY <1>0, <2>1, <2>2, <2>4, UndefAssumption DEF TypeOK, PoolTypeOK, Live
  <2> QED BY <2>1, <2>5, ChainKept
<1>7. CASE UNCHANGED <<slots, next_free, free_head>>
  BY <1>7, ChainKept DEF Live
<1>8. ASSUME NEW c \in Commands, Start(c) PROVE FreeListChain(S)'
  <2>1. CASE AddReject(c) \/ AddAccept(c) \/ ModifyReject(c) \/ CancelMiss(c)
    BY <1>7, <2>1 DEF AddReject, AddAccept, ModifyReject, CancelMiss, poolVars
  <2> QED BY <1>2, <1>5, <1>6, <1>8, <2>1 DEF Start
<1>9. CASE \/ FokLevel \/ FokOrder \/ FokReject \/ FokPass \/ CrossStop \/ CrossDone
           \/ CrossResidual \/ RestLevel \/ RestFull \/ RestAppend
           \/ ModifyLevel \/ ModifyAppend
  BY <1>7, <1>9 DEF FokLevel, FokOrder, FokReject, FokPass, CrossStop, CrossDone,
     CrossResidual, RestLevel, RestFull, RestAppend, ModifyLevel, ModifyAppend,
     poolVars
<1>10. CASE UNCHANGED vars
  BY <1>7, <1>10 DEF vars, poolVars
<1> QED BY <1>1, <1>3, <1>4, <1>8, <1>9, <1>10 DEF Next, Step, Stopped

(* The pool holds every order, its free list is empty only when each of    *)
(* its slots holds one, and what allocate takes is one of them.            *)
LEMMA PoolHolds ==
  ASSUME NEW S, FreeListChain(S)
  PROVE  /\ \A i \in Index : Live(i) => i \in S
         /\ exhausted => \A i \in Index : i \in S => Live(i)
         /\ ~exhausted => free_head \in Index /\ free_head \in S
<1>1. PICK n, ch : n \in Nat /\ ch \in [1 .. n -> Index] /\ ChainOf(S, n, ch)
  BY DEF FreeListChain
<1>2. exhausted => n = 0
  BY <1>1, NilNotIndex DEF ChainOf, exhausted
<1>3. ~exhausted => n \in 1 .. n /\ free_head = ch[n]
  BY <1>1 DEF ChainOf, exhausted
<1> QED BY <1>1, <1>2, <1>3 DEF ChainOf

(* The chain is there in every state. *)
LEMMA ChainInvariance == Spec => [](IndInv /\ FreeListChain(Index))
<1>1. IndInv /\ FreeListChain(Index) /\ [Next]_vars => (IndInv /\ FreeListChain(Index))'
  BY ChainNext, NextInd
<1> QED BY <1>1, InitInd, ChainInit, PTL DEF Spec

(***************************************************************************)
(* The free list of the pool is exactly the slots without an order, each   *)
(* once, whatever the capacity: no sequence of commands leaks a slot,      *)
(* frees one twice, or puts one that holds an order on the list.           *)
(***************************************************************************)
THEOREM FreeListCorrect == Spec => []FreeListExact
<1>1. IndInv /\ FreeListChain(Index) => FreeListExact
  BY ChainIsExact
<1> QED BY <1>1, ChainInvariance, PTL

(***************************************************************************)
(* rest drops a residual for want of room only when every slot of the pool *)
(* holds an order.                                                         *)
(***************************************************************************)
THEOREM DropsOnlyWhenFull == Spec => DroppedOnlyWhenFull
<1> DEFINE Full == \A i \in Index : Live(i)
           A == Returns /\ result'.pool_exhausted => Full
<1>1. IndInv /\ FreeListChain(Index) /\ [Next]_vars => [A]_vars
  <2> SUFFICES ASSUME FreeListChain(Index), Next, Returns, result'.pool_exhausted
               PROVE  Full
    OBVIOUS
  <2>1. RestFull
    <3>1. ~Outcome(TRUE).pool_exhausted /\ ~Outcome(FALSE).pool_exhausted
      BY DEF Outcome
    <3>2. \A stp, resting : ~Accepted(stp, FALSE, resting).pool_exhausted
      BY DEF Accepted
    <3>3. ~\E c \in Commands : Start(c)
      BY DEF Returns, Start, AddReject, AddAccept, ModifyReject, ModifyInPlace,
             ModifyMove, CancelMiss, CancelOrder, Dequeue
    <3>4. ~(\/ FokLevel \/ FokOrder \/ FokPass \/ CrossPartial \/ CrossFull
            \/ CrossResidual \/ RestLevel \/ RestAllocate \/ ModifyLevel)
      BY DEF Returns, FokLevel, FokOrder, FokPass, CrossPartial, CrossFull,
             CrossResidual, RestLevel, RestAllocate, ModifyLevel, Goto
    <3>5. ~(\/ FokReject \/ CrossStop \/ CrossDone \/ RestAppend \/ ModifyAppend)
      BY <3>1, <3>2 DEF FokReject, CrossStop, CrossDone, RestAppend, ModifyAppend,
             Finish
    <3>6. ~Stopped
      BY DEF Returns, Stopped
    <3> QED BY <3>3, <3>4, <3>5, <3>6 DEF Next, Step
  <2> QED BY <2>1, PoolHolds DEF RestFull
<1> QED BY <1>1, ChainInvariance, PTL DEF Spec, DroppedOnlyWhenFull

-----------------------------------------------------------------------------
(* Room for the levels. *)

(***************************************************************************)
(* Levels that hold orders are no more than the slots of the pool: an      *)
(* order is at one price only.                                             *)
(***************************************************************************)
LEMMA HeldLevels ==
  ASSUME NEW side \in Side, NEW S \in SUBSET Price,
         \A p \in S : Queue(side, p) # {}
  PROVE  IsFiniteSet(S) /\ Cardinality(S) <= Capacity
<1> DEFINE f == [p \in S |-> CHOOSE i \in Index : i \in Queue(side, p)]
<1>1. \A p \in S : f[p] \in Index /\ f[p] \in Queue(side, p)
  BY DEF Queue
<1>2. \A p \in S : slots[f[p]].price = p
  BY <1>1 DEF Queue
<1>3. f \in Injection(S, Index)
  <2>1. f \in [S -> Index]
    BY <1>1
  <2>2. \A p, q \in S : f[p] = f[q] => p = q
    BY <1>2
  <2> HIDE DEF f
  <2> QED BY <2>1, <2>2 DEF Injection, IsInjective
<1>4. IsFiniteSet(Index) /\ Cardinality(Index) = Capacity
  BY FS_Interval, CapacityAssumption DEF Index
<1> QED
  <2> HIDE DEF f
  <2> QED BY <1>3, <1>4, FS_Injection

(***************************************************************************)
(* The constructor's Capacity + 1 levels per side are enough at every      *)
(* program point: get_or_insert never writes past its array, not even for  *)
(* the level rest makes before it learns that the pool is exhausted.       *)
(***************************************************************************)
THEOREM LevelsNeverOverflow == Spec => []LevelsFit
<1>1. IndInv => LevelsFit
  <2> SUFFICES ASSUME IndInv, NEW side \in Side
               PROVE  Cardinality(prices[side]) <= LevelRoom
    BY DEF LevelsFit
  <2> DEFINE pend == IF pc = "allocate" THEN cmd.price ELSE slots[idx].price
             S == prices[side] \ {pend}
  <2>1. prices[side] \in SUBSET Price /\ S \in SUBSET Price
    BY DEF IndInv, TypeOK
  <2>2. \A p \in S : Queue(side, p) # {}
    BY <2>1 DEF IndInv, LevelsHoldOrders
  <2>3. IsFiniteSet(S) /\ Cardinality(S) <= Capacity
    <3> HIDE DEF S
    <3> QED BY <2>1, <2>2, HeldLevels
  <2>4. Cardinality(S) \in Nat
    BY <2>3, FS_CardinalityType
  <2>5. /\ IsFiniteSet(S \cup {pend})
        /\ Cardinality(S \cup {pend}) <= Capacity + 1
    <3> HIDE DEF S, pend
    <3>1. /\ IsFiniteSet(S \cup {pend})
          /\ Cardinality(S \cup {pend}) =
               IF pend \in S THEN Cardinality(S) ELSE Cardinality(S) + 1
      BY <2>3, FS_AddElement
    <3> QED BY <2>3, <2>4, <3>1, CapacityAssumption
  <2>6. prices[side] \in SUBSET (S \cup {pend})
    OBVIOUS
  <2>7. Cardinality(prices[side]) <= Cardinality(S \cup {pend})
    <3> HIDE DEF S, pend
    <3> QED BY <2>5, <2>6, FS_Subset
  <2>8. /\ Cardinality(prices[side]) \in Nat
        /\ Cardinality(S \cup {pend}) \in Nat
    <3> HIDE DEF S, pend
    <3> QED BY <2>5, <2>6, FS_Subset, FS_CardinalityType
  <2> HIDE DEF S, pend
  <2> QED BY <2>5, <2>7, <2>8, CapacityAssumption DEF LevelRoom
<1> QED BY <1>1, Invariance, PTL


-----------------------------------------------------------------------------
(* Walking the list of a level from its head.                              *)

(* What walking a list from its head meets, step by step. *)
LEMMA ChainWalks ==
  ASSUME NEW head \in IndexOrNil, next_idx \in [Index -> IndexOrNil],
         NEW at, at = Chain(head)
  PROVE  /\ \A k \in 1 .. Capacity + 1 : at[k] \in IndexOrNil
         /\ at[1] = head
         /\ \A k \in 1 .. Capacity :
              at[k + 1] = IF at[k] = kNilIndex THEN kNilIndex
                                               ELSE next_idx[at[k]]
<1> DEFINE Walks(f) == f = [k \in 1 .. Capacity + 1 |->
                              IF k = 1 THEN head
                              ELSE IF f[k - 1] = kNilIndex THEN kNilIndex
                                   ELSE next_idx[f[k - 1]]]
<1>0. PICK step : step = [i \in IndexOrNil |-> IF i = kNilIndex THEN kNilIndex
                                                              ELSE next_idx[i]]
  OBVIOUS
<1>1. /\ Capacity \in Nat /\ step \in [IndexOrNil -> IndexOrNil]
      /\ \A i \in IndexOrNil : step[i] = IF i = kNilIndex THEN kNilIndex
                                                           ELSE next_idx[i]
  BY <1>0, CapacityAssumption DEF IndexOrNil
<1>2. PICK f \in [0 .. Capacity -> IndexOrNil] :
        f[0] = head /\ \A k \in 1 .. Capacity : f[k] = step[f[k - 1]]
  <2>1. Iterations(IndexOrNil, head, step, Capacity) # {}
    BY <1>1, IterationExists
  <2> QED BY <2>1 DEF Iterations
<1> DEFINE w == [k \in 1 .. Capacity + 1 |-> f[k - 1]]
<1>3. Walks(w)
  <2>1. ASSUME NEW k \in 1 .. Capacity + 1
        PROVE  w[k] = IF k = 1 THEN head
                      ELSE IF w[k - 1] = kNilIndex THEN kNilIndex
                           ELSE next_idx[w[k - 1]]
    <3>1. CASE k = 1
      BY <1>1, <1>2, <3>1
    <3>2. CASE k # 1
      <4>1. /\ k - 1 \in 1 .. Capacity /\ k - 1 \in 1 .. Capacity + 1
            /\ (k - 1) - 1 \in 0 .. Capacity
        BY <1>1, <3>2
      <4>2. w[k] = f[k - 1] /\ w[k - 1] = f[(k - 1) - 1]
            /\ f[(k - 1) - 1] \in IndexOrNil
        BY <1>2, <4>1
      <4>3. f[k - 1] = step[f[(k - 1) - 1]]
        BY <1>2, <4>1
      <4> QED BY <1>1, <3>2, <4>2, <4>3
    <3> QED BY <3>1, <3>2
  <2> QED BY <2>1
<1>4. at = CHOOSE g : Walks(g)
  BY DEF Chain
<1>5. Walks(at)
  <2> HIDE DEF Walks, w
  <2> QED BY <1>3, <1>4
<1>6. at[1] = head
  BY <1>1, <1>5
<1>7. ASSUME NEW k \in 1 .. Capacity
      PROVE  at[k + 1] = IF at[k] = kNilIndex THEN kNilIndex
                                              ELSE next_idx[at[k]]
  <2>1. PICK j \in 1 .. Capacity + 1 : j = k + 1 /\ j # 1 /\ j - 1 = k
    BY <1>1
  <2> HIDE DEF w
  <2> QED BY <1>5, <2>1, ZenonT(40)
<1>8. ASSUME NEW k \in 1 .. Capacity + 1 PROVE at[k] \in IndexOrNil
  <2> DEFINE S == {j \in 0 .. Capacity : at[j + 1] \in IndexOrNil}
  <2>1. 0 \in S
    BY <1>1, <1>6
  <2>2. ASSUME NEW j \in 1 .. Capacity, j - 1 \in S PROVE j \in S
    <3>1. at[j] \in IndexOrNil
      BY <1>1, <2>2
    <3>2. at[j + 1] \in IndexOrNil
      BY <1>1, <1>7, <3>1 DEF IndexOrNil
    <3> QED BY <1>1, <3>2
  <2>3. k - 1 \in 0 .. Capacity /\ (k - 1) + 1 = k
    BY <1>1
  <2>4. k - 1 \in S
    <3> HIDE DEF S
    <3> QED BY <1>1, <2>1, <2>2, <2>3, Reaches
  <2> QED BY <2>3, <2>4
<1> QED BY <1>6, <1>7, <1>8

(* at lists the n orders of Q from the oldest to the tail, with the links  *)
(* between them.                                                           *)
Enumerates(Q, at, n, tail) ==
  /\ n \in 0 .. Capacity
  /\ n # 0 => tail = at[n]
  /\ \A k \in 1 .. Capacity + 1 : at[k] # kNilIndex <=> k <= n
  /\ \A k \in 1 .. n : at[k] \in Q
  /\ \A j, k \in 1 .. n : j < k => Earlier(at[j], at[k])
  /\ \A i \in Q : \E k \in 1 .. n : at[k] = i
  /\ \A k \in 1 .. n : prev_idx[at[k]] = IF k = 1 THEN kNilIndex ELSE at[k - 1]

(* The walk of a list never goes back in time. *)
LEMMA ChainAscends ==
  ASSUME TypeOK, QueuesInTimeOrder, SeqNosOrdered,
         NEW s \in Side, NEW p \in Price,
         NEW at, at = Chain(level[s][p].head)
  PROVE  /\ \A k \in 1 .. Capacity + 1 :
              at[k] # kNilIndex => at[k] \in Queue(s, p)
         /\ \A k \in 1 .. Capacity + 1 : at[k] # kNilIndex =>
              \A j \in 1 .. k - 1 : /\ at[j] # kNilIndex
                                    /\ Earlier(at[j], at[k])
<1> DEFINE Q == Queue(s, p)
           T == {k \in 0 .. Capacity : at[k + 1] # kNilIndex => at[k + 1] \in Q}
           S == {k \in 0 .. Capacity : at[k + 1] # kNilIndex =>
                   \A j \in 1 .. k : /\ at[j] # kNilIndex
                                     /\ Earlier(at[j], at[k + 1])}
<1>1. /\ Capacity \in Nat
      /\ at[1] = level[s][p].head
      /\ \A k \in 1 .. Capacity :
           at[k + 1] = IF at[k] = kNilIndex THEN kNilIndex ELSE next_idx[at[k]]
  <2>1. level[s][p].head \in IndexOrNil /\ next_idx \in [Index -> IndexOrNil]
    BY DEF TypeOK, LevelTypeOK, LevelObject, PoolTypeOK
  <2> QED BY <2>1, ChainWalks, CapacityAssumption
<1>2. /\ \A i \in Q : Links(Q, i, next_idx[i], Earlier)
      /\ First(Q, level[s][p].head, Earlier)
  BY DEF QueuesInTimeOrder
<1>3. \A i, j, k \in Q : Earlier(i, j) /\ Earlier(j, k) => Earlier(i, k)
  BY TimeOrder
<1> HIDE DEF Q
<1>4. 0 \in T /\ 0 \in S
  BY <1>1, <1>2 DEF First
<1>5. ASSUME NEW k \in 1 .. Capacity, k - 1 \in T PROVE k \in T
  <2>1. (k - 1) + 1 = k /\ k \in 0 .. Capacity
    BY <1>1
  <2>2. at[k] # kNilIndex => at[k] \in Q
    BY <1>5, <2>1
  <2> QED BY <1>1, <1>2, <2>1, <2>2 DEF Links
<1>6. \A k \in 0 .. Capacity : k \in T
  <2> HIDE DEF T
  <2> QED BY <1>1, <1>4, <1>5, Reaches
<1>7. ASSUME NEW k \in 1 .. Capacity + 1, at[k] # kNilIndex PROVE at[k] \in Q
  <2>1. PICK m \in 0 .. Capacity : m = k - 1 /\ m + 1 = k
    BY <1>1
  <2> QED BY <1>6, <1>7, <2>1
<1>8. ASSUME NEW k \in 1 .. Capacity, k - 1 \in S, at[k + 1] # kNilIndex
      PROVE  \A j \in 1 .. k : at[j] # kNilIndex /\ Earlier(at[j], at[k + 1])
  <2>1. (k - 1) + 1 = k /\ k \in 1 .. Capacity + 1 /\ k + 1 \in 1 .. Capacity + 1
    BY <1>1
  <2>2. at[k] # kNilIndex /\ at[k + 1] = next_idx[at[k]]
    BY <1>1, <1>8
  <2>3. at[k] \in Q /\ at[k + 1] \in Q
    BY <1>7, <1>8, <2>1, <2>2
  <2>4. Earlier(at[k], at[k + 1])
    BY <1>2, <1>8, <2>2, <2>3 DEF Links
  <2>5. ASSUME NEW j \in 1 .. k - 1
        PROVE  at[j] # kNilIndex /\ Earlier(at[j], at[k + 1])
    <3>1. at[j] # kNilIndex /\ Earlier(at[j], at[k])
      BY <1>8, <2>1, <2>2
    <3>2. j \in 1 .. Capacity + 1
      BY <1>1
    <3>3. at[j] \in Q
      BY <1>7, <3>1, <3>2
    <3> QED BY <1>3, <2>3, <2>4, <3>1, <3>3
  <2> QED BY <2>2, <2>4, <2>5
<1>9. \A k \in 0 .. Capacity : k \in S
  <2>1. \A k \in 1 .. Capacity : k - 1 \in S => k \in S
    BY <1>1, <1>8, SMTT(30)
  <2> HIDE DEF S
  <2> QED BY <1>1, <1>4, <2>1, Reaches
<1>10. ASSUME NEW k \in 1 .. Capacity + 1, at[k] # kNilIndex
       PROVE  \A j \in 1 .. k - 1 : at[j] # kNilIndex /\ Earlier(at[j], at[k])
  <2>1. PICK m \in 0 .. Capacity : m = k - 1 /\ m + 1 = k
    BY <1>1
  <2> QED BY <1>9, <1>10, <2>1
<1> QED BY <1>7, <1>10 DEF Q

(***************************************************************************)
(* Walking a list from its head meets every order of that price once, in   *)
(* the order of arrival, and ends at the tail: it cannot go on for longer  *)
(* than there are slots.                                                   *)
(***************************************************************************)
LEMMA ChainEnumerates ==
  ASSUME TypeOK, QueuesInTimeOrder, SeqNosOrdered,
         NEW s \in Side, NEW p \in Price,
         NEW at, at = Chain(level[s][p].head)
  PROVE  \E n \in 0 .. Capacity :
           Enumerates(Queue(s, p), at, n, level[s][p].tail)
<1> DEFINE Q == Queue(s, p)
<1>1. /\ Capacity \in Nat
      /\ at[1] = level[s][p].head
      /\ \A k \in 1 .. Capacity :
           at[k + 1] = IF at[k] = kNilIndex THEN kNilIndex ELSE next_idx[at[k]]
  <2>1. level[s][p].head \in IndexOrNil /\ next_idx \in [Index -> IndexOrNil]
    BY DEF TypeOK, LevelTypeOK, LevelObject, PoolTypeOK
  <2> QED BY <2>1, ChainWalks, CapacityAssumption
<1>2. /\ \A i \in Q : /\ Links(Q, i, next_idx[i], Earlier)
                      /\ Links(Q, i, prev_idx[i], Later)
      /\ First(Q, level[s][p].head, Earlier)
      /\ First(Q, level[s][p].tail, Later)
  BY DEF QueuesInTimeOrder
<1>3. /\ \A i \in Q : ~Earlier(i, i)
      /\ \A i, j \in Q : i # j => (Earlier(i, j) <=> ~Earlier(j, i))
      /\ \A i, j, k \in Q : Earlier(i, j) /\ Earlier(j, k) => Earlier(i, k)
  BY TimeOrder
<1>4. /\ \A k \in 1 .. Capacity + 1 : at[k] # kNilIndex => at[k] \in Q
      /\ \A k \in 1 .. Capacity + 1 : at[k] # kNilIndex =>
           \A j \in 1 .. k - 1 : at[j] # kNilIndex /\ Earlier(at[j], at[k])
  BY ChainAscends
<1>5. Q \subseteq Index /\ IsFiniteSet(Index) /\ Cardinality(Index) = Capacity
  BY FS_Interval, CapacityAssumption DEF Index, Queue
<1> HIDE DEF Q
<1>6. at[Capacity + 1] = kNilIndex
  <2> SUFFICES ASSUME at[Capacity + 1] # kNilIndex PROVE FALSE
    OBVIOUS
  <2> DEFINE f == [k \in 1 .. Capacity + 1 |-> at[k]]
  <2>1. Capacity + 1 \in 1 .. Capacity + 1
    BY <1>1
  <2>2. \A k \in 1 .. Capacity + 1 : at[k] # kNilIndex
    BY <1>1, <1>4, <2>1
  <2>3. f \in [1 .. Capacity + 1 -> Index]
    BY <1>4, <1>5, <2>2
  <2>4. \A k \in 1 .. Capacity + 1 : f[k] = at[k]
    OBVIOUS
  <2> HIDE DEF f
  <2>5. ASSUME NEW j \in 1 .. Capacity + 1, NEW k \in 1 .. Capacity + 1,
               at[j] = at[k]
        PROVE  j = k
    <3>1. at[j] \in Q
      BY <1>4, <2>2
    <3>2. CASE j < k
      BY <1>1, <1>3, <1>4, <2>2, <2>5, <3>1, <3>2
    <3>3. CASE k < j
      BY <1>1, <1>3, <1>4, <2>2, <2>5, <3>1, <3>3
    <3> QED BY <1>1, <3>2, <3>3
  <2>6. f \in Injection(1 .. Capacity + 1, Index)
    BY <2>3, <2>4, <2>5 DEF Injection, IsInjective
  <2>7. Cardinality(1 .. Capacity + 1) <= Cardinality(Index)
    BY <1>5, <2>6, FS_Injection
  <2>8. Cardinality(1 .. Capacity + 1) = Capacity + 1
    <3>1. 1 \in Int /\ Capacity + 1 \in Int /\ ~(1 > Capacity + 1)
          /\ (Capacity + 1) - 1 + 1 = Capacity + 1
      BY <1>1
    <3> QED BY <3>1, FS_Interval
  <2> QED BY <1>1, <1>5, <2>7, <2>8
<1>7. PICK n \in 0 .. Capacity :
        \A k \in 1 .. Capacity + 1 : at[k] # kNilIndex <=> k <= n
  <2> DEFINE D == {m \in Nat : m \in 1 .. Capacity + 1 /\ at[m] = kNilIndex}
             Below == OpToRel(<, Nat)
  <2>1. Capacity + 1 \in D /\ D \subseteq Nat
    BY <1>1, <1>6
  <2>2. PICK m \in D : \A j \in D : ~(<<j, m>> \in Below)
    <3> HIDE DEF D, Below
    <3> QED BY <2>1, NatLessThanWellFounded, WFMin DEF Below
  <2>3. \A j \in D : ~(j < m)
    BY <2>1, <2>2 DEF OpToRel
  <2>4. m \in 1 .. Capacity + 1 /\ at[m] = kNilIndex /\ m - 1 \in 0 .. Capacity
    BY <1>1
  <2>5. ASSUME NEW k \in 1 .. Capacity + 1, k <= m - 1 PROVE at[k] # kNilIndex
    BY <1>1, <2>3, <2>4, <2>5
  <2>6. ASSUME NEW k \in 1 .. Capacity + 1, ~(k <= m - 1) PROVE at[k] = kNilIndex
    <3>1. CASE k = m
      BY <2>4, <3>1
    <3>2. CASE k # m
      <4>1. m \in 1 .. k - 1
        BY <1>1, <2>4, <2>6, <3>2
      <4> QED BY <1>4, <2>4, <4>1
    <3> QED BY <3>1, <3>2
  <2> QED BY <2>4, <2>5, <2>6
<1>8. n \in Nat /\ \A k \in 1 .. n : /\ k \in 1 .. Capacity + 1
                                     /\ k \in 1 .. Capacity
                                     /\ k - 1 \in 0 .. Capacity
                                     /\ at[k] # kNilIndex /\ at[k] \in Q
  BY <1>1, <1>4, <1>7
<1>9. \A j, k \in 1 .. n : j < k => Earlier(at[j], at[k])
  BY <1>4, <1>8
<1>10. n # 0 => /\ n \in 1 .. n /\ n \in 1 .. Capacity /\ next_idx[at[n]] = kNilIndex
  <2> SUFFICES ASSUME n # 0
               PROVE  n \in 1 .. n /\ n \in 1 .. Capacity
                      /\ next_idx[at[n]] = kNilIndex
    OBVIOUS
  <2>1. n \in 1 .. n /\ n \in 1 .. Capacity /\ n + 1 \in 1 .. Capacity + 1
        /\ ~(n + 1 <= n)
    BY <1>1, <1>7, <1>8
  <2>2. at[n + 1] = kNilIndex /\ at[n] # kNilIndex
    BY <1>7, <1>8, <2>1
  <2> QED BY <1>1, <2>1, <2>2
<1>11. ASSUME NEW i \in Q PROVE \E k \in 1 .. n : at[k] = i
  <2> SUFFICES ASSUME \A k \in 1 .. n : at[k] # i PROVE FALSE
    OBVIOUS
  <2> DEFINE S == {k \in 0 .. Capacity : /\ at[k + 1] # kNilIndex
                                         /\ Earlier(at[k + 1], i)}
  <2>1. ASSUME NEW k \in 1 .. Capacity + 1, at[k] # kNilIndex
        PROVE  at[k] # i /\ at[k] \in Q
    BY <1>1, <1>4, <1>7, <2>1
  <2>2. 0 \in S
    <3>1. at[1] # kNilIndex
      BY <1>1, <1>2 DEF First
    <3>2. at[1] # i
      BY <1>1, <2>1, <3>1
    <3> QED BY <1>1, <1>2, <3>1, <3>2 DEF First
  <2>3. ASSUME NEW k \in 1 .. Capacity, k - 1 \in S PROVE k \in S
    <3>1. (k - 1) + 1 = k /\ k \in 1 .. Capacity + 1 /\ k + 1 \in 1 .. Capacity + 1
      BY <1>1
    <3>2. at[k] # kNilIndex /\ Earlier(at[k], i)
      BY <2>3, <3>1
    <3>3. at[k + 1] = next_idx[at[k]] /\ at[k] \in Q /\ ~Earlier(i, at[k])
          /\ at[k] # i
      BY <1>1, <1>3, <2>1, <3>1, <3>2
    <3>4. at[k + 1] # kNilIndex
      BY <1>2, <3>3 DEF Links
    <3>5. at[k + 1] # i
      BY <2>1, <3>1, <3>4
    <3>6. Earlier(at[k + 1], i)
      BY <1>2, <3>3, <3>4, <3>5 DEF Links
    <3> QED BY <1>1, <3>4, <3>6
  <2>4. Capacity \in S
    <3> HIDE DEF S
    <3> QED BY <1>1, <2>2, <2>3, Reaches
  <2> QED BY <1>6, <2>4
<1>12. ASSUME NEW k \in 1 .. n
       PROVE  prev_idx[at[k]] = IF k = 1 THEN kNilIndex ELSE at[k - 1]
  <2>1. at[k] \in Q /\ Links(Q, at[k], prev_idx[at[k]], Later)
    BY <1>2, <1>8
  <2>2. CASE k = 1
    <3>1. \A j \in Q \ {at[1]} : Earlier(at[1], j)
      BY <1>1, <1>2, <1>8, <2>2 DEF First
    <3> QED BY <1>3, <2>1, <2>2, <3>1 DEF Links, Later
  <2>3. CASE k # 1
    <3>1. PICK j \in 1 .. n : j = k - 1 /\ j + 1 = k /\ j \in 1 .. Capacity
      BY <1>1, <1>8, <2>3
    <3>2. /\ at[j] \in Q /\ at[k] = next_idx[at[j]] /\ at[k] # kNilIndex
          /\ Links(Q, at[j], at[k], Earlier)
      BY <1>1, <1>2, <1>8, <3>1
    <3>3. PICK x, y : x = at[j] /\ y = at[k]
      OBVIOUS
    <3>4. /\ x \in Q /\ y \in Q /\ Earlier(x, y) /\ ~Earlier(y, x) /\ x # y
          /\ \A q \in Q \ {x, y} : Earlier(q, x) \/ Earlier(y, q)
      BY <1>3, <3>2, <3>3 DEF Links
    <3>5. PICK w : w = prev_idx[y]
      OBVIOUS
    <3>6. Links(Q, y, w, Later)
      BY <2>1, <3>3, <3>5
    <3>7. w # kNilIndex
      BY <3>4, <3>6 DEF Links, Later
    <3>8. /\ w \in Q /\ w # y /\ Earlier(w, y) /\ ~Earlier(y, w)
          /\ \A q \in Q \ {y, w} : Earlier(y, q) \/ Earlier(q, w)
      <4>1. /\ w \in Q /\ w # y /\ Earlier(w, y)
            /\ \A q \in Q \ {y, w} : Earlier(y, q) \/ Earlier(q, w)
        BY <3>6, <3>7 DEF Links, Later
      <4>2. ~Earlier(y, w)
        BY <1>3, <3>4, <4>1
      <4> QED BY <4>1, <4>2
    <3>9. w = x
      BY <1>3, <3>4, <3>8
    <3> QED BY <2>3, <3>1, <3>3, <3>5, <3>9
  <2> QED BY <2>2, <2>3
<1>13. n # 0 => level[s][p].tail = at[n]
  <2> SUFFICES ASSUME n # 0 PROVE level[s][p].tail = at[n]
    OBVIOUS
  <2>1. PICK x, t : x = at[n] /\ t = level[s][p].tail
    OBVIOUS
  <2>2. x \in Q /\ next_idx[x] = kNilIndex
    BY <1>8, <1>10, <2>1
  <2>3. \A j \in Q \ {x} : Earlier(j, x)
    BY <1>2, <2>2 DEF Links
  <2>4. t \in Q /\ \A j \in Q \ {t} : Earlier(j, t)
    BY <1>2, <2>1, <2>2 DEF First, Later
  <2>5. t = x
    BY <1>3, <2>2, <2>3, <2>4
  <2> QED BY <2>1, <2>5
<1>14. Enumerates(Q, at, n, level[s][p].tail)
  BY <1>7, <1>8, <1>9, <1>11, <1>12, <1>13 DEF Enumerates
<1> QED BY <1>14 DEF Q
=============================================================================
