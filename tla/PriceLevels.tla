---------------------------- MODULE PriceLevels -----------------------------
(***************************************************************************)
(* One side of the book, include/engine/price_levels.hpp: its levels in a  *)
(* fixed array sorted worst to best, so that the best one is the last.     *)
(* Cells past count_ keep what they last held.                             *)
(*                                                                         *)
(* The caller is Book: it erases or pops only levels it has emptied, and   *)
(* has at most one level without orders, the one rest has just asked for.  *)
(* A list of orders is one value here; Level and Book model what is in it. *)
(***************************************************************************)
EXTENDS Integers, FiniteSets

CONSTANTS PriceMin, PriceMax, \* the ends of the price range
          Lists,              \* the lists of orders a level may hold
          EmptyList,          \* the list of a level with no orders
          Absent,             \* no level at this price
          Capacity            \* the pool's capacity

ASSUME RangeAssumption == PriceMin \in Int /\ PriceMax \in Int

ASSUME CapacityAssumption == Capacity \in Nat

ASSUME ListsAssumption == /\ EmptyList \notin Lists
                          /\ Absent \notin Lists \cup {EmptyList}

VARIABLES side,               \* Best: which end of the price axis is best
          levels,             \* levels_
          count,              \* count_
          answer              \* the last operation's argument, and what it gave

vars == <<side, levels, count, answer>>

-----------------------------------------------------------------------------

Price == PriceMin .. PriceMax

(* Fault: no room for the level rest makes before it asks the pool. *)
MaxLevelsTight == Capacity

(* Book gives each side as many levels as the pool has orders, and one. *)
MaxLevels == Capacity + 1

(* A cell that was never written holds a default Level. *)
Cell == [price: Price \cup {0}, list: Lists \cup {EmptyList}]

better(a, b) == IF side = "High" THEN a > b ELSE a < b

TypeOK == /\ side \in {"High", "Low"}
          /\ levels \in [0 .. MaxLevels - 1 -> Cell]
          /\ count \in 0 .. MaxLevels

Nothing == <<>>

Init == /\ side \in {"High", "Low"}
        /\ levels = [i \in 0 .. MaxLevels - 1 |->
                       [price |-> 0, list |-> EmptyList]]
        /\ count = 0
        /\ answer = Nothing

(* Fault: the arguments of the comparison are exchanged. *)
LowerSwapped(p) ==
  CHOOSE i \in 0 .. count :
    /\ i = count \/ ~better(levels[i].price, p)
    /\ \A j \in 0 .. i - 1 : better(levels[j].price, p)

(* lower_bound: the first element that is not worse than the price. *)
Lower(p) ==
  CHOOSE i \in 0 .. count :
    /\ i = count \/ ~better(p, levels[i].price)
    /\ \A j \in 0 .. i - 1 : better(p, levels[j].price)

Holds(i, p) == i # count /\ levels[i].price = p

(* The caller, who asked for a, looks at the level of cell i. *)
See(a, i) == answer' = <<a, levels[i].price, levels[i].list>>

-----------------------------------------------------------------------------

find(p) ==
  /\ UNCHANGED <<side, levels, count>>
  /\ IF Holds(Lower(p), p) THEN See(p, Lower(p)) ELSE answer' = <<p>>

(* best() is by_rank(0). *)
by_rank(rank) ==
  /\ rank < count
  /\ UNCHANGED <<side, levels, count>>
  /\ See(rank, count - 1 - rank)

(* The number of levels that hold orders. *)
Busy == Cardinality({i \in 0 .. count - 1 : levels[i].list # EmptyList})

(* rest and modify_order ask for a level only when every level has orders. *)
get_or_insert_hit(p) ==
  /\ Busy = count
  /\ Holds(Lower(p), p)
  /\ UNCHANGED <<side, levels, count>>
  /\ See(p, Lower(p))

(* The array with a new level at i and the elements from i on moved up. *)
ShiftedUp(i, p) ==
  [j \in 0 .. MaxLevels - 1 |->
     CASE j = i -> [price |-> p, list |-> EmptyList]
       [] j > i /\ j <= count -> levels[j - 1]
       [] OTHER -> levels[j]]

get_or_insert_new(p) ==
  /\ Busy = count
  /\ ~Holds(Lower(p), p)
  /\ levels' = ShiftedUp(Lower(p), p)
  /\ count' = count + 1
  /\ answer' = <<p, p, EmptyList>>
  /\ UNCHANGED side

(* The caller appends or removes an order through a reference it got for   *)
(* this price; the pool limits how many levels can hold orders.            *)
write(p, l) ==
  /\ Holds(Lower(p), p)
  /\ l # EmptyList /\ levels[Lower(p)].list = EmptyList => Busy < Capacity
  /\ l = EmptyList => Busy = count
  /\ levels' = [levels EXCEPT ![Lower(p)].list = l]
  /\ answer' = Nothing
  /\ UNCHANGED <<side, count>>

(* Fault: the last level is dropped, whichever was to go. *)
ShiftedDownNot(i) == levels

(* The array with the elements behind i moved down by one. *)
ShiftedDown(i) ==
  [j \in 0 .. MaxLevels - 1 |->
     IF j >= i /\ j < count - 1 THEN levels[j + 1] ELSE levels[j]]

erase(p) ==
  /\ Holds(Lower(p), p)
  /\ levels[Lower(p)].list = EmptyList
  /\ levels' = ShiftedDown(Lower(p))
  /\ count' = count - 1
  /\ answer' = Nothing
  /\ UNCHANGED side

pop_best ==
  /\ count > 0
  /\ levels[count - 1].list = EmptyList
  /\ count' = count - 1
  /\ answer' = Nothing
  /\ UNCHANGED <<side, levels>>

-----------------------------------------------------------------------------

Next == \/ \E p \in Price : \/ find(p)
                            \/ get_or_insert_hit(p)
                            \/ get_or_insert_new(p)
                            \/ erase(p)
                            \/ \E l \in Lists \cup {EmptyList} : write(p, l)
        \/ \E rank \in 0 .. MaxLevels - 1 : by_rank(rank)
        \/ pop_best

Spec == Init /\ [][Next]_vars

-----------------------------------------------------------------------------
(* Properties. *)

(***************************************************************************)
(* The levels in use are in strict order, worst first, with no price       *)
(* twice: what the binary search and best() rely on.                       *)
(***************************************************************************)
Sorted == \A i, j \in 0 .. count - 1 :
            i < j => better(levels[j].price, levels[i].price)

Map == [p \in Price |->
          LET S == {i \in 0 .. count - 1 : levels[i].price = p}
          IN  IF S = {} THEN Absent ELSE levels[CHOOSE i \in S : TRUE].list]

Abstract == INSTANCE LevelMap
              WITH map <- Map, List <- Lists \cup {EmptyList}

(***************************************************************************)
(* The array is a map from prices to lists of orders, ranked from best to  *)
(* worst: shifting cells for an insertion or a removal in the middle never *)
(* loses, doubles or exchanges the orders of another price.                *)
(***************************************************************************)
ImplementsLevelMap == Abstract!MapSpec
=============================================================================
