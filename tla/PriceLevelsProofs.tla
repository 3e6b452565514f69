------------------------- MODULE PriceLevelsProofs --------------------------
(***************************************************************************)
(* One side of the book proved for every range of prices and every         *)
(* capacity: the array stays sorted and never overflows, and it implements *)
(* the map from prices to lists of LevelMap.                               *)
(***************************************************************************)
EXTENDS PriceLevels, FiniteSetTheorems, WellFoundedInduction, TLAPS

(* The cells in use. *)
Used == 0 .. count - 1

(* The cells whose level holds orders. *)
BusyCells == {i \in Used : levels[i].list # EmptyList}

(***************************************************************************)
(* What keeps get_or_insert within the array: it is asked for a level only *)
(* when every level holds orders, and no more levels than the pool has     *)
(* slots can hold any.                                                     *)
(***************************************************************************)
RoomLeft == Busy <= Capacity

(* A cell in use has been given a price. *)
Priced == \A i \in Used : levels[i].price \in Price

IndInv == /\ TypeOK
          /\ Sorted
          /\ Priced
          /\ RoomLeft

(* A set of naturals that is not empty has a least element. *)
LEMMA LeastOf ==
  ASSUME NEW S \in SUBSET Nat, S # {}
  PROVE  \E n \in S : \A m \in S : n <= m
<1> DEFINE Below == OpToRel(<, Nat)
<1>1. PICK n \in S : \A m \in S : ~(<<m, n>> \in Below)
  BY NatLessThanWellFounded, WFMin
<1>2. \A m \in S : ~(m < n)
  BY <1>1 DEF OpToRel
<1> QED BY <1>2

(* Two cells in use with the same price are one. *)
LEMMA NoPriceTwice ==
  ASSUME IndInv, NEW i \in Used, NEW j \in Used,
         levels[i].price = levels[j].price
  PROVE  i = j
<1>1. i \in Int /\ j \in Int /\ levels[i].price \in Int
  BY RangeAssumption DEF IndInv, TypeOK, Used, Priced, Price
<1> QED BY <1>1 DEF IndInv, Sorted, Used, better

(***************************************************************************)
(* What std::lower_bound finds: the levels before it are worse than the    *)
(* price, those from it on are not.                                        *)
(***************************************************************************)
LEMMA LowerBound ==
  ASSUME IndInv, NEW p \in Price
  PROVE  /\ Lower(p) \in 0 .. count
         /\ \A j \in Used : j < Lower(p) => better(p, levels[j].price)
         /\ \A j \in Used : j >= Lower(p) => ~better(p, levels[j].price)
<1>1. /\ count \in Nat /\ side \in {"High", "Low"} /\ p \in Int
      /\ \A j \in Used : levels[j].price \in Int
  BY RangeAssumption, CapacityAssumption DEF IndInv, TypeOK, MaxLevels, Priced, Price
<1> DEFINE NotWorse == {i \in 0 .. count : i = count \/ ~better(p, levels[i].price)}
<1>2. NotWorse \in SUBSET Nat /\ count \in NotWorse
  BY <1>1
<1>3. PICK i \in NotWorse : \A m \in NotWorse : i <= m
  <2> HIDE DEF NotWorse
  <2> QED BY <1>2, LeastOf
<1>4. /\ i \in 0 .. count
      /\ i = count \/ ~better(p, levels[i].price)
      /\ \A j \in 0 .. i - 1 : better(p, levels[j].price)
  <2>1. \A j \in 0 .. i - 1 : j \in 0 .. count /\ j # count /\ ~(i <= j)
    BY <1>1, <1>3
  <2> QED BY <1>3, <2>1
<1> DEFINE L == Lower(p)
<1>5. /\ L \in 0 .. count
      /\ L = count \/ ~better(p, levels[L].price)
      /\ \A j \in 0 .. L - 1 : better(p, levels[j].price)
  BY <1>4 DEF Lower
<1> HIDE DEF L
<1>6. ASSUME NEW j \in Used, j >= L PROVE ~better(p, levels[j].price)
  <2>1. L \in Used /\ L # count
    BY <1>1, <1>5, <1>6 DEF Used
  <2>2. j = L \/ better(levels[j].price, levels[L].price)
    BY <1>1, <1>5, <1>6, <2>1 DEF IndInv, Sorted, Used
  <2> QED BY <1>1, <1>5, <2>1, <2>2 DEF better
<1>7. \A j \in Used : j < L => j \in 0 .. L - 1
  BY <1>1, <1>5 DEF Used
<1> QED BY <1>5, <1>6, <1>7 DEF L

(* lower_bound finds the level of a price if there is one. *)
LEMMA LowerFinds ==
  ASSUME IndInv, NEW p \in Price
  PROVE  /\ Holds(Lower(p), p) => Lower(p) \in Used
         /\ ~Holds(Lower(p), p) => \A j \in Used : levels[j].price # p
<1>1. /\ count \in Nat /\ side \in {"High", "Low"} /\ p \in Int
      /\ \A j \in Used : levels[j].price \in Int
  BY RangeAssumption, CapacityAssumption DEF IndInv, TypeOK, MaxLevels, Priced, Price
<1>2. Holds(Lower(p), p) => Lower(p) \in Used
  BY <1>1, LowerBound DEF Holds, Used
<1>3. ASSUME NEW j \in Used, levels[j].price = p PROVE Holds(Lower(p), p)
  <2>1. ~better(p, levels[j].price)
    BY <1>1, <1>3 DEF better
  <2>2. j >= Lower(p) /\ Lower(p) \in Used /\ Lower(p) # count
    BY <1>1, <2>1, LowerBound DEF Used
  <2>3. CASE j = Lower(p)
    BY <1>3, <2>2, <2>3 DEF Holds
  <2>4. CASE j # Lower(p)
    <3>1. better(levels[j].price, levels[Lower(p)].price)
      BY <1>1, <2>2, <2>4 DEF IndInv, Sorted, Used
    <3>2. ~better(p, levels[Lower(p)].price)
      BY <1>1, <2>2, LowerBound DEF Used
    <3> QED BY <1>3, <3>1, <3>2
  <2> QED BY <2>3, <2>4
<1> QED BY <1>2, <1>3

-----------------------------------------------------------------------------
(* The inductive invariant. *)

(* The integers the proofs below count with. *)
LEMMA CellTypes ==
  ASSUME IndInv
  PROVE  /\ count \in Nat /\ count <= MaxLevels /\ MaxLevels \in Nat
         /\ MaxLevels = Capacity + 1 /\ Capacity \in Nat
         /\ side \in {"High", "Low"}
         /\ Used \subseteq 0 .. MaxLevels - 1
         /\ \A j \in 0 .. MaxLevels - 1 : levels[j] \in Cell
         /\ \A j \in Used : levels[j].price \in Price /\ levels[j].price \in Int
         /\ IsFiniteSet(Used) /\ IsFiniteSet(BusyCells)
         /\ Busy = Cardinality(BusyCells) /\ Busy \in Nat /\ Busy <= Capacity
<1>1. /\ count \in Nat /\ count <= MaxLevels /\ MaxLevels \in Nat
      /\ MaxLevels = Capacity + 1 /\ Capacity \in Nat
      /\ side \in {"High", "Low"}
      /\ \A j \in 0 .. MaxLevels - 1 : levels[j] \in Cell
  BY CapacityAssumption DEF IndInv, TypeOK, MaxLevels
<1>2. Used \subseteq 0 .. MaxLevels - 1
  BY <1>1 DEF Used
<1>3. \A j \in Used : levels[j].price \in Price /\ levels[j].price \in Int
  BY RangeAssumption DEF IndInv, Priced, Price
<1>4. IsFiniteSet(Used)
  BY <1>1, FS_Interval DEF Used
<1>5. IsFiniteSet(BusyCells)
  BY <1>4, FS_Subset DEF BusyCells
<1>6. Busy = Cardinality(BusyCells)
  BY DEF Busy, BusyCells, Used
<1>7. Busy \in Nat /\ Busy <= Capacity
  BY <1>5, <1>6, FS_CardinalityType DEF IndInv, RoomLeft
<1> QED BY <1>1, <1>2, <1>3, <1>4, <1>5, <1>6, <1>7

LEMMA InitInd == Init => IndInv
<1> SUFFICES ASSUME Init PROVE IndInv
  OBVIOUS
<1>1. MaxLevels \in Nat /\ Capacity \in Nat /\ count = 0 /\ Used = {}
  BY CapacityAssumption DEF Init, MaxLevels, Used
<1>2. TypeOK
  BY <1>1 DEF Init, TypeOK, Cell
<1>3. Sorted /\ Priced
  BY <1>1 DEF Sorted, Priced, Used
<1>4. RoomLeft
  <2>1. Busy = Cardinality({})
    <3>1. {i \in 0 .. count - 1 : levels[i].list # EmptyList} = {}
      BY <1>1 DEF Used
    <3> QED BY <3>1 DEF Busy
  <2> QED BY <1>1, <2>1, FS_EmptySet DEF RoomLeft
<1> QED BY <1>2, <1>3, <1>4 DEF IndInv

(* A step that leaves the array alone. *)
LEMMA ArrayKept ==
  ASSUME IndInv, UNCHANGED <<side, levels, count>>
  PROVE  IndInv'
BY DEF IndInv, TypeOK, Sorted, Priced, RoomLeft, Busy, Used, better

(* What holds of the busy cells bounds their number. *)
LEMMA RoomKept ==
  ASSUME NEW S, IsFiniteSet(S), BusyCells' \subseteq S, Cardinality(S) <= Capacity
  PROVE  RoomLeft'
<1>1. IsFiniteSet(BusyCells') /\ Cardinality(BusyCells') <= Cardinality(S)
  BY FS_Subset
<1>2. Cardinality(BusyCells') \in Nat /\ Cardinality(S) \in Nat
  BY <1>1, FS_CardinalityType
<1>3. Busy' = Cardinality(BusyCells')
  BY DEF Busy, BusyCells, Used
<1> QED BY <1>1, <1>2, <1>3, CapacityAssumption DEF RoomLeft

(***************************************************************************)
(* Inserting at the lower bound keeps the order, and there is room: every  *)
(* level held orders.                                                      *)
(***************************************************************************)
LEMMA InsertInd ==
  ASSUME IndInv, NEW p \in Price, get_or_insert_new(p)
  PROVE  IndInv'
<1> DEFINE L == Lower(p)
<1>0. p \in Int
  BY RangeAssumption DEF Price
<1>1. /\ Busy = count /\ ~Holds(L, p)
      /\ levels' = ShiftedUp(L, p) /\ count' = count + 1 /\ side' = side
  BY DEF get_or_insert_new
<1>2. /\ L \in 0 .. count
      /\ \A j \in Used : levels[j].price # p
      /\ \A j \in Used : j < L => better(p, levels[j].price)
      /\ \A j \in Used : j >= L => ~better(p, levels[j].price)
  BY <1>1, LowerBound, LowerFinds
<1> HIDE DEF L
<1>3. count < MaxLevels /\ L \in Nat /\ count \in Nat
  BY <1>1, <1>2, CellTypes
<1>4. /\ levels' \in [0 .. MaxLevels - 1 -> Cell]
      /\ levels'[L] = [price |-> p, list |-> EmptyList]
      /\ \A j \in 0 .. L - 1 : j \in Used /\ levels'[j] = levels[j]
      /\ \A j \in L + 1 .. count : j - 1 \in Used /\ levels'[j] = levels[j - 1]
  <2>1. /\ \A j \in 0 .. L - 1 : j \in Used /\ j \in 0 .. MaxLevels - 1
        /\ \A j \in L + 1 .. count : j - 1 \in Used /\ j \in 0 .. MaxLevels - 1
        /\ \A j \in 0 .. MaxLevels - 1 :
             j > L /\ j <= count => j - 1 \in 0 .. MaxLevels - 1
        /\ L \in 0 .. MaxLevels - 1
    BY <1>2, <1>3, CellTypes DEF Used
  <2>2. [price |-> p, list |-> EmptyList] \in Cell
    BY DEF Cell
  <2>3. \A j \in 0 .. MaxLevels - 1 : levels[j] \in Cell
    BY CellTypes
  <2> QED BY <1>1, <1>2, <2>1, <2>2, <2>3, CellTypes DEF ShiftedUp
<1>5. Used' = 0 .. count
      /\ \A j \in 0 .. count : j = L \/ j \in 0 .. L - 1 \/ j \in L + 1 .. count
  BY <1>1, <1>2, CellTypes DEF Used
<1>6. TypeOK'
  BY <1>1, <1>3, <1>4, CellTypes DEF TypeOK, MaxLevels
<1>7. Priced'
  BY <1>4, <1>5, CellTypes DEF Priced
<1>8. Sorted'
  <2> SUFFICES ASSUME NEW i \in 0 .. count, NEW j \in 0 .. count, i < j
               PROVE  better(levels'[j].price, levels'[i].price)
    BY <1>1, CellTypes DEF Sorted, better
  <2>1. \A k, l \in Used : k < l => better(levels[l].price, levels[k].price)
    BY DEF IndInv, Sorted, Used
  <2>2. CASE j \in 0 .. L - 1
    <3>1. i \in 0 .. L - 1
      BY <1>3, <2>2
    <3> QED BY <1>4, <2>1, <2>2, <3>1
  <2>3. CASE j = L
    <3>1. i \in 0 .. L - 1 /\ i < L
      BY <2>3
    <3> QED BY <1>2, <1>4, <2>3, <3>1
  <2>4. CASE j \in L + 1 .. count
    <3>1. /\ levels'[j] = levels[j - 1] /\ j - 1 \in Used /\ j - 1 >= L
      BY <1>3, <1>4, <2>4
    <3>2. better(levels[j - 1].price, p)
      BY <1>0, <1>2, <3>1, CellTypes DEF better
    <3>3. CASE i = L
      BY <1>4, <3>1, <3>2, <3>3
    <3>4. CASE i \in 0 .. L - 1
      <4>1. i < j - 1 /\ i \in Used /\ levels'[i] = levels[i]
        BY <1>2, <1>4, <3>1, <3>4, CellTypes
      <4> QED BY <2>1, <3>1, <4>1
    <3>5. CASE i \in L + 1 .. count
      <4>1. i - 1 < j - 1 /\ i - 1 \in Used /\ levels'[i] = levels[i - 1]
        BY <1>2, <1>4, <3>1, <3>5, CellTypes
      <4> QED BY <2>1, <3>1, <4>1
    <3> QED BY <1>5, <3>3, <3>4, <3>5
  <2> QED BY <1>5, <2>2, <2>3, <2>4
<1>9. RoomLeft'
  <2>1. BusyCells' \subseteq (0 .. count) \ {L}
    BY <1>4, <1>5 DEF BusyCells
  <2>2. IsFiniteSet(0 .. count) /\ Cardinality(0 .. count) = count + 1
    BY CellTypes, FS_Interval
  <2>3. IsFiniteSet((0 .. count) \ {L}) /\ Cardinality((0 .. count) \ {L}) = count
    <3>1. /\ IsFiniteSet((0 .. count) \ {L})
          /\ Cardinality((0 .. count) \ {L}) = Cardinality(0 .. count) - 1
      BY <1>2, <2>2, FS_RemoveElement, Zenon
    <3> QED BY <1>3, <2>2, <3>1
  <2>4. count <= Capacity
    BY <1>1, CellTypes
  <2> QED BY <2>1, <2>3, <2>4, RoomKept
<1> QED BY <1>6, <1>7, <1>8, <1>9 DEF IndInv

(* Orders come and go in a level; the pool has room for no more. *)
LEMMA WriteInd ==
  ASSUME IndInv, NEW p \in Price, NEW l \in Lists \cup {EmptyList}, write(p, l)
  PROVE  IndInv'
<1> DEFINE L == Lower(p)
<1>1. /\ L \in Used
      /\ l # EmptyList /\ levels[L].list = EmptyList => Busy < Capacity
      /\ levels' = [levels EXCEPT ![L].list = l]
      /\ side' = side /\ count' = count
  BY LowerFinds DEF write
<1> HIDE DEF L
<1>2. /\ levels \in [0 .. MaxLevels - 1 -> Cell]
      /\ L \in 0 .. MaxLevels - 1 /\ Used' = Used
  BY <1>1, CellTypes DEF IndInv, TypeOK, Used
<1>3. /\ levels' \in [0 .. MaxLevels - 1 -> Cell]
      /\ \A j \in 0 .. MaxLevels - 1 : levels'[j].price = levels[j].price
      /\ \A j \in 0 .. MaxLevels - 1 : j # L => levels'[j].list = levels[j].list
  BY <1>1, <1>2 DEF Cell
<1>4. TypeOK'
  BY <1>1, <1>3 DEF IndInv, TypeOK, MaxLevels
<1>5. Sorted'
  <2>1. \A i, j \in Used : i < j => better(levels'[j].price, levels'[i].price)
    BY <1>3, CellTypes DEF IndInv, Sorted, Used
  <2> QED BY <1>1, <2>1 DEF Sorted, Used, better
<1>6. Priced'
  BY <1>2, <1>3, CellTypes DEF Priced
<1>7. RoomLeft'
  <2>1. CASE l # EmptyList /\ levels[L].list = EmptyList
    <3>1. BusyCells' \subseteq BusyCells \cup {L}
      BY <1>2, <1>3, CellTypes DEF BusyCells
    <3>2. /\ IsFiniteSet(BusyCells \cup {L})
          /\ Cardinality(BusyCells \cup {L}) = Busy + 1
      BY <2>1, FS_AddElement, CellTypes DEF BusyCells
    <3> QED BY <1>1, <2>1, <3>1, <3>2, RoomKept, CellTypes
  <2>2. CASE ~(l # EmptyList /\ levels[L].list = EmptyList)
    <3>1. levels'[L].list = l
      BY <1>1, <1>2 DEF Cell
    <3>2. BusyCells' \subseteq BusyCells
      BY <1>2, <1>3, <2>2, <3>1, CellTypes DEF BusyCells
    <3> QED BY <3>2, RoomKept, CellTypes
  <2> QED BY <2>1, <2>2
<1> QED BY <1>4, <1>5, <1>6, <1>7 DEF IndInv

(* Removing a level moves the better ones down. *)
LEMMA EraseInd ==
  ASSUME IndInv, NEW p \in Price, erase(p)
  PROVE  IndInv'
<1> DEFINE L == Lower(p)
           from(j) == IF j >= L THEN j + 1 ELSE j
<1>1. /\ L \in Used /\ levels' = ShiftedDown(L)
      /\ side' = side /\ count' = count - 1
  BY LowerFinds DEF erase
<1> HIDE DEF L
<1>2. /\ Used' = 0 .. count - 2
      /\ \A j \in Used' : from(j) \in Used /\ levels'[j] = levels[from(j)]
      /\ \A i, j \in Used' : i < j <=> from(i) < from(j)
  <2>1. Used' = 0 .. count - 2
    BY <1>1, CellTypes DEF Used
  <2>2. ASSUME NEW j \in Used'
        PROVE  /\ j \in 0 .. MaxLevels - 1 /\ j < count - 1 /\ j \in Int
               /\ from(j) \in Used
    BY <1>1, <2>1, CellTypes DEF Used
  <2>3. L \in Int
    BY <1>1 DEF Used
  <2> QED BY <1>1, <2>1, <2>2, <2>3 DEF ShiftedDown
<1>3. TypeOK'
  <2>1. \A j \in 0 .. MaxLevels - 1 :
          j >= L /\ j < count - 1 => j + 1 \in 0 .. MaxLevels - 1
    BY <1>1, CellTypes DEF Used
  <2>2. levels' \in [0 .. MaxLevels - 1 -> Cell]
    BY <1>1, <2>1, CellTypes DEF ShiftedDown
  <2>3. count - 1 \in 0 .. MaxLevels
    BY <1>1, CellTypes DEF Used
  <2> QED BY <1>1, <2>2, <2>3, CellTypes DEF TypeOK, MaxLevels
<1> HIDE DEF from
<1>4. Sorted'
  <2>1. ASSUME NEW i \in Used', NEW j \in Used', i < j
        PROVE  better(levels'[j].price, levels'[i].price)
    BY <1>2, <2>1 DEF IndInv, Sorted, Used
  <2> QED BY <1>1, <2>1 DEF Sorted, Used, better
<1>5. Priced'
  BY <1>2, CellTypes DEF Priced
<1>6. RoomLeft'
  <2> DEFINE f == [j \in BusyCells' |-> from(j)]
  <2>1. \A j \in BusyCells' : j \in Used' /\ j \in Int /\ from(j) \in BusyCells
    BY <1>2 DEF BusyCells
  <2>2. f \in [BusyCells' -> BusyCells]
    BY <2>1
  <2>3. \A i, j \in BusyCells' : f[i] = f[j] => i = j
    <3> SUFFICES ASSUME NEW i \in BusyCells', NEW j \in BusyCells', from(i) = from(j)
                 PROVE  i = j
      OBVIOUS
    <3>1. ~(from(i) < from(j)) /\ ~(from(j) < from(i))
      BY <1>2, <2>1, CellTypes
    <3> QED BY <1>2, <2>1, <3>1
  <2>4. f \in Injection(BusyCells', BusyCells)
    BY <2>2, <2>3 DEF Injection, IsInjective
  <2>5. IsFiniteSet(BusyCells') /\ Cardinality(BusyCells') <= Cardinality(BusyCells)
    <3> HIDE DEF f
    <3> QED BY <2>4, FS_Injection, CellTypes
  <2>6. Cardinality(BusyCells') \in Nat
    BY <2>5, FS_CardinalityType
  <2> QED BY <2>5, <2>6, RoomKept, CellTypes
<1> QED BY <1>3, <1>4, <1>5, <1>6 DEF IndInv

(* Removing the best level uncovers the others. *)
LEMMA PopInd ==
  ASSUME IndInv, pop_best
  PROVE  IndInv'
<1>1. /\ count > 0 /\ count' = count - 1 /\ side' = side /\ levels' = levels
      /\ Used' \subseteq Used
  BY CellTypes DEF pop_best, Used
<1>2. TypeOK'
  BY <1>1, CellTypes DEF IndInv, TypeOK, MaxLevels
<1>3. Sorted'
  <2>1. \A i, j \in Used' : i < j => better(levels[j].price, levels[i].price)
    BY <1>1 DEF IndInv, Sorted, Used
  <2> QED BY <1>1, <2>1 DEF Sorted, Used, better
<1>4. Priced' /\ BusyCells' \subseteq BusyCells
  BY <1>1, CellTypes DEF Priced, BusyCells
<1>5. RoomLeft'
  BY <1>4, RoomKept, CellTypes
<1> QED BY <1>2, <1>3, <1>4, <1>5 DEF IndInv

LEMMA NextInd == IndInv /\ [Next]_vars => IndInv'
<1> SUFFICES ASSUME IndInv, [Next]_vars PROVE IndInv'
  OBVIOUS
<1>1. ASSUME NEW p \in Price,
             \/ find(p) \/ get_or_insert_hit(p) \/ get_or_insert_new(p) \/ erase(p)
             \/ \E l \in Lists \cup {EmptyList} : write(p, l)
      PROVE  IndInv'
  <2>1. CASE find(p) \/ get_or_insert_hit(p)
    BY <2>1, ArrayKept DEF find, get_or_insert_hit
  <2> QED BY <1>1, <2>1, InsertInd, EraseInd, WriteInd
<1>2. ASSUME NEW rank, by_rank(rank) PROVE IndInv'
  BY <1>2, ArrayKept DEF by_rank
<1>3. CASE UNCHANGED vars
  BY <1>3, ArrayKept DEF vars
<1> QED BY <1>1, <1>2, <1>3, PopInd DEF Next

(***************************************************************************)
(* The array stays an array of levels, no more of them than it has cells,  *)
(* sorted, for every range of prices and every capacity of the pool.       *)
(***************************************************************************)
THEOREM Invariance == Spec => []IndInv
BY InitInd, NextInd, PTL DEF Spec

(* No operation writes a cell outside the array: count_ stays within the   *)
(* room the constructor of Book gives each side.                           *)
THEOREM TypeCorrect == Spec => []TypeOK
<1>1. IndInv => TypeOK
  BY DEF IndInv
<1> QED BY <1>1, Invariance, PTL

(* The levels are always in strict order of their prices, worst first.     *)
THEOREM AlwaysSorted == Spec => []Sorted
<1>1. IndInv => Sorted
  BY DEF IndInv
<1> QED BY <1>1, Invariance, PTL

-----------------------------------------------------------------------------
(* The array implements the map. *)

(* What Map is, in terms of the cells in use. *)
MapIsArray ==
  /\ DOMAIN Map = Price /\ Map = [p \in Price |-> Map[p]]
  /\ \A i \in Used : Map[levels[i].price] = levels[i].list
  /\ \A p \in Price : (\A i \in Used : levels[i].price # p) => Map[p] = Absent

LEMMA MapReads == IndInv => MapIsArray
<1> SUFFICES ASSUME IndInv PROVE MapIsArray
  OBVIOUS
<1>1. DOMAIN Map = Price /\ Map = [p \in Price |-> Map[p]]
  BY DEF Map
<1>2. ASSUME NEW i \in Used PROVE Map[levels[i].price] = levels[i].list
  <2> DEFINE S == {j \in 0 .. count - 1 : levels[j].price = levels[i].price}
  <2>1. i \in S /\ levels[i].price \in Price
    BY CellTypes DEF Used
  <2>2. \A j \in S : j = i
    BY NoPriceTwice DEF Used
  <2>3. (CHOOSE j \in S : TRUE) = i /\ S # {}
    BY <2>1, <2>2
  <2>4. Map[levels[i].price] = IF S = {} THEN Absent
                               ELSE levels[CHOOSE j \in S : TRUE].list
    BY <2>1 DEF Map
  <2> HIDE DEF S
  <2> QED BY <2>3, <2>4
<1>3. ASSUME NEW p \in Price, \A i \in Used : levels[i].price # p
      PROVE  Map[p] = Absent
  BY <1>3 DEF Map, Used
<1> QED BY <1>1, <1>2, <1>3 DEF MapIsArray

(* A price has a level exactly where the array holds it. *)
LEMMA PresentIsHeld ==
  ASSUME IndInv
  PROVE  /\ Abstract!Present = {p \in Price : \E i \in Used : levels[i].price = p}
         /\ \A p \in Price : Holds(Lower(p), p) <=> p \in Abstract!Present
         /\ \A p \in Price : Holds(Lower(p), p) =>
              Lower(p) \in Used /\ levels[Lower(p)].price = p
              /\ Map[p] = levels[Lower(p)].list
<1>1. \A i \in Used : levels[i].list # Absent /\ levels[i].price \in Price
  BY CellTypes, ListsAssumption DEF Cell
<1>2. Abstract!Present = {p \in Price : \E i \in Used : levels[i].price = p}
  BY <1>1, MapReads DEF MapIsArray, Abstract!Present
<1>3. ASSUME NEW p \in Price, Holds(Lower(p), p)
      PROVE  /\ Lower(p) \in Used /\ levels[Lower(p)].price = p
             /\ Map[p] = levels[Lower(p)].list
  BY <1>3, LowerFinds, MapReads DEF Holds, MapIsArray
<1> QED BY <1>2, <1>3, LowerFinds

(* Counted from the best level, cell i has the rank by_rank gives it.      *)
LEMMA RankOfCell ==
  ASSUME IndInv, NEW rank \in 0 .. count - 1
  PROVE  /\ count - 1 - rank \in Used
         /\ Abstract!Ranked(levels[count - 1 - rank].price, rank)
<1> DEFINE c == count - 1 - rank
           p == levels[c].price
           Better == {q \in Abstract!Present : Abstract!Ahead(q, p)}
           f == [i \in c + 1 .. count - 1 |-> levels[i].price]
<1>1. /\ c \in Used /\ c \in Nat /\ p \in Price /\ p \in Abstract!Present
      /\ c + 1 .. count - 1 \subseteq Used
  <2>1. c \in Used /\ c \in Nat /\ c + 1 .. count - 1 \subseteq Used
    BY CellTypes DEF Used
  <2> QED BY <2>1, PresentIsHeld, CellTypes
<1>2. \A q : Abstract!Ahead(q, p) <=> better(q, p)
  BY DEF Abstract!Ahead, better
<1>3. f \in Bijection(c + 1 .. count - 1, Better)
  <2>1. ASSUME NEW i \in c + 1 .. count - 1 PROVE f[i] \in Better
    <3>1. i \in Used /\ c < i
      BY <1>1
    <3>2. better(levels[i].price, p)
      BY <1>1, <3>1 DEF IndInv, Sorted, Used
    <3>3. levels[i].price \in Abstract!Present
      BY <3>1, PresentIsHeld, CellTypes
    <3> QED BY <1>2, <3>2, <3>3
  <2>2. \A i, j \in c + 1 .. count - 1 : f[i] = f[j] => i = j
    BY <1>1, NoPriceTwice
  <2>3. ASSUME NEW q \in Better PROVE \E i \in c + 1 .. count - 1 : f[i] = q
    <3>1. PICK i \in Used : levels[i].price = q
      BY PresentIsHeld
    <3>2. better(levels[i].price, p)
      BY <1>2, <3>1
    <3>3. ~(i < c) /\ i # c
      BY <1>1, <3>2, CellTypes DEF IndInv, Sorted, Used, better
    <3>4. i \in c + 1 .. count - 1
      BY <1>1, <3>3, CellTypes DEF Used
    <3> QED BY <3>1, <3>4
  <2>4. f \in [c + 1 .. count - 1 -> Better]
    <3>1. \A i \in c + 1 .. count - 1 : levels[i].price \in Better
      <4> HIDE DEF Better, c
      <4> QED BY <2>1
    <3> HIDE DEF Better, c
    <3> QED BY <3>1
  <2> HIDE DEF f, Better, c
  <2> QED BY <2>2, <2>3, <2>4, DOMAIN f = c + 1 .. count - 1
      DEF Bijection, Injection, IsInjective, Surjection
<1>4. IsFiniteSet(c + 1 .. count - 1) /\ Cardinality(c + 1 .. count - 1) = rank
  <2>1. c + 1 \in Int /\ count - 1 \in Int
        /\ (IF c + 1 > count - 1 THEN 0 ELSE (count - 1) - (c + 1) + 1) = rank
    BY <1>1, CellTypes
  <2> HIDE DEF c
  <2> QED BY <2>1, FS_Interval
<1>5. Cardinality(Better) = rank
  <2> HIDE DEF f, Better, c
  <2> QED BY <1>3, <1>4, FS_Bijection DEF ExistsBijection
<1>6. Abstract!Cardinality(Better) = Cardinality(Better)
  BY Zenon DEF Abstract!Cardinality, Cardinality
<1> QED BY <1>1, <1>5, <1>6 DEF Abstract!Ranked

(* What Map becomes, in terms of the cells in use then. *)
LEMMA MapBecomes ==
  ASSUME MapIsArray', NEW f, DOMAIN f = Price, f = [p \in Price |-> f[p]],
         \A i \in Used' : f[levels'[i].price] = levels'[i].list,
         \A i \in Used' : levels'[i].price \in Price,
         \A p \in Price : (\A i \in Used' : levels'[i].price # p) => f[p] = Absent
  PROVE  Map' = f
<1>1. ASSUME NEW p \in Price PROVE Map'[p] = f[p]
  <2>1. CASE \E i \in Used' : levels'[i].price = p
    BY <2>1 DEF MapIsArray
  <2>2. CASE ~\E i \in Used' : levels'[i].price = p
    BY <2>2 DEF MapIsArray
  <2> QED BY <2>1, <2>2
<1>2. Map' = [p \in Price |-> Map'[p]]
  BY DEF MapIsArray
<1> QED BY <1>1, <1>2, Zenon

LEMMA FindImplements ==
  ASSUME IndInv, NEW p \in Price, find(p)
  PROVE  Abstract!MapFind(p) /\ side' = side
<1>1. Map' = Map
  BY DEF find, Map
<1> QED BY <1>1, PresentIsHeld DEF find, See, Abstract!MapFind

LEMMA ByRankImplements ==
  ASSUME IndInv, NEW rank \in 0 .. MaxLevels - 1, by_rank(rank)
  PROVE  Abstract!MapByRank(rank) /\ side' = side
<1> DEFINE c == count - 1 - rank
<1>1. Map' = Map
  BY DEF by_rank, Map
<1>2. rank \in 0 .. count - 1
  BY CellTypes DEF by_rank
<1>3. c \in Used /\ Abstract!Ranked(levels[c].price, rank)
  BY <1>2, RankOfCell
<1>4. levels[c].price \in Price /\ Map[levels[c].price] = levels[c].list
  BY <1>3, MapReads, CellTypes DEF MapIsArray
<1> QED BY <1>1, <1>3, <1>4 DEF by_rank, See, Abstract!MapByRank

LEMMA HitImplements ==
  ASSUME IndInv, NEW p \in Price, get_or_insert_hit(p)
  PROVE  Abstract!MapGetOrInsert(p) /\ side' = side
<1>1. Map' = Map
  BY DEF get_or_insert_hit, Map
<1>2. /\ p \in Abstract!Present /\ levels[Lower(p)].price = p
      /\ Map[p] = levels[Lower(p)].list
  BY PresentIsHeld DEF get_or_insert_hit
<1>3. Map = [Map EXCEPT ![p] = Map[p]] /\ Map[p] # Absent
  BY <1>2, MapReads DEF MapIsArray, Abstract!Present
<1> QED BY <1>1, <1>2, <1>3 DEF get_or_insert_hit, See, Abstract!MapGetOrInsert

LEMMA InsertImplements ==
  ASSUME IndInv, IndInv', MapIsArray', NEW p \in Price, get_or_insert_new(p)
  PROVE  Abstract!MapGetOrInsert(p) /\ side' = side
<1> DEFINE L == Lower(p)
<1>1. /\ levels' = ShiftedUp(L, p) /\ count' = count + 1 /\ side' = side
      /\ answer' = <<p, p, EmptyList>> /\ ~Holds(L, p)
  BY DEF get_or_insert_new
<1>2. L \in 0 .. count /\ \A j \in Used : levels[j].price # p
  BY <1>1, LowerBound, LowerFinds
<1> HIDE DEF L
<1>3. count \in Nat /\ L \in Nat /\ MaxLevels \in Nat /\ count < MaxLevels
  BY <1>1, <1>2, CellTypes, CapacityAssumption DEF IndInv, TypeOK, MaxLevels
<1>4. /\ levels'[L] = [price |-> p, list |-> EmptyList]
      /\ \A j \in Used : j < L => levels'[j] = levels[j]
      /\ \A j \in Used : j >= L => levels'[j + 1] = levels[j]
      /\ \A j \in 0 .. count : \/ j = L
                               \/ j \in Used /\ j < L
                               \/ j - 1 \in Used /\ j - 1 >= L /\ (j - 1) + 1 = j
      /\ Used' = 0 .. count /\ L \in Used'
  BY <1>1, <1>2, <1>3 DEF ShiftedUp, Used
<1> DEFINE f == [Map EXCEPT ![p] = EmptyList]
<1>5. /\ DOMAIN f = Price /\ f = [q \in Price |-> f[q]] /\ f[p] = EmptyList
      /\ \A q \in Price \ {p} : f[q] = Map[q]
  BY MapReads DEF MapIsArray
<1> HIDE DEF f
<1>6. \A i \in Used' : /\ f[levels'[i].price] = levels'[i].list
                       /\ levels'[i].price \in Price
  <2> SUFFICES ASSUME NEW i \in 0 .. count
               PROVE  /\ f[levels'[i].price] = levels'[i].list
                      /\ levels'[i].price \in Price
    BY <1>4
  <2>1. \A j \in Used : /\ f[levels[j].price] = levels[j].list
                        /\ levels[j].price \in Price
    BY <1>2, <1>5, MapReads, CellTypes DEF MapIsArray
  <2>2. CASE i = L
    BY <1>4, <1>5, <2>2
  <2>3. CASE i \in Used /\ i < L
    BY <1>4, <2>1, <2>3
  <2>4. CASE i - 1 \in Used /\ i - 1 >= L /\ (i - 1) + 1 = i
    <3>1. levels'[i] = levels[i - 1]
      BY <1>4, <2>4
    <3> QED BY <2>1, <2>4, <3>1
  <2> QED BY <1>4, <2>2, <2>3, <2>4
<1>7. ASSUME NEW q \in Price, \A i \in Used' : levels'[i].price # q
      PROVE  f[q] = Absent
  <2>1. q # p
    BY <1>4, <1>7
  <2>2. ASSUME NEW j \in Used PROVE levels[j].price # q
    <3>1. j \in 0 .. count - 1
      BY DEF Used
    <3>2. j \in 0 .. count /\ j + 1 \in 0 .. count /\ (j < L \/ j >= L)
      BY <1>3, <3>1
    <3> QED BY <1>4, <1>7, <3>2
  <2> QED BY <1>5, <2>1, <2>2, MapReads DEF MapIsArray
<1>8. Map' = f
  BY <1>5, <1>6, <1>7, MapBecomes
<1>9. Map[p] = Absent
  BY <1>2, MapReads DEF MapIsArray
<1>10. Map' = [Map EXCEPT ![p] = IF @ = Absent THEN EmptyList ELSE @]
  BY <1>8, <1>9 DEF f
<1> QED BY <1>1, <1>5, <1>8, <1>10 DEF Abstract!MapGetOrInsert

LEMMA WriteImplements ==
  ASSUME IndInv, MapIsArray', NEW p \in Price, NEW l \in Lists \cup {EmptyList},
         write(p, l)
  PROVE  Abstract!MapWrite(p, l) /\ side' = side
<1> DEFINE L == Lower(p)
           f == [Map EXCEPT ![p] = l]
<1>1. /\ L \in Used /\ levels[L].price = p /\ p \in Abstract!Present
      /\ levels' = [levels EXCEPT ![L].list = l]
      /\ side' = side /\ count' = count /\ answer' = Nothing
  BY PresentIsHeld DEF write
<1> HIDE DEF L
<1>2. /\ Used' = Used /\ levels'[L].price = p /\ levels'[L].list = l
      /\ \A j \in Used : /\ levels'[j].price = levels[j].price
                         /\ levels[j].price \in Price
                         /\ j # L => levels'[j].list = levels[j].list
                                     /\ levels[j].price # p
  <2>1. levels \in [0 .. MaxLevels - 1 -> Cell] /\ L \in 0 .. MaxLevels - 1
    BY <1>1, CellTypes DEF IndInv, TypeOK
  <2>2. \A j \in Used : j # L => levels[j].price # p
    BY <1>1, NoPriceTwice
  <2>3. Used' = Used
    BY <1>1 DEF Used
  <2> QED BY <1>1, <2>1, <2>2, <2>3, CellTypes DEF Cell
<1>3. /\ DOMAIN f = Price /\ f = [q \in Price |-> f[q]] /\ f[p] = l
      /\ \A q \in Price \ {p} : f[q] = Map[q]
  BY MapReads DEF MapIsArray
<1> HIDE DEF f
<1>4. ASSUME NEW j \in Used PROVE f[levels'[j].price] = levels'[j].list
  BY <1>2, <1>3, MapReads DEF MapIsArray
<1>5. ASSUME NEW q \in Price, \A j \in Used : levels'[j].price # q
      PROVE  f[q] = Absent
  <2>1. q # p /\ \A j \in Used : levels[j].price # q
    BY <1>1, <1>2, <1>5
  <2> QED BY <1>3, <2>1, MapReads DEF MapIsArray
<1>6. Map' = f
  BY <1>2, <1>3, <1>4, <1>5, MapBecomes
<1> QED BY <1>1, <1>6 DEF f, Nothing, Abstract!MapWrite, Abstract!Nothing

(* The cells that remain when the one at L goes. *)
LEMMA GoneImplements ==
  ASSUME IndInv, MapIsArray', NEW L \in Used, NEW p \in Price, levels[L].price = p,
         levels[L].list = EmptyList, side' = side, answer' = Nothing,
         \A j \in Used' : \E i \in Used \ {L} : levels'[j] = levels[i],
         \A i \in Used \ {L} : \E j \in Used' : levels'[j] = levels[i]
  PROVE  Abstract!MapErase(p) /\ side' = side
<1> DEFINE f == [Map EXCEPT ![p] = Absent]
<1>1. /\ Map[p] = EmptyList
      /\ DOMAIN f = Price /\ f = [q \in Price |-> f[q]] /\ f[p] = Absent
      /\ \A q \in Price \ {p} : f[q] = Map[q]
  BY MapReads DEF MapIsArray
<1> HIDE DEF f
<1>2. \A i \in Used \ {L} : levels[i].price \in Price \ {p}
  BY NoPriceTwice, CellTypes
<1>3. \A j \in Used' : /\ f[levels'[j].price] = levels'[j].list
                       /\ levels'[j].price \in Price
  <2> SUFFICES ASSUME NEW j \in Used'
               PROVE  /\ f[levels'[j].price] = levels'[j].list
                      /\ levels'[j].price \in Price
    OBVIOUS
  <2>1. PICK i \in Used \ {L} : levels'[j] = levels[i]
    OBVIOUS
  <2> QED BY <1>1, <1>2, <2>1, MapReads DEF MapIsArray
<1>4. ASSUME NEW q \in Price, \A j \in Used' : levels'[j].price # q
      PROVE  f[q] = Absent
  <2>1. \A i \in Used \ {L} : levels[i].price # q
    BY <1>4
  <2>2. CASE q = p
    BY <1>1, <2>2
  <2>3. CASE q # p
    <3>1. \A i \in Used : levels[i].price # q
      BY <2>1, <2>3
    <3>2. Map[q] = Absent
      BY <3>1, MapReads DEF MapIsArray
    <3> QED BY <1>1, <2>3, <3>2
  <2> QED BY <2>2, <2>3
<1>5. Map' = f
  BY <1>1, <1>3, <1>4, MapBecomes
<1> QED BY <1>1, <1>5 DEF f, Nothing, Abstract!MapErase, Abstract!Nothing

LEMMA EraseImplements ==
  ASSUME IndInv, MapIsArray', NEW p \in Price, erase(p)
  PROVE  Abstract!MapErase(p) /\ side' = side
<1> DEFINE L == Lower(p)
<1>1. /\ L \in Used /\ levels[L].price = p /\ levels[L].list = EmptyList
      /\ levels' = ShiftedDown(L) /\ count' = count - 1
      /\ side' = side /\ answer' = Nothing
  BY PresentIsHeld DEF erase
<1> HIDE DEF L
<1>2. L \in Int /\ count \in Int /\ MaxLevels \in Int /\ count <= MaxLevels
      /\ L \in 0 .. count - 1
  BY <1>1, CellTypes DEF Used
<1>3. ASSUME NEW j \in Used' PROVE \E i \in Used \ {L} : levels'[j] = levels[i]
  <2>1. j \in 0 .. count - 2 /\ j \in 0 .. MaxLevels - 1
    BY <1>1, <1>2, <1>3 DEF Used
  <2>2. CASE j < L
    <3>1. j \in Used \ {L} /\ levels'[j] = levels[j]
      BY <1>1, <1>2, <2>1, <2>2 DEF ShiftedDown, Used
    <3> QED BY <3>1
  <2>3. CASE j >= L
    <3>1. j + 1 \in Used \ {L} /\ levels'[j] = levels[j + 1]
      BY <1>1, <1>2, <2>1, <2>3 DEF ShiftedDown, Used
    <3> QED BY <3>1
  <2> QED BY <1>2, <2>1, <2>2, <2>3
<1>4. ASSUME NEW i \in Used \ {L} PROVE \E j \in Used' : levels'[j] = levels[i]
  <2>1. i \in 0 .. count - 1 /\ i \in 0 .. MaxLevels - 1
    BY <1>2, <1>4 DEF Used
  <2>2. CASE i < L
    <3>1. i \in Used' /\ levels'[i] = levels[i]
      BY <1>1, <1>2, <2>1, <2>2 DEF ShiftedDown, Used
    <3> QED BY <3>1
  <2>3. CASE i > L
    <3>1. /\ i - 1 \in Used' /\ i - 1 \in 0 .. MaxLevels - 1 /\ (i - 1) + 1 = i
          /\ i - 1 >= L /\ i - 1 < count - 1
      BY <1>1, <1>2, <2>1, <2>3 DEF Used
    <3>2. levels'[i - 1] = levels[i]
      BY <1>1, <3>1 DEF ShiftedDown
    <3> QED BY <3>1, <3>2
  <2> QED BY <1>2, <1>4, <2>1, <2>2, <2>3
<1> QED BY <1>1, <1>3, <1>4, GoneImplements

LEMMA PopImplements ==
  ASSUME IndInv, MapIsArray', pop_best
  PROVE  Abstract!MapPopBest /\ side' = side
<1> DEFINE c == count - 1
<1>1. /\ c \in Used /\ Abstract!Ranked(levels[c].price, 0)
      /\ levels[c].price \in Price
  <2>1. 0 \in 0 .. count - 1 /\ count - 1 - 0 = count - 1
    BY CellTypes DEF pop_best
  <2> QED BY <2>1, RankOfCell, CellTypes
<1>2. Used' = Used \ {c} /\ levels' = levels
  BY CellTypes DEF pop_best, Used
<1>3. Abstract!MapErase(levels[c].price) /\ side' = side
  BY <1>1, <1>2, GoneImplements DEF pop_best
<1> QED BY <1>1, <1>3 DEF Abstract!MapPopBest

(* A step of the array is a step of the map. *)
LEMMA NextImplements ==
  ASSUME IndInv, IndInv', MapIsArray', [Next]_vars
  PROVE  [Abstract!MapNext]_<<side, Map, answer>>
<1>1. ASSUME NEW p \in Price,
             \/ find(p) \/ get_or_insert_hit(p) \/ get_or_insert_new(p) \/ erase(p)
             \/ \E l \in Lists \cup {EmptyList} : write(p, l)
      PROVE  Abstract!MapNext
  BY <1>1, FindImplements, HitImplements, InsertImplements, EraseImplements,
     WriteImplements DEF Abstract!MapNext
<1>2. ASSUME NEW rank \in 0 .. MaxLevels - 1, by_rank(rank)
      PROVE  Abstract!MapNext
  <2>1. rank \in 0 .. MaxLevels
    BY CellTypes
  <2> QED BY <1>2, <2>1, ByRankImplements DEF Abstract!MapNext
<1>3. CASE pop_best
  BY <1>3, PopImplements DEF Abstract!MapNext
<1>4. CASE UNCHANGED vars
  BY <1>4 DEF vars, Map
<1> QED BY <1>1, <1>2, <1>3, <1>4 DEF Next

(***************************************************************************)
(* The array of levels implements the map from prices to lists that Book   *)
(* uses: lookups, the ranking, insertion, removal and what is written      *)
(* through a reference, each answers and changes the map as its            *)
(* specification says.                                                     *)
(***************************************************************************)
THEOREM ImplementsMap == Spec => ImplementsLevelMap
<1>1. Init => Abstract!MapInit
  <2> SUFFICES ASSUME Init PROVE Abstract!MapInit
    OBVIOUS
  <2>1. \A p \in Price : {i \in 0 .. count - 1 : levels[i].price = p} = {}
    BY DEF Init
  <2>2. Map = [p \in Price |-> Absent]
    BY <2>1 DEF Map
  <2> QED BY <2>2 DEF Init, Nothing, Abstract!MapInit, Abstract!Nothing
<1>2. IndInv' => MapIsArray'
  BY MapReads, PTL
<1>3. IndInv /\ IndInv' /\ [Next]_vars => [Abstract!MapNext]_<<side, Map, answer>>
  BY <1>2, NextImplements
<1> QED BY <1>1, <1>3, Invariance, PTL DEF Spec, ImplementsLevelMap, Abstract!MapSpec
=============================================================================
