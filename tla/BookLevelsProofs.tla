-------------------------- MODULE BookLevelsProofs --------------------------
(***************************************************************************)
(* The book and the arrays its levels live in, proved for every value of   *)
(* the constants: the arrays always hold the levels Book means, and the    *)
(* references commands hold across their steps denote the right cells.     *)
(***************************************************************************)
EXTENDS BookLevels, BookProofs

(***************************************************************************)
(* Array a of side s holds the levels P, sorted, with the lists of L.      *)
(***************************************************************************)
Fits(s, a, P, L) ==
  LET used == 0 .. a.count - 1
  IN  /\ a \in [levels: [0 .. Capacity -> [price: Price, list: LevelObject]],
                count: 0 .. Capacity + 1]
      /\ \A i, j \in used : i < j => Better(s, a.levels[j].price, a.levels[i].price)
      /\ {a.levels[i].price : i \in used} = P
      /\ \A i \in used : a.levels[i].list = L[a.levels[i].price]

(* The types of such an array. *)
LEMMA FitsTypes ==
  ASSUME NEW s \in Side, NEW a, NEW P, NEW L, Fits(s, a, P, L)
  PROVE  /\ Capacity \in Nat /\ a.count \in Nat /\ a.count <= Capacity + 1
         /\ a = [levels |-> a.levels, count |-> a.count]
         /\ a.levels \in [0 .. Capacity -> [price: Price, list: LevelObject]]
         /\ \A i \in 0 .. a.count - 1 :
              /\ i \in 0 .. Capacity /\ i \in Nat
              /\ a.levels[i].price \in Price /\ a.levels[i].price \in Int
              /\ a.levels[i].price \in P
         /\ P \subseteq Price /\ Price \subseteq Int
<1>1. /\ Capacity \in Nat /\ a.count \in Nat /\ a.count <= Capacity + 1
      /\ a = [levels |-> a.levels, count |-> a.count]
      /\ a.levels \in [0 .. Capacity -> [price: Price, list: LevelObject]]
  BY CapacityAssumption DEF Fits
<1>2. Price \subseteq Int
  BY PriceAssumption DEF Price
<1>3. \A i \in 0 .. a.count - 1 :
              /\ i \in 0 .. Capacity /\ i \in Nat
              /\ a.levels[i].price \in Price /\ a.levels[i].price \in Int
  BY <1>1, <1>2
<1> QED BY <1>1, <1>2, <1>3 DEF Fits

(* Two cells in use with the same price are one. *)
LEMMA FitsOnce ==
  ASSUME NEW s \in Side, NEW a, NEW P, NEW L, Fits(s, a, P, L),
         NEW i \in 0 .. a.count - 1, NEW j \in 0 .. a.count - 1,
         a.levels[i].price = a.levels[j].price
  PROVE  i = j
<1>1. a.levels[i].price \in Int /\ i \in Nat /\ j \in Nat
  BY FitsTypes
<1>2. /\ i < j => Better(s, a.levels[j].price, a.levels[i].price)
      /\ j < i => Better(s, a.levels[i].price, a.levels[j].price)
  BY DEF Fits
<1> QED BY <1>1, <1>2 DEF Better

(***************************************************************************)
(* Where the binary search of a side's array ends: the levels before it    *)
(* are worse than the price, and a price that has a level is found.        *)
(***************************************************************************)
LEMMA LowerOfFits ==
  ASSUME NEW s \in Side, NEW a, NEW P, NEW L, Fits(s, a, P, L), NEW p \in Price
  PROVE  LET lo == Cells(s, a)!Lower(p)
         IN  /\ lo \in 0 .. a.count
             /\ \A j \in 0 .. a.count - 1 : j < lo => Better(s, p, a.levels[j].price)
             /\ p \notin P => \A j \in 0 .. a.count - 1 :
                                j >= lo => Better(s, a.levels[j].price, p)
             /\ p \in P => lo \in 0 .. a.count - 1 /\ a.levels[lo].price = p
             /\ Cells(s, a)!Holds(lo, p) <=> p \in P
<1> DEFINE used == 0 .. a.count - 1
           Q(i) == /\ i = a.count \/ ~Better(s, p, a.levels[i].price)
                   /\ \A j \in 0 .. i - 1 : Better(s, p, a.levels[j].price)
           Below == OpToRel(<, Nat)
           D == {i \in 0 .. a.count : i = a.count \/ ~Better(s, p, a.levels[i].price)}
           lo == Cells(s, a)!Lower(p)
<1>1. /\ a.count \in Nat /\ p \in Int
      /\ \A j \in used : a.levels[j].price \in Int
  BY FitsTypes
<1>2. D \in SUBSET Nat /\ a.count \in D
  BY <1>1
<1>3. PICK i \in D : \A m \in D : ~(<<m, i>> \in Below)
  <2> HIDE DEF D, Below
  <2> QED BY <1>2, NatLessThanWellFounded, WFMin DEF Below
<1>4. i \in 0 .. a.count /\ Q(i)
  <2>1. \A m \in D : ~(m < i)
    BY <1>2, <1>3 DEF OpToRel
  <2>2. \A j \in 0 .. i - 1 : j \in 0 .. a.count /\ j # a.count /\ j < i
    <3>1. i \in 0 .. a.count
      OBVIOUS
    <3> HIDE DEF D, Below
    <3> QED BY <1>1, <3>1
  <2> QED BY <1>3, <2>1, <2>2
<1>5. lo = CHOOSE k \in 0 .. a.count : Q(k)
  BY DEF Cells!Lower, Cells!better, Better, Side
<1>6. lo \in 0 .. a.count /\ Q(lo)
  <2> HIDE DEF Q, lo
  <2> QED BY <1>4, <1>5
<1> HIDE DEF lo, D, Below
<1>7. \A j \in used : j < lo => Better(s, p, a.levels[j].price)
  BY <1>1, <1>6
<1>8. ASSUME NEW j \in used, j > lo
      PROVE  /\ lo \in used /\ ~Better(s, p, a.levels[lo].price)
             /\ Better(s, a.levels[j].price, a.levels[lo].price)
  <2>1. lo \in used /\ lo # a.count
    BY <1>1, <1>6, <1>8
  <2> QED BY <1>6, <1>8, <2>1 DEF Fits
<1>9. ASSUME p \notin P, NEW j \in used, j >= lo
      PROVE  Better(s, a.levels[j].price, p)
  <2>1. a.levels[j].price # p
    BY <1>9, FitsTypes
  <2>2. CASE j = lo
    BY <1>1, <1>6, <2>1, <2>2 DEF Better
  <2>3. CASE j > lo
    BY <1>1, <1>8, <2>1, <2>3 DEF Better
  <2> QED BY <1>1, <1>6, <1>9, <2>2, <2>3
<1>10. ASSUME p \in P PROVE lo \in used /\ a.levels[lo].price = p
  <2>1. PICK j \in used : a.levels[j].price = p
    BY <1>10 DEF Fits
  <2>2. ~(j < lo)
    BY <1>1, <1>7, <2>1 DEF Better
  <2>3. ~(j > lo)
    BY <1>1, <1>8, <2>1
  <2>4. j = lo
    BY <1>1, <1>6, <2>2, <2>3
  <2> QED BY <2>1, <2>4
<1>11. Cells(s, a)!Holds(lo, p) <=> p \in P
  <2>1. Cells(s, a)!Holds(lo, p) <=> lo # a.count /\ a.levels[lo].price = p
    BY DEF Cells!Holds
  <2>2. lo # a.count => lo \in used
    BY <1>1, <1>6
  <2>3. lo \in used => lo # a.count /\ a.levels[lo].price \in P
    BY <1>1, FitsTypes
  <2> QED BY <1>10, <2>1, <2>2, <2>3
<1> QED BY <1>6, <1>7, <1>9, <1>10, <1>11 DEF lo

(* The best level of a side is in its last cell. *)
LEMMA LastIsBest ==
  ASSUME NEW s \in Side, NEW a, NEW P, NEW L, Fits(s, a, P, L),
         NEW p, IsBest(s, P, p)
  PROVE  /\ a.count - 1 \in 0 .. a.count - 1
         /\ a.levels[a.count - 1].price = p
<1>1. PICK i \in 0 .. a.count - 1 : a.levels[i].price = p
  BY DEF Fits, IsBest
<1>2. i \in Nat /\ a.count \in Nat /\ a.count - 1 \in 0 .. a.count - 1
  BY <1>1, FitsTypes
<1> DEFINE z == a.count - 1
<1>3. a.levels[z].price \in P /\ a.levels[z].price \in Int /\ p \in Int
  BY <1>1, <1>2, FitsTypes
<1>4. CASE i = z
  BY <1>1, <1>2, <1>4
<1>5. CASE i # z
  <2>1. i < z
    BY <1>2, <1>5
  <2>2. Better(s, a.levels[z].price, a.levels[i].price)
    BY <1>2, <2>1 DEF Fits
  <2>3. a.levels[z].price = p \/ Better(s, p, a.levels[z].price)
    BY <1>3 DEF IsBest
  <2> QED BY <1>1, <1>2, <1>3, <2>2, <2>3 DEF Better
<1> QED BY <1>4, <1>5

(* Levels the array does not hold do not matter. *)
LEMMA FitsOthers ==
  ASSUME NEW s \in Side, NEW a, NEW P, NEW L, Fits(s, a, P, L),
         NEW M, \A p \in P : M[p] = L[p]
  PROVE  Fits(s, a, P, M)
<1>1. \A i \in 0 .. a.count - 1 : a.levels[i].price \in P
  BY FitsTypes
<1> QED BY <1>1 DEF Fits

(* A level is written in the cell that holds it. *)
LEMMA FitsPut ==
  ASSUME NEW s \in Side, NEW a, NEW P, NEW L, Fits(s, a, P, L),
         NEW i \in 0 .. a.count - 1, NEW lvl \in LevelObject,
         NEW M, M[a.levels[i].price] = lvl,
         \A p \in P : p # a.levels[i].price => M[p] = L[p]
  PROVE  /\ Fits(s, Put(a, i, lvl), P, M)
         /\ Put(a, i, lvl).count = a.count
         /\ \A j \in 0 .. a.count - 1 :
              Put(a, i, lvl).levels[j].price = a.levels[j].price
         /\ Put(a, i, lvl).levels[i].list = lvl
<1> DEFINE b == Put(a, i, lvl)
<1>1. /\ a.levels \in [0 .. Capacity -> [price: Price, list: LevelObject]]
      /\ i \in 0 .. Capacity
      /\ \A j \in 0 .. a.count - 1 : j \in 0 .. Capacity
  BY FitsTypes
<1>2. a \in [levels: [0 .. Capacity -> [price: Price, list: LevelObject]],
             count: 0 .. Capacity + 1]
  BY DEF Fits
<1>3. /\ b.count = a.count
      /\ b.levels = [a.levels EXCEPT ![i].list = lvl]
      /\ b = [levels |-> b.levels, count |-> a.count]
  BY <1>2 DEF Put
<1>4. /\ b.levels \in [0 .. Capacity -> [price: Price, list: LevelObject]]
      /\ \A j \in 0 .. Capacity : b.levels[j].price = a.levels[j].price
      /\ \A j \in 0 .. Capacity : j # i => b.levels[j].list = a.levels[j].list
      /\ b.levels[i].list = lvl
  <2>1. [a.levels[i] EXCEPT !.list = lvl] = [price |-> a.levels[i].price, list |-> lvl]
        /\ a.levels[i].price \in Price
    <3>1. ASSUME NEW c \in [price: Price, list: LevelObject]
          PROVE  [c EXCEPT !.list = lvl] = [price |-> c.price, list |-> lvl]
                 /\ c.price \in Price
      OBVIOUS
    <3>2. a.levels[i] \in [price: Price, list: LevelObject]
      BY <1>1
    <3> QED BY <3>1, <3>2
  <2>2. \A j \in 0 .. Capacity :
          b.levels[j] = IF j = i THEN [price |-> a.levels[i].price, list |-> lvl]
                                 ELSE a.levels[j]
    BY <1>1, <1>3, <2>1
  <2>3. b.levels = [j \in 0 .. Capacity |-> b.levels[j]]
    BY <1>1, <1>3
  <2>4. \A j \in 0 .. Capacity : b.levels[j] \in [price: Price, list: LevelObject]
    BY <1>1, <2>1, <2>2
  <2>5. b.levels \in [0 .. Capacity -> [price: Price, list: LevelObject]]
    <3> HIDE DEF b
    <3> QED BY <2>3, <2>4
  <2> QED BY <1>1, <2>2, <2>5
<1> HIDE DEF b
<1>5. b \in [levels: [0 .. Capacity -> [price: Price, list: LevelObject]],
             count: 0 .. Capacity + 1]
  BY <1>2, <1>3, <1>4
<1>6. \A j \in 0 .. a.count - 1 : b.levels[j].price = a.levels[j].price
  BY <1>1, <1>4
<1>7. ASSUME NEW j \in 0 .. b.count - 1
      PROVE  b.levels[j].list = M[b.levels[j].price]
  <2>1. j \in 0 .. a.count - 1
    BY <1>3
  <2>2. CASE j = i
    BY <1>4, <1>6, <2>1, <2>2
  <2>3. CASE j # i
    <3>1. a.levels[j].price # a.levels[i].price /\ a.levels[j].price \in P
      BY <2>1, <2>3, FitsOnce, FitsTypes
    <3>2. b.levels[j].list = L[a.levels[j].price]
      BY <1>1, <1>4, <2>1, <2>3 DEF Fits
    <3> QED BY <1>6, <2>1, <3>1, <3>2
  <2> QED BY <2>2, <2>3
<1>8. {b.levels[j].price : j \in 0 .. b.count - 1} = P
  BY <1>3, <1>6 DEF Fits
<1>9. \A j, k \in 0 .. b.count - 1 :
        j < k => Better(s, b.levels[k].price, b.levels[j].price)
  BY <1>3, <1>6 DEF Fits
<1>10. Fits(s, b, P, M)
  BY <1>5, <1>7, <1>8, <1>9 DEF Fits
<1> QED BY <1>3, <1>4, <1>6, <1>10 DEF b

(* A level is taken out, wherever it is. *)
LEMMA FitsErase ==
  ASSUME NEW s \in Side, NEW a, NEW P, NEW L, Fits(s, a, P, L), NEW p \in P
  PROVE  Fits(s, erase(s, a, p), P \ {p}, L)
<1> DEFINE lo == Cells(s, a)!Lower(p)
           b == erase(s, a, p)
           from(j) == IF j >= lo THEN j + 1 ELSE j
<1>1. lo \in 0 .. a.count - 1 /\ a.levels[lo].price = p
  BY LowerOfFits, FitsTypes
<1> HIDE DEF lo
<1>2. /\ a.count \in Nat /\ Capacity \in Nat /\ a.count <= Capacity + 1
      /\ a.levels \in [0 .. Capacity -> [price: Price, list: LevelObject]]
  BY FitsTypes
<1>3. b = [levels |-> [j \in 0 .. Capacity |->
                         IF j >= lo /\ j < a.count - 1 THEN a.levels[j + 1]
                                                       ELSE a.levels[j]],
           count |-> a.count - 1]
  <2>1. Cells(s, a)!MaxLevels - 1 = Capacity
    BY <1>2 DEF Cells!MaxLevels
  <2>2. b.levels = Cells(s, a)!ShiftedDown(lo) /\ b.count = a.count - 1
        /\ b = [levels |-> b.levels, count |-> b.count]
    BY DEF erase, lo
  <2> HIDE DEF b
  <2>3. Cells(s, a)!ShiftedDown(lo) =
          [j \in 0 .. Capacity |->
             IF j >= lo /\ j < a.count - 1 THEN a.levels[j + 1] ELSE a.levels[j]]
    BY <2>1 DEF Cells!ShiftedDown
  <2> QED BY <2>2, <2>3
<1>4. /\ b.count = a.count - 1
      /\ b = [levels |-> b.levels, count |-> b.count]
      /\ \A j \in 0 .. Capacity :
           b.levels[j] = IF j >= lo /\ j < a.count - 1 THEN a.levels[j + 1]
                                                       ELSE a.levels[j]
      /\ b.levels = [j \in 0 .. Capacity |-> b.levels[j]]
  BY <1>3
<1> HIDE DEF b
<1>5. \A j \in 0 .. b.count - 1 : /\ from(j) \in 0 .. a.count - 1 /\ from(j) # lo
                                  /\ j \in Nat /\ from(j) \in Nat
                                  /\ b.levels[j] = a.levels[from(j)]
  BY <1>1, <1>2, <1>4, SMTT(30)
<1>6. \A i, j \in 0 .. b.count - 1 : i < j => from(i) < from(j)
  BY <1>1, <1>2, <1>4
<1>7. \A i \in 0 .. a.count - 1 :
        i # lo => \E j \in 0 .. b.count - 1 : i = from(j)
  <2> SUFFICES ASSUME NEW i \in 0 .. a.count - 1, i # lo
               PROVE  \E j \in 0 .. b.count - 1 : i = from(j)
    OBVIOUS
  <2>1. CASE i < lo
    <3>1. i \in 0 .. b.count - 1 /\ i = from(i)
      BY <1>1, <1>2, <1>4, <2>1
    <3> HIDE DEF from
    <3> QED BY <3>1
  <2>2. CASE i > lo
    <3>1. i - 1 \in 0 .. b.count - 1 /\ i = from(i - 1)
      BY <1>1, <1>2, <1>4, <2>2
    <3> HIDE DEF from
    <3> QED BY <3>1
  <2> QED BY <1>1, <1>2, <2>1, <2>2
<1> HIDE DEF from
<1>8. b \in [levels: [0 .. Capacity -> [price: Price, list: LevelObject]],
             count: 0 .. Capacity + 1]
  <2>1. \A j \in 0 .. Capacity :
          j < a.count - 1 => j + 1 \in 0 .. Capacity
    BY <1>2
  <2>2. \A j \in 0 .. Capacity : b.levels[j] \in [price: Price, list: LevelObject]
    BY <1>2, <1>4, <2>1
  <2>3. b.levels \in [0 .. Capacity -> [price: Price, list: LevelObject]]
    BY <1>4, <2>2
  <2>4. b.count \in 0 .. Capacity + 1
    BY <1>1, <1>2, <1>4
  <2> QED BY <1>4, <2>3, <2>4
<1>9. \A i, j \in 0 .. b.count - 1 :
        i < j => Better(s, b.levels[j].price, b.levels[i].price)
  <2>1. \A i, j \in 0 .. a.count - 1 :
          i < j => Better(s, a.levels[j].price, a.levels[i].price)
    BY DEF Fits
  <2> QED BY <1>5, <1>6, <2>1
<1>10. {b.levels[i].price : i \in 0 .. b.count - 1} = P \ {p}
  <2>1. ASSUME NEW q \in P \ {p}
        PROVE  \E j \in 0 .. b.count - 1 : q = b.levels[j].price
    <3>1. PICK i \in 0 .. a.count - 1 : a.levels[i].price = q
      BY DEF Fits
    <3> QED BY <1>1, <1>5, <1>7, <3>1
  <2>2. ASSUME NEW j \in 0 .. b.count - 1 PROVE b.levels[j].price \in P \ {p}
    <3>1. from(j) \in 0 .. a.count - 1 /\ from(j) # lo
      BY <1>5
    <3>2. a.levels[from(j)].price # p
      BY <1>1, <3>1, FitsOnce
    <3>3. a.levels[from(j)].price \in P
      BY <3>1, FitsTypes
    <3> QED BY <1>5, <3>2, <3>3
  <2> QED BY <2>1, <2>2
<1>11. \A i \in 0 .. b.count - 1 : b.levels[i].list = L[b.levels[i].price]
  BY <1>5 DEF Fits
<1>12. Fits(s, b, P \ {p}, L)
  BY <1>8, <1>9, <1>10, <1>11 DEF Fits
<1> QED BY <1>12 DEF b

(* The best level is taken off the end. *)
LEMMA FitsPop ==
  ASSUME NEW s \in Side, NEW a, NEW P, NEW L, Fits(s, a, P, L),
         NEW p, IsBest(s, P, p)
  PROVE  Fits(s, pop_best(a), P \ {p}, L)
<1> DEFINE b == pop_best(a)
           z == a.count - 1
<1>1. /\ z \in 0 .. a.count - 1 /\ a.levels[z].price = p
      /\ a.count \in Nat /\ Capacity \in Nat /\ a.count <= Capacity + 1
  BY LastIsBest, FitsTypes
<1>2. a \in [levels: [0 .. Capacity -> [price: Price, list: LevelObject]],
             count: 0 .. Capacity + 1]
  BY DEF Fits
<1>3. b.levels = a.levels /\ b.count = z
      /\ b = [levels |-> b.levels, count |-> b.count]
  BY <1>2 DEF pop_best
<1> HIDE DEF b
<1>4. b \in [levels: [0 .. Capacity -> [price: Price, list: LevelObject]],
             count: 0 .. Capacity + 1]
  BY <1>1, <1>2, <1>3
<1>5. 0 .. b.count - 1 = (0 .. a.count - 1) \ {z}
  BY <1>1, <1>3
<1>6. {b.levels[i].price : i \in 0 .. b.count - 1} = P \ {p}
  <2> HIDE DEF z
  <2>1. ASSUME NEW j \in 0 .. a.count - 1, j # z PROVE a.levels[j].price \in P \ {p}
    <3>1. a.levels[j].price # p
      BY <1>1, <2>1, FitsOnce
    <3> QED BY <3>1, FitsTypes
  <2>2. ASSUME NEW q \in P \ {p}
        PROVE  \E j \in (0 .. a.count - 1) \ {z} : a.levels[j].price = q
    <3>1. PICK i \in 0 .. a.count - 1 : a.levels[i].price = q
      BY DEF Fits
    <3> QED BY <1>1, <3>1
  <2> QED BY <1>3, <1>5, <2>1, <2>2
<1>7. /\ \A i \in 0 .. b.count - 1 : b.levels[i].list = L[b.levels[i].price]
      /\ \A i, j \in 0 .. b.count - 1 :
           i < j => Better(s, b.levels[j].price, b.levels[i].price)
  <2> HIDE DEF z
  <2> QED BY <1>3, <1>5 DEF Fits
<1>8. Fits(s, b, P \ {p}, L)
  BY <1>4, <1>6, <1>7 DEF Fits
<1> QED BY <1>8 DEF b

(* There are as many cells in use as levels. *)
LEMMA CountOfFits ==
  ASSUME NEW s \in Side, NEW a, NEW P, NEW L, Fits(s, a, P, L), IsFiniteSet(P)
  PROVE  a.count = Cardinality(P)
<1> DEFINE f == [i \in 0 .. a.count - 1 |-> a.levels[i].price]
<1>1. f \in Bijection(0 .. a.count - 1, P)
  <2>1. f \in [0 .. a.count - 1 -> P]
    BY FitsTypes
  <2>2. \A i, j \in 0 .. a.count - 1 : f[i] = f[j] => i = j
    BY FitsOnce
  <2>3. \A p \in P : \E i \in 0 .. a.count - 1 : f[i] = p
    BY DEF Fits
  <2>4. DOMAIN f = 0 .. a.count - 1
    OBVIOUS
  <2> HIDE DEF f
  <2> QED BY <2>1, <2>2, <2>3, <2>4 DEF Bijection, Injection, IsInjective, Surjection
<1>2. /\ a.count \in Nat /\ IsFiniteSet(0 .. a.count - 1)
      /\ Cardinality(0 .. a.count - 1) = a.count
  <2>1. a.count \in Nat /\ 0 \in Int /\ a.count - 1 \in Int
        /\ (IF 0 > a.count - 1 THEN 0 ELSE (a.count - 1) - 0 + 1) = a.count
    BY FitsTypes
  <2> QED BY <2>1, FS_Interval
<1> HIDE DEF f
<1> QED BY <1>1, <1>2, FS_Bijection DEF ExistsBijection

(***************************************************************************)
(* A level is made in the place the binary search finds; the cells behind  *)
(* it move up, for which there is room.                                    *)
(***************************************************************************)
LEMMA FitsInsert ==
  ASSUME NEW s \in Side, NEW a, NEW P, NEW L, Fits(s, a, P, L),
         NEW p \in Price \ P, a.count <= Capacity, L[p] = EmptyLevel
  PROVE  LET lo == Cells(s, a)!Lower(p)
             b == [levels |-> Cells(s, a)!ShiftedUp(lo, p), count |-> a.count + 1]
         IN  /\ Fits(s, b, P \cup {p}, L)
             /\ lo \in 0 .. b.count - 1 /\ b.levels[lo].price = p
<1> DEFINE lo == Cells(s, a)!Lower(p)
           b == [levels |-> Cells(s, a)!ShiftedUp(lo, p), count |-> a.count + 1]
           new == [price |-> p, list |-> EmptyLevel]
<1>1. /\ lo \in 0 .. a.count
      /\ \A j \in 0 .. a.count - 1 : j < lo => Better(s, p, a.levels[j].price)
      /\ \A j \in 0 .. a.count - 1 : j >= lo => Better(s, a.levels[j].price, p)
  BY LowerOfFits
<1> HIDE DEF lo
<1>2. /\ a.count \in Nat /\ Capacity \in Nat /\ lo \in Nat
      /\ a.levels \in [0 .. Capacity -> [price: Price, list: LevelObject]]
  BY <1>1, FitsTypes
<1>3. b.levels = [j \in 0 .. Capacity |->
                    CASE j = lo -> new
                      [] j > lo /\ j <= a.count -> a.levels[j - 1]
                      [] OTHER -> a.levels[j]]
  <2>1. Cells(s, a)!MaxLevels - 1 = Capacity
    BY <1>2 DEF Cells!MaxLevels
  <2>2. b.levels = Cells(s, a)!ShiftedUp(lo, p)
    OBVIOUS
  <2> HIDE DEF b
  <2> QED BY <2>1, <2>2 DEF Cells!ShiftedUp
<1>4. b.count = a.count + 1 /\ b = [levels |-> b.levels, count |-> b.count]
  OBVIOUS
<1> HIDE DEF b
<1>5. /\ b.levels[lo] = new
      /\ \A j \in 0 .. a.count - 1 : j < lo => b.levels[j] = a.levels[j]
      /\ \A j \in 0 .. a.count - 1 : j >= lo => b.levels[j + 1] = a.levels[j]
      /\ \A j \in 0 .. b.count - 1 :
           \/ j = lo
           \/ j < lo /\ j \in 0 .. a.count - 1
           \/ j - 1 >= lo /\ j - 1 \in 0 .. a.count - 1 /\ j = (j - 1) + 1
      /\ lo \in 0 .. b.count - 1
  <2> HIDE DEF new
  <2> QED BY <1>1, <1>2, <1>3, <1>4, SMTT(30)
<1>6. b \in [levels: [0 .. Capacity -> [price: Price, list: LevelObject]],
             count: 0 .. Capacity + 1]
  <2>1. new \in [price: Price, list: LevelObject]
    BY DEF LevelObject, EmptyLevel, IndexOrNil
  <2>2. \A j \in 0 .. Capacity : j > lo => j - 1 \in 0 .. Capacity
    BY <1>2
  <2> HIDE DEF new
  <2>3. \A j \in 0 .. Capacity : b.levels[j] \in [price: Price, list: LevelObject]
    BY <1>2, <1>3, <2>1, <2>2
  <2>4. b.levels \in [0 .. Capacity -> [price: Price, list: LevelObject]]
    BY <1>3, <2>3
  <2>5. b.count \in 0 .. Capacity + 1
    BY <1>2, <1>4
  <2> QED BY <1>4, <2>4, <2>5
<1>7. \A j \in 0 .. a.count - 1 :
        /\ a.levels[j].price \in P /\ a.levels[j].list = L[a.levels[j].price]
  BY FitsTypes DEF Fits
<1>8. ASSUME NEW j \in 0 .. b.count - 1
      PROVE  /\ b.levels[j].price \in P \cup {p}
             /\ b.levels[j].list = L[b.levels[j].price]
  <2>1. CASE j = lo
    BY <1>5, <2>1
  <2>2. CASE j < lo /\ j \in 0 .. a.count - 1
    BY <1>5, <1>7, <2>2
  <2>3. CASE j - 1 >= lo /\ j - 1 \in 0 .. a.count - 1 /\ j = (j - 1) + 1
    <3>1. b.levels[j] = a.levels[j - 1]
      BY <1>5, <2>3
    <3> QED BY <1>7, <2>3, <3>1
  <2> QED BY <1>5, <2>1, <2>2, <2>3
<1>9. ASSUME NEW q \in P \cup {p}
      PROVE  \E j \in 0 .. b.count - 1 : b.levels[j].price = q
  <2>1. CASE q = p
    BY <1>5, <2>1
  <2>2. CASE q \in P
    <3>1. PICK j \in 0 .. a.count - 1 : a.levels[j].price = q
      BY <2>2 DEF Fits
    <3>2. j \in 0 .. b.count - 1 /\ j + 1 \in 0 .. b.count - 1
          /\ (j < lo \/ j >= lo)
      BY <1>2, <1>4
    <3> QED BY <1>5, <3>1, <3>2
  <2> QED BY <2>1, <2>2
<1>10. ASSUME NEW i \in 0 .. b.count - 1, NEW j \in 0 .. b.count - 1, i < j
       PROVE  Better(s, b.levels[j].price, b.levels[i].price)
  <2>0. \A k, l \in 0 .. a.count - 1 :
          k < l => Better(s, a.levels[l].price, a.levels[k].price)
    BY DEF Fits
  <2>1. CASE j < lo /\ j \in 0 .. a.count - 1
    <3>1. i < lo /\ i \in 0 .. a.count - 1
      BY <1>2, <1>10, <2>1
    <3> QED BY <1>5, <1>10, <2>0, <2>1, <3>1
  <2>2. CASE j = lo
    <3>1. i < lo /\ i \in 0 .. a.count - 1
      BY <1>1, <1>2, <1>10, <2>2
    <3> QED BY <1>1, <1>5, <2>2, <3>1
  <2>3. CASE j - 1 >= lo /\ j - 1 \in 0 .. a.count - 1 /\ j = (j - 1) + 1
    <3>1. b.levels[j] = a.levels[j - 1]
      BY <1>5, <2>3
    <3>2. CASE i = lo
      BY <1>1, <1>5, <2>3, <3>1, <3>2
    <3>3. CASE i < lo /\ i \in 0 .. a.count - 1
      <4>1. i < j - 1
        BY <1>2, <2>3, <3>3
      <4> QED BY <1>5, <2>0, <2>3, <3>1, <3>3, <4>1
    <3>4. CASE i - 1 >= lo /\ i - 1 \in 0 .. a.count - 1 /\ i = (i - 1) + 1
      <4>1. i - 1 < j - 1 /\ b.levels[i] = a.levels[i - 1]
        BY <1>5, <1>10, <2>3, <3>4
      <4> QED BY <2>0, <2>3, <3>1, <3>4, <4>1
    <3> QED BY <1>5, <3>2, <3>3, <3>4
  <2> QED BY <1>5, <2>1, <2>2, <2>3
<1>11. Fits(s, b, P \cup {p}, L)
  BY <1>6, <1>8, <1>9, <1>10 DEF Fits
<1>12. lo \in 0 .. b.count - 1 /\ b.levels[lo].price = p
  BY <1>5
<1> QED BY <1>11, <1>12 DEF b, lo

-----------------------------------------------------------------------------
(* The inductive invariant.                                                *)

(* The arrays hold the levels Book means. *)
ArraysFit == /\ DOMAIN arrays = Side
             /\ \A s \in Side : Fits(s, arrays[s], prices[s], level[s])

(* The conjunction carried from step to step. *)
LevelsInv == IndInv /\ ArraysFit /\ ReferencesGood

(* A step that changes one side's array. *)
LEMMA ArraysStep ==
  ASSUME ArraysFit, NEW s \in Side, NEW b, arrays' = [arrays EXCEPT ![s] = b],
         NEW P, P = prices'[s], NEW L, L = level'[s], Fits(s, b, P, L),
         \A t \in Side \ {s} : prices'[t] = prices[t] /\ level'[t] = level[t]
  PROVE  ArraysFit' /\ arrays'[s] = b
<1>1. DOMAIN arrays' = Side /\ arrays'[s] = b
      /\ \A t \in Side \ {s} : arrays'[t] = arrays[t]
  BY DEF ArraysFit
<1>2. ASSUME NEW t \in Side PROVE Fits(t, arrays'[t], prices'[t], level'[t])
  <2>1. CASE t = s
    BY <1>1, <2>1
  <2>2. CASE t # s
    BY <1>1, <2>2 DEF ArraysFit
  <2> QED BY <2>1, <2>2
<1> QED BY <1>1, <1>2 DEF ArraysFit

(* A step that changes neither the arrays nor the levels. *)
LEMMA ArraysKept ==
  ASSUME ArraysFit, UNCHANGED <<arrays, prices, level>>
  PROVE  ArraysFit'
BY DEF ArraysFit

(***************************************************************************)
(* cancel_order and modify_order: the order leaves its level in the cell   *)
(* the binary search finds, and the cell goes if the level is empty.       *)
(***************************************************************************)
LEMMA UnlinkFits ==
  ASSUME IndInv, ArraysFit, pc = "idle", NEW i \in Index, Linked(i),
         level_unlink(slots[i].side, slots[i].price, i),
         EraseIfEmpty(slots[i].side, slots[i].price,
                      LevelWithout(level[slots[i].side][slots[i].price], i)),
         Unlink(i)
  PROVE  ArraysFit' /\ ref' = NoRef
<1>1. PICK s \in Side, p \in Price : s = slots[i].side /\ p = slots[i].price
  BY LinkedOrder
<1>2. p \in prices[s]
  BY <1>1, LinkedOrder DEF IndInv, LevelsHoldOrders
<1>3. PICK a, P, L, M : /\ a = arrays[s] /\ P = prices[s]
                        /\ L = level[s] /\ M = level'[s]
  OBVIOUS
<1>4. Fits(s, a, P, L) /\ p \in P
  BY <1>2, <1>3 DEF ArraysFit
<1>5. PICK lo : lo = Cells(s, a)!Lower(p)
  OBVIOUS
<1>6. lo \in 0 .. a.count - 1 /\ a.levels[lo].price = p
  BY <1>4, <1>5, LowerOfFits
<1>7. a.levels[lo].list = L[p]
  BY <1>4, <1>6 DEF Fits
<1>8. PICK l : l = LevelWithout(L[p], i)
  OBVIOUS
<1>9. /\ level \in [Side -> [Price -> LevelObject]]
      /\ level' \in [Side -> [Price -> LevelObject]]
  BY LinkedOrder, UnlinkType DEF IndInv, TypeOK, LevelTypeOK
<1>10. /\ M = [L EXCEPT ![p] = l] /\ L \in [Price -> LevelObject]
       /\ l \in LevelObject
       /\ \A t \in Side \ {s} : level'[t] = level[t]
  <2>1. level' = [level EXCEPT ![s][p] = l]
    BY <1>1, <1>3, <1>8 DEF level_unlink
  <2> QED BY <1>3, <1>9, <2>1
<1>11. Fits(s, Put(a, lo, l), P, M)
  <2>1. M[a.levels[lo].price] = l
        /\ \A q \in P : q # a.levels[lo].price => M[q] = L[q]
    BY <1>4, <1>6, <1>10, FitsTypes
  <2>2. l \in LevelObject
    BY <1>10
  <2> QED BY <1>4, <1>6, <2>1, <2>2, FitsPut
<1>12. ref' = NoRef
       /\ arrays' = [arrays EXCEPT ![s] = IF l.head = kNilIndex
                                            THEN erase(s, Put(a, lo, l), p)
                                            ELSE Put(a, lo, l)]
  BY <1>1, <1>3, <1>5, <1>7, <1>8 DEF Unlink, Position, ListAt
<1>13. /\ prices' = IF l.head = kNilIndex
                      THEN [prices EXCEPT ![s] = P \ {p}] ELSE prices
       /\ prices \in [Side -> SUBSET Price]
  BY <1>1, <1>3, <1>8 DEF EraseIfEmpty, erase_level, IndInv, TypeOK
<1>14. CASE l.head = kNilIndex
  <2>1. Fits(s, erase(s, Put(a, lo, l), p), P \ {p}, M)
    BY <1>4, <1>11, FitsErase
  <2> QED BY <1>3, <1>10, <1>12, <1>13, <1>14, <2>1, ArraysStep
<1>15. CASE l.head # kNilIndex
  BY <1>3, <1>10, <1>11, <1>12, <1>13, <1>15, ArraysStep
<1> QED BY <1>12, <1>14, <1>15

(***************************************************************************)
(* The end of rest and of modify_order: the order is appended to the level *)
(* the reference denotes, which is the one Book means.                     *)
(***************************************************************************)
LEMMA AppendFits ==
  ASSUME LevelsInv, pc = "append", UNCHANGED prices,
         level_append(slots[idx].side, slots[idx].price, idx),
         AppendThere(idx)
  PROVE  ArraysFit' /\ ref' = NoRef
<1>1. idx \in Index /\ slots[idx] \in Order
  <2>1. idx \in Index /\ Live(idx)
    BY DEF LevelsInv, IndInv, CommandOK, TypeOK, IndexOrNil
  <2> QED BY <2>1, LiveIsOrder DEF LevelsInv, IndInv
<1>2. PICK s \in Side, p \in Price :
        s = slots[idx].side /\ p = slots[idx].price
  BY <1>1 DEF Order
<1>3. PICK a, P, L, M, r : /\ a = arrays[s] /\ P = prices[s] /\ r = ref
                           /\ L = level[s] /\ M = level'[s]
  OBVIOUS
<1>4. Fits(s, a, P, L)
  BY <1>3 DEF LevelsInv, ArraysFit
<1>5. r \in 0 .. a.count - 1 /\ a.levels[r].price = p
  BY <1>2, <1>3 DEF LevelsInv, ReferencesGood, Meant, best
<1>6. a.levels[r].list = L[p]
  BY <1>4, <1>5 DEF Fits
<1>7. PICK l : l = [head |-> IF L[p].tail # kNilIndex THEN L[p].head ELSE idx,
                    tail |-> idx]
  OBVIOUS
<1>8. level \in [Side -> [Price -> LevelObject]] /\ L[p] \in LevelObject
  BY <1>3 DEF LevelsInv, IndInv, TypeOK, LevelTypeOK
<1>9. l \in LevelObject
  BY <1>1, <1>7, <1>8 DEF LevelObject, IndexOrNil
<1>10. /\ M = [L EXCEPT ![p] = l] /\ L \in [Price -> LevelObject]
       /\ \A t \in Side \ {s} : level'[t] = level[t]
  <2>1. level' = [level EXCEPT ![s][p] = l]
    BY <1>2, <1>3, <1>7 DEF level_append
  <2> QED BY <1>3, <1>8, <2>1
<1>11. Fits(s, Put(a, r, l), P, M)
  <2>1. M[a.levels[r].price] = l
        /\ \A q \in P : q # a.levels[r].price => M[q] = L[q]
    BY <1>4, <1>5, <1>10, FitsTypes
  <2> QED BY <1>4, <1>5, <1>9, <2>1, FitsPut
<1>12. ref' = NoRef /\ arrays' = [arrays EXCEPT ![s] = Put(a, r, l)]
  BY <1>2, <1>3, <1>6, <1>7 DEF AppendThere, ListAt
<1> QED BY <1>3, <1>10, <1>11, <1>12, ArraysStep DEF LevelsInv

(***************************************************************************)
(* cross: the head of the best level leaves it, and the level is popped    *)
(* off the end of the array if it is empty; else the reference stays good. *)
(***************************************************************************)
LEMMA SweepFits ==
  ASSUME LevelsInv, CrossFull, SweepHead
  PROVE  ArraysFit' /\ ReferencesGood'
<1>1. PICK p \in Price :
        /\ CrossLevel(p)
        /\ LET opp == Opposite(cmd.side)
               i == level[opp][p].head
           IN  /\ i # kNilIndex
               /\ level_unlink(opp, p, i)
               /\ EraseIfEmpty(opp, p, LevelWithout(level[opp][p], i))
  BY DEF CrossFull
<1>2. pc = "cross" /\ pc' = "cross" /\ cmd' = cmd
  BY DEF CrossFull
<1>3. PICK s, i : s = Opposite(cmd.side) /\ i = level[s][p].head
  OBVIOUS
<1>4. s \in Side /\ i \in Index /\ Linked(i) /\ slots[i] \in Order
      /\ slots[i].side = s /\ slots[i].price = p
  BY <1>1, <1>2, <1>3, Maker DEF LevelsInv
<1>5. PICK a, P, L, M : /\ a = arrays[s] /\ P = prices[s]
                        /\ L = level[s] /\ M = level'[s]
  OBVIOUS
<1>6. Fits(s, a, P, L) /\ IsBest(s, P, p) /\ crosses(p)
  BY <1>1, <1>3, <1>4, <1>5 DEF LevelsInv, ArraysFit, CrossLevel
<1>7. PICK r : r = a.count - 1
  OBVIOUS
<1>8. r \in 0 .. a.count - 1 /\ a.levels[r].price = p
  BY <1>4, <1>6, <1>7, LastIsBest
<1>9. a.levels[r].list = L[p]
  BY <1>6, <1>8 DEF Fits
<1>10. SweepRef(s) = r
  BY <1>2, <1>3, <1>5, <1>7
     DEF LevelsInv, ReferencesGood, SweepRef, best
<1>11. PICK l : l = LevelWithout(L[p], i)
  OBVIOUS
<1>12. /\ level \in [Side -> [Price -> LevelObject]]
       /\ level' \in [Side -> [Price -> LevelObject]]
  <2>1. level_unlink(slots[i].side, slots[i].price, i)
    BY <1>1, <1>3, <1>4
  <2> QED BY <1>4, <2>1, UnlinkType DEF LevelsInv, IndInv, TypeOK, LevelTypeOK
<1>13. /\ M = [L EXCEPT ![p] = l] /\ L \in [Price -> LevelObject]
       /\ l \in LevelObject
       /\ \A t \in Side \ {s} : level'[t] = level[t]
  <2>1. level' = [level EXCEPT ![s][p] = l]
    BY <1>1, <1>3, <1>5, <1>11 DEF level_unlink
  <2> QED BY <1>4, <1>5, <1>12, <2>1
<1>14. PICK b : b = Put(a, r, l)
  OBVIOUS
<1>15. Fits(s, b, P, M) /\ b.count = a.count /\ b.levels[r].price = p
  <2>1. M[a.levels[r].price] = l
        /\ \A q \in P : q # a.levels[r].price => M[q] = L[q]
    BY <1>6, <1>8, <1>13, FitsTypes
  <2>2. l \in LevelObject /\ Fits(s, a, P, L) /\ s \in Side
    BY <1>4, <1>6, <1>13
  <2> QED BY <1>8, <1>14, <2>1, <2>2, FitsPut
<1>16. /\ arrays' = [arrays EXCEPT ![s] = IF l.head = kNilIndex
                                           THEN pop_best(b) ELSE b]
       /\ ref' = IF l.head = kNilIndex THEN NoRef ELSE r
  BY <1>3, <1>5, <1>9, <1>10, <1>11, <1>14 DEF SweepHead, ListAt
<1>17. /\ prices' = IF l.head = kNilIndex
                      THEN [prices EXCEPT ![s] = P \ {p}] ELSE prices
       /\ prices \in [Side -> SUBSET Price]
  BY <1>1, <1>3, <1>5, <1>11
     DEF EraseIfEmpty, erase_level, LevelsInv, IndInv, TypeOK
<1>18. CASE l.head = kNilIndex
  <2>1. Fits(s, pop_best(b), P \ {p}, M)
    BY <1>4, <1>6, <1>15, FitsPop
  <2>2. ArraysFit'
    BY <1>4, <1>5, <1>13, <1>16, <1>17, <1>18, <2>1, ArraysStep DEF LevelsInv
  <2> QED BY <1>2, <1>16, <1>18, <2>2 DEF ReferencesGood
<1>19. CASE l.head # kNilIndex
  <2>1. ArraysFit' /\ arrays'[s] = b
    <3>1. /\ arrays' = [arrays EXCEPT ![s] = b] /\ P = prices'[s]
          /\ \A t \in Side \ {s} : prices'[t] = prices[t]
                                  /\ level'[t] = level[t]
      BY <1>5, <1>13, <1>16, <1>17, <1>19
    <3> QED BY <1>4, <1>5, <1>15, <3>1, ArraysStep DEF LevelsInv
  <2>2. /\ Opposite(cmd'.side) = s /\ ref' = r
        /\ best(s)' = r /\ crosses(p)'
        /\ (arrays[s].levels[ref].price)' = p
    BY <1>2, <1>3, <1>6, <1>7, <1>15, <1>16, <1>19, <2>1 DEF best, crosses
  <2> QED BY <1>2, <2>1, <2>2 DEF ReferencesGood
<1> QED BY <1>18, <1>19

(***************************************************************************)
(* rest and modify_order asking for the level of a price: there is room    *)
(* for it, it is put in its place, and the reference denotes it.           *)
(***************************************************************************)
LEMMA GetFits ==
  ASSUME LevelsInv, pc \in {"rest", "move"},
         NEW s \in Side, NEW p \in Price,
         level_for_insert(s, p), get_or_insert(s, p), UNCHANGED level
  PROVE  /\ ArraysFit'
         /\ ref' \in 0 .. arrays'[s].count - 1
         /\ arrays'[s].levels[ref'].price = p
<1>1. PICK a, P, L : a = arrays[s] /\ P = prices[s] /\ L = level[s]
  OBVIOUS
<1>2. Fits(s, a, P, L)
  BY <1>1 DEF LevelsInv, ArraysFit
<1>3. PICK lo : lo = Cells(s, a)!Lower(p)
  OBVIOUS
<1>4. PICK b : b = [levels |-> Cells(s, a)!ShiftedUp(lo, p),
                    count |-> a.count + 1]
  OBVIOUS
<1>5. /\ ref' = lo
      /\ arrays' = [arrays EXCEPT ![s] =
                      IF Cells(s, a)!Holds(lo, p) THEN a ELSE b]
  BY <1>1, <1>3, <1>4 DEF get_or_insert, Position
<1>6. /\ prices' = [prices EXCEPT ![s] = P \cup {p}]
      /\ prices \in [Side -> SUBSET Price]
  BY <1>1 DEF level_for_insert, LevelsInv, IndInv, TypeOK
<1>7. Cells(s, a)!Holds(lo, p) <=> p \in P
  BY <1>2, <1>3, LowerOfFits
<1>8. CASE p \in P
  <2>1. lo \in 0 .. a.count - 1 /\ a.levels[lo].price = p
    BY <1>2, <1>3, <1>8, LowerOfFits
  <2>2. P = prices'[s] /\ L = level'[s]
    BY <1>1, <1>6, <1>8
  <2>3. ArraysFit' /\ arrays'[s] = a
    BY <1>2, <1>5, <1>6, <1>7, <1>8, <2>2, ArraysStep DEF LevelsInv
  <2> QED BY <1>5, <2>1, <2>3
<1>9. CASE p \notin P
  <2>1. \A q \in P : Queue(s, q) # {}
    BY <1>1, <1>6 DEF LevelsInv, IndInv, LevelsHoldOrders
  <2>2. a.count <= Capacity
    <3>1. P \in SUBSET Price
      BY <1>1, <1>6
    <3>2. IsFiniteSet(P) /\ Cardinality(P) <= Capacity
      BY <2>1, <3>1, HeldLevels
    <3> QED BY <1>2, <3>2, CountOfFits
  <2>3. L[p] = EmptyLevel
    <3>1. Queue(s, p) = {}
      BY <1>1, <1>9 DEF LevelsInv, IndInv, LevelsHoldOrders
    <3>2. L[p] \in LevelObject
      BY <1>1 DEF LevelsInv, IndInv, TypeOK, LevelTypeOK
    <3>3. L[p].head = kNilIndex /\ L[p].tail = kNilIndex
      BY <1>1, <3>1 DEF LevelsInv, IndInv, QueuesInTimeOrder, First
    <3> QED BY <3>2, <3>3 DEF LevelObject, EmptyLevel
  <2>4. /\ Fits(s, b, P \cup {p}, L)
        /\ lo \in 0 .. b.count - 1 /\ b.levels[lo].price = p
    BY <1>2, <1>3, <1>4, <1>9, <2>2, <2>3, FitsInsert
  <2>5. P \cup {p} = prices'[s] /\ L = level'[s]
    BY <1>1, <1>6
  <2>6. ArraysFit' /\ arrays'[s] = b
    BY <1>5, <1>6, <1>7, <1>9, <2>4, <2>5, ArraysStep DEF LevelsInv
  <2> QED BY <1>5, <2>4, <2>6
<1> QED BY <1>8, <1>9

(***************************************************************************)
(* rest without a free slot: the level it made goes again, and a level     *)
(* that was there before stays.                                            *)
(***************************************************************************)
LEMMA DropFits ==
  ASSUME LevelsInv, RestDrop
  PROVE  ArraysFit'
<1>1. /\ pc = "allocate" /\ UNCHANGED level
      /\ EraseIfEmpty(cmd.side, cmd.price, level[cmd.side][cmd.price])
  BY DEF RestDrop, RestFull
<1>2. PICK s \in Side, p \in Price : s = cmd.side /\ p = cmd.price
  BY <1>1 DEF LevelsInv, IndInv, CommandOK, Command, IsAdd
<1>3. PICK a, P, L : a = arrays[s] /\ P = prices[s] /\ L = level[s]
  OBVIOUS
<1>4. Fits(s, a, P, L) /\ p \in P
  BY <1>1, <1>2, <1>3 DEF LevelsInv, ArraysFit, IndInv, PendingLevel
<1>5. PICK r : r = ref
  OBVIOUS
<1>6. r \in 0 .. a.count - 1 /\ a.levels[r].price = p
  BY <1>1, <1>2, <1>3, <1>5 DEF LevelsInv, ReferencesGood, Meant, best
<1>7. a.levels[r].list = L[p]
  BY <1>4, <1>6 DEF Fits
<1>8. arrays' = [arrays EXCEPT ![s] = IF L[p].head = kNilIndex
                                        THEN erase(s, a, p) ELSE a]
  BY <1>2, <1>3, <1>5, <1>7 DEF RestDrop
<1>9. /\ prices' = IF L[p].head = kNilIndex
                     THEN [prices EXCEPT ![s] = P \ {p}] ELSE prices
      /\ prices \in [Side -> SUBSET Price]
  BY <1>1, <1>2, <1>3
     DEF EraseIfEmpty, erase_level, LevelsInv, IndInv, TypeOK
<1>10. CASE L[p].head = kNilIndex
  <2>1. Fits(s, erase(s, a, p), P \ {p}, L)
    BY <1>4, FitsErase
  <2> QED BY <1>1, <1>3, <1>8, <1>9, <1>10, <2>1, ArraysStep DEF LevelsInv
<1>11. CASE L[p].head # kNilIndex
  BY <1>1, <1>3, <1>4, <1>8, <1>9, <1>11, ArraysStep DEF LevelsInv
<1> QED BY <1>10, <1>11

-----------------------------------------------------------------------------
(* Every step keeps the inductive invariant.                               *)

(* Where the arrays are left alone and no reference is in use before or    *)
(* after, nothing is to be shown of it.                                    *)
LEMMA NoReference ==
  ASSUME pc' \notin {"allocate", "append"}, ref' = NoRef
  PROVE  ReferencesGood'
BY DEF ReferencesGood

(* cancel_order keeps arrays and references right. *)
LEMMA CancelFromFits ==
  ASSUME LevelsInv, NEW c \in Commands, CancelFrom(c)
  PROVE  ArraysFit' /\ ReferencesGood'
<1>1. PICK i : i = id_map[c.id].index
  OBVIOUS
<1>2. /\ pc = "idle" /\ Found(c) /\ pc' = "idle"
      /\ level_unlink(slots[i].side, slots[i].price, i)
      /\ EraseIfEmpty(slots[i].side, slots[i].price,
                      LevelWithout(level[slots[i].side][slots[i].price], i))
      /\ Unlink(i)
  BY <1>1 DEF CancelFrom, CancelOrder, Dequeue, Finish
<1>3. i \in Index /\ Linked(i)
  BY <1>1, <1>2, FoundOrder DEF LevelsInv
<1>4. ArraysFit' /\ ref' = NoRef
  BY <1>2, <1>3, UnlinkFits DEF LevelsInv
<1> QED BY <1>2, <1>4, NoReference

(* So does modify_order taking the order out of its level. *)
LEMMA MoveFromFits ==
  ASSUME LevelsInv, NEW c \in Commands, MoveFrom(c)
  PROVE  ArraysFit' /\ ReferencesGood'
<1>1. PICK i : i = id_map[c.id].index
  OBVIOUS
<1>2. /\ pc = "idle" /\ Found(c) /\ pc' = "move"
      /\ level_unlink(slots[i].side, slots[i].price, i)
      /\ EraseIfEmpty(slots[i].side, slots[i].price,
                      LevelWithout(level[slots[i].side][slots[i].price], i))
      /\ Unlink(i)
  BY <1>1 DEF MoveFrom, ModifyMove, ModifyRefused, Dequeue, Goto
<1>3. i \in Index /\ Linked(i)
  BY <1>1, <1>2, FoundOrder DEF LevelsInv
<1>4. ArraysFit' /\ ref' = NoRef
  BY <1>2, <1>3, UnlinkFits DEF LevelsInv
<1> QED BY <1>2, <1>4, NoReference

(* modify_order getting the level of the new price. *)
LEMMA MoveToFits ==
  ASSUME LevelsInv, MoveTo
  PROVE  ArraysFit' /\ ReferencesGood'
<1>1. /\ pc = "move" /\ pc' = "append" /\ UNCHANGED <<slots, idx, level>>
      /\ level_for_insert(slots[idx].side, slots[idx].price)
      /\ get_or_insert(slots[idx].side, slots[idx].price)
  BY DEF MoveTo, ModifyLevel, Goto, poolVars
<1>2. idx \in Index /\ slots[idx] \in Order
  <2>1. idx \in Index /\ Live(idx)
    BY <1>1 DEF LevelsInv, IndInv, CommandOK, TypeOK, IndexOrNil
  <2> QED BY <2>1, LiveIsOrder DEF LevelsInv, IndInv
<1>3. PICK s \in Side, p \in Price :
        s = slots[idx].side /\ p = slots[idx].price
  BY <1>2 DEF Order
<1>4. /\ ArraysFit'
      /\ ref' \in 0 .. arrays'[s].count - 1
      /\ arrays'[s].levels[ref'].price = p
  BY <1>1, <1>3, GetFits
<1>5. Meant' = <<s, p>>
  BY <1>1, <1>3 DEF Meant
<1> QED BY <1>1, <1>4, <1>5 DEF ReferencesGood, best

(* rest getting the level of the residual. *)
LEMMA RestAtFits ==
  ASSUME LevelsInv, RestAt
  PROVE  ArraysFit' /\ ReferencesGood'
<1>1. /\ pc = "rest" /\ pc' = "allocate" /\ UNCHANGED <<cmd, level>>
      /\ level_for_insert(cmd.side, cmd.price)
      /\ get_or_insert(cmd.side, cmd.price)
  BY DEF RestAt, RestLevel, Goto
<1>2. PICK s \in Side, p \in Price : s = cmd.side /\ p = cmd.price
  BY <1>1 DEF LevelsInv, IndInv, CommandOK, Command
<1>3. /\ ArraysFit'
      /\ ref' \in 0 .. arrays'[s].count - 1
      /\ arrays'[s].levels[ref'].price = p
  BY <1>1, <1>2, GetFits
<1>4. Meant' = <<s, p>>
  BY <1>1, <1>2 DEF Meant
<1> QED BY <1>1, <1>3, <1>4 DEF ReferencesGood, best

(* The sweep trading with a part of the head keeps its reference. *)
LEMMA SweepPartialFits ==
  ASSUME LevelsInv, SweepPartial
  PROVE  ArraysFit' /\ ReferencesGood'
<1>1. /\ pc = "cross" /\ pc' = "cross"
      /\ UNCHANGED <<arrays, prices, level, cmd>>
  BY DEF SweepPartial, CrossPartial
<1>2. PICK p \in Price : CrossLevel(p)
  BY DEF SweepPartial, CrossPartial
<1>3. PICK s : s = Opposite(cmd.side)
  OBVIOUS
<1>4. s \in Side
  BY <1>1, <1>3 DEF Opposite, Side, LevelsInv, IndInv, CommandOK, Command
<1>5. Fits(s, arrays[s], prices[s], level[s])
      /\ IsBest(s, prices[s], p) /\ crosses(p)
  BY <1>2, <1>3, <1>4 DEF LevelsInv, ArraysFit, CrossLevel
<1>6. arrays[s].levels[best(s)].price = p
  BY <1>4, <1>5, LastIsBest DEF best
<1>7. ref' = best(s)
  BY <1>1, <1>3 DEF SweepPartial, SweepRef, LevelsInv, ReferencesGood
<1>8. ArraysFit'
  BY <1>1, ArraysKept DEF LevelsInv
<1>9. best(s)' = best(s) /\ crosses(p)' /\ Opposite(cmd.side)' = s
  BY <1>1, <1>3, <1>5 DEF best, crosses
<1> QED BY <1>1, <1>6, <1>7, <1>8, <1>9 DEF ReferencesGood

(* rest taking a slot: the order it writes is the one the reference is for. *)
LEMMA AllocateFits ==
  ASSUME LevelsInv, RestAllocate, UNCHANGED <<arrays, ref>>
  PROVE  ArraysFit' /\ ReferencesGood'
<1>1. /\ pc = "allocate" /\ pc' = "append" /\ idx' = free_head
      /\ UNCHANGED <<cmd, prices, level>>
      /\ allocate(incoming)
  BY DEF RestAllocate, Goto
<1>2. /\ free_head # kNilIndex /\ slots' = [slots EXCEPT ![free_head] = incoming]
      /\ free_head \in Index
  BY <1>1 DEF allocate, exhausted, LevelsInv, IndInv, TypeOK, PoolTypeOK,
              IndexOrNil
<1>3. slots'[idx'] = incoming
  BY <1>1, <1>2 DEF LevelsInv, IndInv, TypeOK, PoolTypeOK
<1>4. Meant' = <<cmd.side, cmd.price>> /\ Meant = <<cmd.side, cmd.price>>
  BY <1>1, <1>3 DEF Meant, incoming
<1>5. ArraysFit'
  BY <1>1, ArraysKept DEF LevelsInv
<1> QED BY <1>1, <1>4, <1>5 DEF ReferencesGood, best, LevelsInv

(* The steps that write to no level. *)
LEMMA ElsewhereFits ==
  ASSUME LevelsInv, Elsewhere
  PROVE  ArraysFit' /\ ReferencesGood'
<1>1. CASE RestAllocate
  BY <1>1, AllocateFits DEF Elsewhere
<1>2. CASE \E c \in Commands : \/ AddReject(c) \/ AddAccept(c) \/ CancelMiss(c)
                               \/ ModifyReject(c) \/ ModifyInPlace(c)
  <2>1. /\ pc = "idle" /\ pc' \in {"idle", "fok", "cross"}
        /\ UNCHANGED <<arrays, ref, prices, level>>
    BY <1>2 DEF AddReject, AddAccept, CancelMiss, ModifyReject, ModifyInPlace,
                Dequeue, Finish, Goto, Elsewhere
  <2>2. ref = NoRef
    BY <2>1 DEF LevelsInv, ReferencesGood
  <2> QED BY <2>1, <2>2, ArraysKept, NoReference DEF LevelsInv
<1>3. CASE FokLevel \/ FokOrder \/ FokReject \/ FokPass
  <2>1. /\ pc = "fok" /\ pc' \in {"idle", "fok", "cross"}
        /\ UNCHANGED <<arrays, ref, prices, level>>
    BY <1>3 DEF FokLevel, FokOrder, FokReject, FokPass, Finish, Goto, Elsewhere
  <2>2. ref = NoRef
    BY <2>1 DEF LevelsInv, ReferencesGood
  <2> QED BY <2>1, <2>2, ArraysKept, NoReference DEF LevelsInv
<1>4. CASE Stopped
  <2>1. /\ pc = "idle" /\ pc' = "idle"
        /\ UNCHANGED <<arrays, ref, prices, level>>
    BY <1>4 DEF Stopped, Elsewhere, vars, commandVars
  <2>2. ref = NoRef
    BY <2>1 DEF LevelsInv, ReferencesGood
  <2> QED BY <2>1, <2>2, ArraysKept, NoReference DEF LevelsInv
<1> QED BY <1>1, <1>2, <1>3, <1>4 DEF Elsewhere

(* Every step of the composition is a step of Book. *)
LEMMA LevelsStepIsBookStep == [LevelsNext]_levelsVars => [Next]_vars
BY DEF LevelsNext, levelsVars, Next, Start, Step, CancelFrom, MoveFrom, MoveTo,
   MoveAppend, SweepFull, SweepPartial, SweepEnds, RestAt, RestDrop, RestThere,
   Elsewhere

(* The initial arrays are empty, as the book is. *)
LEMMA LevelsInitFits == LevelsInit => LevelsInv
<1> SUFFICES ASSUME LevelsInit PROVE LevelsInv
  OBVIOUS
<1>1. IndInv
  BY InitInd DEF LevelsInit
<1>2. ASSUME NEW s \in Side
      PROVE  Fits(s, NewArray, {}, [p \in Price |-> EmptyLevel])
  <2>1. 0 .. NewArray.count - 1 = {} /\ NewArray.count = 0
    BY DEF NewArray
  <2>2. EmptyLevel \in LevelObject /\ 0 \in Price
    BY PriceAssumption DEF EmptyLevel, LevelObject, IndexOrNil, Price
  <2>3. NewArray \in [levels: [0 .. Capacity -> [price: Price, list: LevelObject]],
                      count: 0 .. Capacity + 1]
    BY <2>2, CapacityAssumption DEF NewArray
  <2> QED BY <2>1, <2>3 DEF Fits
<1>3. \A s \in Side : /\ arrays[s] = NewArray /\ prices[s] = {}
                      /\ level[s] = [p \in Price |-> EmptyLevel]
  BY DEF LevelsInit, Init, LevelInit
<1>4. ArraysFit
  BY <1>2, <1>3 DEF ArraysFit, LevelsInit
<1>5. ReferencesGood
  BY DEF ReferencesGood, LevelsInit, Init
<1> QED BY <1>1, <1>4, <1>5 DEF LevelsInv

(* Every step keeps the inductive invariant. *)
LEMMA LevelsNextInd == LevelsInv /\ [LevelsNext]_levelsVars => LevelsInv'
<1> SUFFICES ASSUME LevelsInv, [LevelsNext]_levelsVars PROVE LevelsInv'
  OBVIOUS
<1>1. IndInv'
  BY NextInd, LevelsStepIsBookStep DEF LevelsInv
<1> SUFFICES ArraysFit' /\ ReferencesGood'
  BY <1>1 DEF LevelsInv
<1>2. ASSUME NEW c \in Commands, CancelFrom(c) \/ MoveFrom(c)
      PROVE  ArraysFit' /\ ReferencesGood'
  BY <1>2, CancelFromFits, MoveFromFits
<1>3. CASE MoveTo \/ RestAt
  BY <1>3, MoveToFits, RestAtFits
<1>4. CASE MoveAppend \/ RestThere
  <2>1. /\ pc = "append" /\ UNCHANGED prices /\ pc' = "idle"
        /\ level_append(slots[idx].side, slots[idx].price, idx)
        /\ AppendThere(idx)
    BY <1>4 DEF MoveAppend, ModifyAppend, RestThere, RestAppend, Finish
  <2> QED BY <2>1, AppendFits, NoReference
<1>5. CASE SweepFull
  BY <1>5, SweepFits DEF SweepFull
<1>6. CASE SweepPartial
  BY <1>6, SweepPartialFits
<1>7. CASE SweepEnds
  <2>1. /\ pc' \in {"idle", "rest"} /\ ref' = NoRef
        /\ UNCHANGED <<arrays, prices, level>>
    BY <1>7 DEF SweepEnds, CrossStop, CrossDone, CrossResidual, Finish, Goto
  <2> QED BY <2>1, ArraysKept, NoReference DEF LevelsInv
<1>8. CASE RestDrop
  <2>1. pc' = "idle" /\ ref' = NoRef
    BY <1>8 DEF RestDrop, RestFull, Finish
  <2> QED BY <1>8, <2>1, DropFits, NoReference
<1>9. CASE Elsewhere
  BY <1>9, ElsewhereFits
<1>10. CASE UNCHANGED levelsVars
  <2>1. UNCHANGED <<arrays, ref, prices, level, pc, cmd, slots, idx>>
    BY <1>10 DEF levelsVars, vars, poolVars, commandVars
  <2>2. ArraysFit'
    BY <2>1, ArraysKept DEF LevelsInv
  <2> QED BY <2>1, <2>2 DEF LevelsInv, ReferencesGood, Meant, best, crosses
<1> QED BY <1>2, <1>3, <1>4, <1>5, <1>6, <1>7, <1>8, <1>9, <1>10 DEF LevelsNext

(* The inductive invariant holds at every program point. *)
LEMMA LevelsInvariance == LevelsSpec => []LevelsInv
<1> QED BY LevelsInitFits, LevelsNextInd, PTL DEF LevelsSpec

(***************************************************************************)
(* At every program point bids_ and asks_ are sorted and hold the levels   *)
(* Book means, each with its head and tail, for every capacity and price   *)
(* range: whatever is written through a Level& reaches the level it was    *)
(* taken for, however the cells have shifted before.                       *)
(***************************************************************************)
THEOREM ArraysAlwaysMatch == LevelsSpec => []ArraysMatchBook
<1>1. LevelsInv => ArraysMatchBook
  <2> SUFFICES ASSUME LevelsInv, NEW s \in Side
               PROVE  LET a == arrays[s]
                          used == 0 .. a.count - 1
                      IN  /\ Cells(s, a)!Sorted
                          /\ {a.levels[i].price : i \in used} = prices[s]
                          /\ \A i \in used : a.levels[i].list
                                               = level[s][a.levels[i].price]
    BY DEF ArraysMatchBook
  <2>1. PICK a : a = arrays[s]
    OBVIOUS
  <2>2. Fits(s, a, prices[s], level[s])
    BY <2>1 DEF LevelsInv, ArraysFit
  <2>3. Cells(s, a)!Sorted
    BY <2>2 DEF Fits, Better, Side, Cells!Sorted, Cells!better
  <2> QED BY <2>1, <2>2, <2>3 DEF Fits
<1> QED BY <1>1, LevelsInvariance, PTL

(***************************************************************************)
(* "The reference is good until the next insert or erase": no command      *)
(* writes through a Level& that an insertion, a removal or a pop has left  *)
(* behind, whatever the capacity and however many levels shift.            *)
(***************************************************************************)
THEOREM ReferencesStayGood == LevelsSpec => []ReferencesGood
<1>1. LevelsInv => ReferencesGood
  BY DEF LevelsInv
<1> QED BY <1>1, LevelsInvariance, PTL

-----------------------------------------------------------------------------
(* invariant_violation.                                                    *)

(* What a cell in use holds between commands. *)
LEMMA CellQueue ==
  ASSUME LevelsInv, pc = "idle", NEW s \in Side,
         NEW c \in 0 .. arrays[s].count - 1,
         NEW p, p = arrays[s].levels[c].price,
         NEW at, at = Chain(ListAt(s, c).head)
  PROVE  /\ p \in Price /\ ListAt(s, c) = level[s][p]
         /\ Queue(s, p) # {}
         /\ \E n \in 1 .. Capacity :
              Enumerates(Queue(s, p), at, n, level[s][p].tail)
<1>1. Fits(s, arrays[s], prices[s], level[s])
  BY DEF LevelsInv, ArraysFit
<1>2. p \in Price /\ p \in prices[s]
  BY <1>1, FitsTypes
<1>3. ListAt(s, c) = level[s][p]
  BY <1>1 DEF Fits, ListAt
<1>4. Queue(s, p) # {}
  BY <1>2 DEF LevelsInv, IndInv, LevelsHoldOrders
<1>5. PICK n \in 0 .. Capacity :
        Enumerates(Queue(s, p), at, n, level[s][p].tail)
  <2>1. at = Chain(level[s][p].head)
    BY <1>3
  <2> QED BY <1>2, <2>1, ChainEnumerates DEF LevelsInv, IndInv
<1>6. n # 0
  BY <1>4, <1>5 DEF Enumerates
<1>7. n \in 1 .. Capacity
  BY <1>6, CapacityAssumption
<1> QED BY <1>2, <1>3, <1>4, <1>5, <1>7

(* check_side finds nothing wrong with a level. *)
LEMMA CellIsClean ==
  ASSUME LevelsInv, pc = "idle", NEW s \in Side,
         NEW c \in 0 .. arrays[s].count - 1
  PROVE  LevelClean(s, c)
<1>1. PICK p, at : /\ p = arrays[s].levels[c].price
                   /\ at = Chain(ListAt(s, c).head)
  OBVIOUS
<1>2. p \in Price /\ ListAt(s, c) = level[s][p] /\ Queue(s, p) # {}
  BY <1>1, CellQueue
<1>3. PICK n \in 1 .. Capacity :
        Enumerates(Queue(s, p), at, n, level[s][p].tail)
  BY <1>1, CellQueue
<1>4. /\ Capacity \in Nat
      /\ arrays[s].count \in Nat /\ arrays[s].count <= Capacity + 1
      /\ Fits(s, arrays[s], prices[s], level[s])
  BY FitsTypes DEF LevelsInv, ArraysFit
<1>5. c < best(s) => Cells(s, arrays[s])!better(arrays[s].levels[c + 1].price, p)
  <2> SUFFICES ASSUME c < best(s)
               PROVE  Cells(s, arrays[s])!better(arrays[s].levels[c + 1].price, p)
    OBVIOUS
  <2>1. PICK d \in 0 .. arrays[s].count - 1 : d = c + 1 /\ c < d
    BY <1>4 DEF best
  <2>2. Better(s, arrays[s].levels[d].price, p)
    BY <1>1, <1>4, <2>1 DEF Fits
  <2> QED BY <2>1, <2>2 DEF Cells!better, Better, Side
<1>6. ListAt(s, c).head # kNilIndex
  BY <1>2 DEF LevelsInv, IndInv, QueuesInTimeOrder, First
<1>7. at[Capacity + 1] = kNilIndex
  BY <1>3, <1>4 DEF Enumerates
<1>8. ASSUME NEW k \in 1 .. Capacity, at[k] # kNilIndex
      PROVE  LET o == slots[at[k]]
                 prev == IF k = 1 THEN kNilIndex ELSE at[k - 1]
             IN  /\ Live(at[k])
                 /\ prev_idx[at[k]] = prev
                 /\ o.side = s /\ o.price = p /\ o.qty # 0
                 /\ prev # kNilIndex => o.seq_no > slots[prev].seq_no
                 /\ id_map[o.order_id] = handle_of(at[k])
                 /\ at[k + 1] = kNilIndex => ListAt(s, c).tail = at[k]
  <2>1. k \in 1 .. n /\ k \in 1 .. Capacity + 1 /\ k + 1 \in 1 .. Capacity + 1
    BY <1>3, <1>4, <1>8 DEF Enumerates
  <2>2. PICK i : i = at[k]
    OBVIOUS
  <2>3. i \in Queue(s, p)
    BY <1>3, <2>1, <2>2 DEF Enumerates
  <2>4. i \in Index /\ Live(i) /\ slots[i].side = s /\ slots[i].price = p
    BY <2>3 DEF Queue, Linked
  <2>5. slots[i].qty # 0
    BY <1>2, <2>3 DEF LevelsInv, IndInv, QueuesInTimeOrder
  <2>6. prev_idx[i] = IF k = 1 THEN kNilIndex ELSE at[k - 1]
    BY <1>3, <2>1, <2>2 DEF Enumerates
  <2>7. k # 1 => slots[i].seq_no > slots[at[k - 1]].seq_no
    <3> SUFFICES ASSUME k # 1 PROVE slots[i].seq_no > slots[at[k - 1]].seq_no
      OBVIOUS
    <3>1. PICK j \in 1 .. n : j = k - 1 /\ j < k
      BY <1>4, <2>1
    <3>2. Earlier(at[j], at[k])
      BY <1>3, <2>1, <3>1 DEF Enumerates
    <3>3. at[j] \in Index /\ Live(at[j])
      BY <1>3, <3>1 DEF Enumerates, Queue, Linked
    <3>4. slots[at[j]].seq_no \in Nat /\ slots[i].seq_no \in Nat
      BY <2>4, <3>3, LiveIsOrder DEF LevelsInv, IndInv, Order
    <3> QED BY <2>2, <3>1, <3>2, <3>4 DEF Earlier
  <2>8. id_map[slots[i].order_id] = handle_of(i)
    BY <2>4 DEF LevelsInv, IndInv, IdMapExact
  <2>9. at[k + 1] = kNilIndex => level[s][p].tail = i
    <3>1. at[k + 1] = kNilIndex => k = n
      BY <1>3, <1>4, <2>1 DEF Enumerates
    <3> QED BY <1>3, <2>2, <3>1 DEF Enumerates
  <2> QED BY <1>2, <2>2, <2>4, <2>5, <2>6, <2>7, <2>8, <2>9
<1> QED BY <1>1, <1>5, <1>6, <1>7, <1>8 DEF LevelClean

(* The order a counted link leads to. *)
SlotOf(t) == Chain(ListAt(t[1], t[2]).head)[t[3]]

(* What check_side counts are the orders in the pool, each once. *)
LEMMA LinkedAreLive ==
  ASSUME LevelsInv, pc = "idle"
  PROVE  /\ IsFiniteSet(linked)
         /\ Cardinality(linked) = Cardinality({i \in Index : Live(i)})
<1> DEFINE A == {i \in Index : Live(i)}
           f == [t \in linked |-> SlotOf(t)]
<1>1. ASSUME NEW t \in linked
      PROVE  /\ t[1] \in Side /\ t[2] \in 0 .. arrays[t[1]].count - 1
             /\ t[2] \in 0 .. Capacity
             /\ t[3] \in 1 .. Capacity /\ t = <<t[1], t[2], t[3]>>
             /\ SlotOf(t) # kNilIndex
             /\ SlotOf(t) \in Queue(t[1], arrays[t[1]].levels[t[2]].price)
  <2>1. /\ t[1] \in Side /\ t[2] \in 0 .. Capacity /\ t[2] < arrays[t[1]].count
        /\ t[3] \in 1 .. Capacity /\ t = <<t[1], t[2], t[3]>>
        /\ SlotOf(t) # kNilIndex
    BY DEF linked, OrdersIn, SlotOf
  <2>2. PICK s \in Side, c \in 0 .. Capacity, k \in 1 .. Capacity :
          t = <<s, c, k>>
    BY <2>1
  <2>3. c \in 0 .. arrays[s].count - 1
    <3>1. arrays[s].count \in Nat /\ Capacity \in Nat
      BY FitsTypes DEF LevelsInv, ArraysFit
    <3> QED BY <2>1, <2>2, <3>1
  <2>4. PICK p, at : /\ p = arrays[s].levels[c].price
                     /\ at = Chain(ListAt(s, c).head)
    OBVIOUS
  <2>5. PICK n \in 1 .. Capacity :
          Enumerates(Queue(s, p), at, n, level[s][p].tail)
    BY <2>3, <2>4, CellQueue
  <2>6. at[k] # kNilIndex /\ SlotOf(t) = at[k]
    BY <2>1, <2>2, <2>4 DEF SlotOf
  <2>7. at[k] \in Queue(s, p)
    BY <2>5, <2>6, CapacityAssumption DEF Enumerates
  <2> QED BY <2>1, <2>2, <2>3, <2>4, <2>6, <2>7
<1>2. ASSUME NEW t \in linked, NEW u \in linked, SlotOf(t) = SlotOf(u)
      PROVE  t = u
  <2>1. t[1] = u[1] /\ arrays[t[1]].levels[t[2]].price = arrays[u[1]].levels[u[2]].price
    BY <1>1, <1>2 DEF Queue
  <2>2. PICK s \in Side, c \in 0 .. Capacity, d \in 0 .. Capacity,
             j \in 1 .. Capacity, k \in 1 .. Capacity :
          t = <<s, c, j>> /\ u = <<s, d, k>>
    BY <1>1, <2>1
  <2>3. /\ c \in 0 .. arrays[s].count - 1 /\ d \in 0 .. arrays[s].count - 1
        /\ arrays[s].levels[c].price = arrays[s].levels[d].price
    BY <1>1, <2>1, <2>2
  <2>4. c = d
    <3>1. Fits(s, arrays[s], prices[s], level[s])
      BY DEF LevelsInv, ArraysFit
    <3> QED BY <2>3, <3>1, FitsOnce
  <2>5. PICK p, at : /\ p = arrays[s].levels[c].price
                     /\ at = Chain(ListAt(s, c).head)
    OBVIOUS
  <2>6. PICK n \in 1 .. Capacity :
          Enumerates(Queue(s, p), at, n, level[s][p].tail)
    BY <2>3, <2>5, CellQueue
  <2>7. at[j] = at[k] /\ at[j] # kNilIndex
    BY <1>1, <1>2, <2>2, <2>4, <2>5 DEF SlotOf
  <2>8. j \in 1 .. n /\ k \in 1 .. n /\ at[j] \in Queue(s, p)
    BY <2>6, <2>7, CapacityAssumption DEF Enumerates
  <2>9. ~Earlier(at[j], at[k]) /\ ~Earlier(at[k], at[j])
    <3>1. p \in Price
      BY <2>3, <2>5, CellQueue
    <3> QED BY <2>7, <2>8, <3>1, TimeOrder DEF LevelsInv, IndInv
  <2>10. j = k
    BY <2>6, <2>8, <2>9 DEF Enumerates
  <2> QED BY <2>2, <2>4, <2>10
<1>3. ASSUME NEW i \in A PROVE \E t \in linked : SlotOf(t) = i
  <2>1. Linked(i)
    BY DEF LevelsInv, Linked, Placing
  <2>2. PICK s \in Side, p \in Price : i \in Queue(s, p)
    BY <2>1, LinkedOrder DEF LevelsInv
  <2>3. p \in prices[s]
    BY <2>2 DEF LevelsInv, IndInv, LevelsHoldOrders
  <2>4. Fits(s, arrays[s], prices[s], level[s])
    BY DEF LevelsInv, ArraysFit
  <2>5. PICK c \in 0 .. arrays[s].count - 1 : arrays[s].levels[c].price = p
    BY <2>3, <2>4 DEF Fits
  <2>6. PICK at : at = Chain(ListAt(s, c).head)
    OBVIOUS
  <2>7. PICK n \in 1 .. Capacity :
          Enumerates(Queue(s, p), at, n, level[s][p].tail)
    BY <2>5, <2>6, CellQueue
  <2>8. PICK k \in 1 .. n : at[k] = i
    BY <2>2, <2>7 DEF Enumerates
  <2>9. k \in 1 .. Capacity /\ i # kNilIndex
    BY <2>7, <2>8, NilNotIndex, CapacityAssumption
  <2>10. c \in 0 .. Capacity /\ c < arrays[s].count
    BY <2>4, <2>5, FitsTypes
  <2>11. <<s, c, k>> \in linked
    BY <2>6, <2>8, <2>9, <2>10 DEF linked, OrdersIn
  <2>12. SlotOf(<<s, c, k>>) = i
    BY <2>6, <2>8 DEF SlotOf
  <2> QED BY <2>11, <2>12
<1>4. \A t \in linked : SlotOf(t) \in A
  BY <1>1 DEF Queue, Linked
<1>5. IsFiniteSet(A)
  <2>1. A \in SUBSET Index /\ IsFiniteSet(Index)
    BY FS_Interval, CapacityAssumption DEF Index
  <2> HIDE DEF A
  <2> QED BY <2>1, FS_Subset
<1>6. f \in Injection(linked, A) /\ f \in Surjection(linked, A)
  <2>1. f \in [linked -> A]
    BY <1>4
  <2>2. \A t, u \in linked : f[t] = f[u] => t = u
    BY <1>2
  <2>3. \A i \in A : \E t \in linked : f[t] = i
    BY <1>3
  <2> HIDE DEF f, A
  <2> QED BY <2>1, <2>2, <2>3 DEF Injection, IsInjective, Surjection
<1> HIDE DEF f
<1>7. IsFiniteSet(linked) /\ Cardinality(linked) = Cardinality(A)
  <2> HIDE DEF A
  <2> QED BY <1>5, <1>6, FS_Injection
<1> QED BY <1>7

(* Between commands the id map has one entry for every order in the pool. *)
LEMMA IdsAreLive ==
  ASSUME IndInv, pc = "idle"
  PROVE  Cardinality({id \in OrderId : contains(id)})
           = Cardinality({i \in Index : Live(i)})
<1> DEFINE A == {i \in Index : Live(i)}
           B == {id \in OrderId : contains(id)}
           f == [i \in A |-> slots[i].order_id]
<1>1. IsFiniteSet(A)
  <2>1. A \in SUBSET Index /\ IsFiniteSet(Index)
    BY FS_Interval, CapacityAssumption DEF Index
  <2> HIDE DEF A
  <2> QED BY <2>1, FS_Subset
<1>2. ASSUME NEW i \in A
      PROVE  /\ slots[i].order_id \in B
             /\ id_map[slots[i].order_id] = handle_of(i)
             /\ handle_of(i).index = i
  <2>1. slots[i].order_id \in OrderId
    BY LiveIsOrder DEF IndInv, Order
  <2>2. id_map[slots[i].order_id] = handle_of(i)
    BY DEF IndInv, IdMapExact
  <2>3. valid(handle_of(i)) /\ handle_of(i).index = i
    BY HandleOfValid DEF IndInv
  <2> QED BY <2>1, <2>2, <2>3 DEF contains, valid
<1>3. ASSUME NEW id \in B PROVE \E i \in A : slots[i].order_id = id
  <2>1. /\ validate(id_map[id]) /\ Live(id_map[id].index)
        /\ slots[id_map[id].index].order_id = id
    BY DEF IndInv, IdMapExact
  <2>2. id_map[id].index \in Index
    BY <2>1 DEF validate
  <2> QED BY <2>1, <2>2
<1>4. f \in Bijection(A, B)
  <2>1. f \in [A -> B]
    BY <1>2
  <2>2. \A i, j \in A : f[i] = f[j] => i = j
    BY <1>2
  <2>3. \A id \in B : \E i \in A : f[i] = id
    BY <1>3
  <2> HIDE DEF f, A, B
  <2> QED BY <2>1, <2>2, <2>3 DEF Bijection, Injection, Surjection, IsInjective
<1> HIDE DEF f
<1> QED
  <2>1. Cardinality(B) = Cardinality(A)
    <3> HIDE DEF A, B
    <3> QED BY <1>1, <1>4, FS_Bijection DEF ExistsBijection
  <2> QED BY <2>1

(* free_slots() counts the slots that hold no order. *)
LEMMA FreeSlotsCounted ==
  ASSUME FreeListChain(Index)
  PROVE  Cardinality({i \in Index : Live(i)}) = Capacity - free_slots
<1>1. PICK n \in Nat : \E ch \in [1 .. n -> Index] : ChainOf(Index, n, ch)
  BY DEF FreeListChain
<1>2. PICK ch \in [1 .. n -> Index] : ChainOf(Index, n, ch)
  BY <1>1
<1> DEFINE Free == {i \in Index : ~Live(i)}
           A == {i \in Index : Live(i)}
<1>3. Capacity \in Nat /\ IsFiniteSet(Index) /\ Cardinality(Index) = Capacity
  BY FS_Interval, CapacityAssumption DEF Index
<1>4. Cardinality(Free) = n
  <2>1. ch \in [1 .. n -> Free]
    BY <1>2 DEF ChainOf
  <2>2. \A j, k \in 1 .. n : ch[j] = ch[k] => j = k
    BY <1>2 DEF ChainOf
  <2>3. \A i \in Free : \E k \in 1 .. n : ch[k] = i
    BY <1>2 DEF ChainOf
  <2> HIDE DEF Free
  <2>4. ch \in Bijection(1 .. n, Free)
    BY <2>1, <2>2, <2>3 DEF Bijection, Injection, Surjection, IsInjective
  <2>5. IsFiniteSet(1 .. n) /\ Cardinality(1 .. n) = n
    BY FS_Interval
  <2> QED BY <2>4, <2>5, FS_Bijection DEF ExistsBijection
<1>5. n \in 0 .. Capacity
  <2>1. Free \in SUBSET Index
    OBVIOUS
  <2>2. Cardinality(Free) <= Cardinality(Index)
    <3> HIDE DEF Free
    <3> QED BY <1>3, <2>1, FS_Subset
  <2> QED BY <1>3, <1>4, <2>2
<1>6. {k \in 0 .. Capacity : FreeSlot[k] # kNilIndex} = 0 .. n - 1
  <2>1. ASSUME NEW k \in 0 .. Capacity
        PROVE  FreeSlot[k] # kNilIndex <=> k < n
    <3>1. FreeSlot[k] = IF k < n THEN ch[n - k] ELSE kNilIndex
      BY <1>2, <1>5, FreeSlotWalks
    <3>2. k < n => n - k \in 1 .. n
      BY <1>3, <1>5
    <3> QED BY <1>2, <3>1, <3>2, NilNotIndex
  <2> QED BY <1>3, <1>5, <2>1
<1>7. free_slots = n
  <2>1. 0 \in Int /\ n - 1 \in Int
        /\ (IF 0 > n - 1 THEN 0 ELSE (n - 1) - 0 + 1) = n
    BY <1>5
  <2>2. Cardinality(0 .. n - 1) = n
    BY <2>1, FS_Interval
  <2> QED BY <1>6, <2>2 DEF free_slots
<1>8. Cardinality(A) = Cardinality(Index) - Cardinality(Free)
  <2>1. A = Index \ Free /\ Free \in SUBSET Index
    OBVIOUS
  <2> HIDE DEF A, Free
  <2> QED BY <1>3, <2>1, CountWithout
<1> QED BY <1>3, <1>4, <1>7, <1>8

(* A crossed book would show in the cells of the best levels. *)
LEMMA BestNotCrossed ==
  ASSUME LevelsInv, arrays["Buy"].count > 0, arrays["Sell"].count > 0
  PROVE  arrays["Buy"].levels[best("Buy")].price
           < arrays["Sell"].levels[best("Sell")].price
<1>1. ASSUME NEW s \in Side, arrays[s].count > 0
      PROVE  arrays[s].levels[best(s)].price \in prices[s]
  <2>1. Fits(s, arrays[s], prices[s], level[s])
    BY DEF LevelsInv, ArraysFit
  <2>2. best(s) \in 0 .. arrays[s].count - 1
    BY <1>1, <2>1, FitsTypes DEF best
  <2> QED BY <2>1, <2>2, FitsTypes
<1> QED BY <1>1 DEF LevelsInv, IndInv, NotCrossed, Side

(***************************************************************************)
(* invariant_violation() finds nothing in any state between commands, for  *)
(* every capacity, price range and sequence of commands: what the walk of  *)
(* the arrays and lists counts is what the id map and the pool hold.       *)
(***************************************************************************)
THEOREM SelfCheckAlwaysPasses == LevelsSpec => []SelfCheckPasses
<1>1. LevelsInv /\ FreeListChain(Index) => SelfCheckPasses
  <2> SUFFICES ASSUME LevelsInv, FreeListChain(Index), pc = "idle" PROVE Clean
    BY DEF SelfCheckPasses
  <2>1. \A s \in Side : \A i \in 0 .. best(s) : LevelClean(s, i)
    BY CellIsClean DEF best
  <2>2. /\ Cardinality(linked) = Cardinality({id \in OrderId : contains(id)})
        /\ Cardinality(linked) = Capacity - free_slots
    BY LinkedAreLive, IdsAreLive, FreeSlotsCounted DEF LevelsInv
  <2> QED BY <2>1, <2>2, BestNotCrossed DEF Clean
<1>2. LevelsInit => FreeListChain(Index)
  BY ChainInit DEF LevelsInit
<1>3. LevelsInv /\ FreeListChain(Index) /\ [LevelsNext]_levelsVars => FreeListChain(Index)'
  BY ChainNext, LevelsStepIsBookStep DEF LevelsInv
<1> QED BY <1>1, <1>2, <1>3, LevelsInvariance, PTL DEF LevelsSpec
=============================================================================
