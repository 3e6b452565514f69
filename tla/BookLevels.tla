----------------------------- MODULE BookLevels -----------------------------
(***************************************************************************)
(* The book with the arrays its levels live in: Book composed with         *)
(* PriceLevels.  Book keeps a level by its price; the code keeps it in a   *)
(* cell of a sorted array that shifts, and holds C++ references to cells   *)
(* across the steps of a command.  Here every step of Book does to the     *)
(* arrays what the code does to bids_ and asks_, reading and writing a     *)
(* level's head and tail only in the cell the code's reference denotes.    *)
(***************************************************************************)
EXTENDS BookRun

VARIABLES arrays,             \* bids_ and asks_
          ref                 \* the Level& the command holds: a cell, or nil

levelsVars == <<vars, arrays, ref>>

NoRef == -1

(* The operators of PriceLevels for array a of a side. *)
Cells(s, a) == INSTANCE PriceLevels
                 WITH side <- IF s = "Buy" THEN "High" ELSE "Low",
                      levels <- a.levels, count <- a.count, answer <- <<>>,
                      Lists <- LevelObject \ {EmptyLevel},
                      EmptyList <- EmptyLevel, Absent <- Undef

NewArray == [levels |-> [i \in 0 .. Capacity |->
                           [price |-> 0, list |-> EmptyLevel]],
             count |-> 0]

LevelsInit == Init /\ arrays = [s \in Side |-> NewArray] /\ ref = NoRef

-----------------------------------------------------------------------------
(* The calls of Book on a side's array. *)

Position(s, p) == Cells(s, arrays[s])!Lower(p)

ListAt(s, i) == arrays[s].levels[i].list

best(s) == arrays[s].count - 1

Put(a, i, lvl) == [a EXCEPT !.levels[i].list = lvl]

(* Fault: the reference is to the cell behind the one asked for. *)
get_or_insert_behind(s, p) ==
  LET i == Position(s, p)
  IN  /\ ref' = i + 1
      /\ arrays' = [arrays EXCEPT ![s] =
           IF Cells(s, @)!Holds(i, p) THEN @
           ELSE [levels |-> Cells(s, @)!ShiftedUp(i, p), count |-> @.count + 1]]

get_or_insert(s, p) ==
  LET i == Position(s, p)
  IN  /\ ref' = i
      /\ arrays' = [arrays EXCEPT ![s] =
           IF Cells(s, @)!Holds(i, p) THEN @
           ELSE [levels |-> Cells(s, @)!ShiftedUp(i, p), count |-> @.count + 1]]

erase(s, a, p) ==
  [levels |-> Cells(s, a)!ShiftedDown(Cells(s, a)!Lower(p)),
   count |-> a.count - 1]

pop_best(a) == [a EXCEPT !.count = @ - 1]

(* Order i leaves the level at its price, which goes if it is empty. *)
Unlink(i) ==
  LET s == slots[i].side
      p == slots[i].price
      lvl == LevelWithout(ListAt(s, Position(s, p)), i)
      a == Put(arrays[s], Position(s, p), lvl)
  IN  /\ arrays' = [arrays EXCEPT ![s] =
                      IF lvl.head = kNilIndex THEN erase(s, a, p) ELSE a]
      /\ ref' = NoRef

(* Order i is appended to the level the reference denotes. *)
AppendThere(i) ==
  LET s == slots[i].side
      lvl == ListAt(s, ref)
  IN  /\ arrays' = [arrays EXCEPT ![s] = Put(@, ref,
           [head |-> IF lvl.tail # kNilIndex THEN lvl.head ELSE i,
            tail |-> i])]
      /\ ref' = NoRef

(* The reference the sweep works on: the best level, until it is popped. *)
SweepRef(s) == IF ref = NoRef THEN best(s) ELSE ref

(* The head of that level is filled and leaves it. *)
SweepHead ==
  LET s == Opposite(cmd.side)
      r == SweepRef(s)
      lvl == LevelWithout(ListAt(s, r), ListAt(s, r).head)
      a == Put(arrays[s], r, lvl)
      emptied == lvl.head = kNilIndex
  IN  /\ arrays' = [arrays EXCEPT ![s] = IF emptied THEN pop_best(a) ELSE a]
      /\ ref' = IF emptied THEN NoRef ELSE r

-----------------------------------------------------------------------------
(* The steps of Book that use the arrays. *)

CancelFrom(c) == CancelOrder(c) /\ Unlink(id_map[c.id].index)

MoveFrom(c) == ModifyMove(c) /\ Unlink(id_map[c.id].index)

MoveTo == ModifyLevel /\ get_or_insert(slots[idx].side, slots[idx].price)

MoveAppend == ModifyAppend /\ AppendThere(idx)

SweepFull == CrossFull /\ SweepHead

SweepPartial == /\ CrossPartial
                /\ ref' = SweepRef(Opposite(cmd.side))
                /\ UNCHANGED arrays

SweepEnds == /\ CrossStop \/ CrossDone \/ CrossResidual
             /\ ref' = NoRef
             /\ UNCHANGED arrays

RestAt == RestLevel /\ get_or_insert(cmd.side, cmd.price)

(* The pool is full: a level made for this order is taken away again. *)
RestDrop ==
  /\ RestFull
  /\ ref' = NoRef
  /\ arrays' = [arrays EXCEPT ![cmd.side] =
       IF @.levels[ref].list.head = kNilIndex
         THEN erase(cmd.side, @, cmd.price) ELSE @]

RestThere == RestAppend /\ AppendThere(idx)

(* The other steps look at levels and write to none. *)
Elsewhere ==
  /\ \/ \E c \in Commands : \/ AddReject(c) \/ AddAccept(c) \/ CancelMiss(c)
                            \/ ModifyReject(c) \/ ModifyInPlace(c)
     \/ FokLevel \/ FokOrder \/ FokReject \/ FokPass
     \/ RestAllocate
     \/ Stopped
  /\ UNCHANGED <<arrays, ref>>

LevelsNext == \/ \E c \in Commands : CancelFrom(c) \/ MoveFrom(c)
              \/ MoveTo \/ MoveAppend
              \/ SweepFull \/ SweepPartial \/ SweepEnds
              \/ RestAt \/ RestDrop \/ RestThere
              \/ Elsewhere

LevelsSpec == LevelsInit /\ [][LevelsNext]_levelsVars

-----------------------------------------------------------------------------
(* invariant_violation *)

(* The level in cell i of a side has nothing check_side objects to. *)
LevelClean(s, i) ==
  LET price == arrays[s].levels[i].price
      lvl == ListAt(s, i)
      at == Chain(lvl.head)
      prev(k) == IF k = 1 THEN kNilIndex ELSE at[k - 1]
  IN  /\ i < best(s) => Cells(s, arrays[s])!better(arrays[s].levels[i + 1].price,
                                                   price)
      /\ lvl.head # kNilIndex
      /\ at[Capacity + 1] = kNilIndex
      /\ \A k \in 1 .. Capacity : at[k] # kNilIndex =>
           LET o == slots[at[k]]
           IN  /\ Live(at[k])
               /\ prev_idx[at[k]] = prev(k)
               /\ o.side = s /\ o.price = price /\ o.qty # 0
               /\ prev(k) # kNilIndex => o.seq_no > slots[prev(k)].seq_no
               /\ id_map[o.order_id] = handle_of(at[k])
               /\ at[k + 1] = kNilIndex => lvl.tail = at[k]

OrdersIn(s, i) ==
  LET at == Chain(ListAt(s, i).head)
  IN  {k \in 1 .. Capacity : at[k] # kNilIndex}

linked == {t \in Side \X (0 .. Capacity) \X (1 .. Capacity) :
             t[2] < arrays[t[1]].count /\ t[3] \in OrdersIn(t[1], t[2])}

(* How many slots free_slots() counts on the free list. *)
free_slots == Cardinality({n \in 0 .. Capacity : FreeSlot[n] # kNilIndex})

Clean ==
  /\ arrays["Buy"].count > 0 /\ arrays["Sell"].count > 0 =>
       arrays["Buy"].levels[best("Buy")].price
         < arrays["Sell"].levels[best("Sell")].price
  /\ \A s \in Side : \A i \in 0 .. best(s) : LevelClean(s, i)
  /\ Cardinality(linked) = Cardinality({id \in OrderId : contains(id)})
  /\ Cardinality(linked) = Capacity - free_slots

-----------------------------------------------------------------------------
(* Properties. *)

(***************************************************************************)
(* At every program point each array is sorted and holds, cell by cell,    *)
(* the levels of Book with their heads and tails: no shift of cells for an *)
(* insertion, a removal or a sweep loses, doubles or exchanges the orders  *)
(* of a price, and what is written through a reference reaches the level   *)
(* the command means.                                                      *)
(***************************************************************************)
ArraysMatchBook ==
  \A s \in Side :
    LET a == arrays[s]
        used == 0 .. a.count - 1
    IN  /\ Cells(s, a)!Sorted
        /\ {a.levels[i].price : i \in used} = prices[s]
        /\ \A i \in used : a.levels[i].list = level[s][a.levels[i].price]

(* The level the running command means, while it holds a reference. *)
Meant == IF pc = "append" THEN <<slots[idx].side, slots[idx].price>>
         ELSE <<cmd.side, cmd.price>>

(***************************************************************************)
(* "The reference is good until the next insert or erase": a reference     *)
(* that rest, modify_order or cross still holds denotes a cell in use with *)
(* the price it was asked for, and rest and modify_order hold one whenever *)
(* they are about to append.                                               *)
(***************************************************************************)
ReferencesGood ==
  /\ pc \in {"allocate", "append"} =>
       /\ ref \in 0 .. best(Meant[1])
       /\ arrays[Meant[1]].levels[ref].price = Meant[2]
  /\ pc = "cross" /\ ref # NoRef =>
       /\ ref = best(Opposite(cmd.side))
       /\ crosses(arrays[Opposite(cmd.side)].levels[ref].price)
  /\ pc \notin {"allocate", "append", "cross"} => ref = NoRef

(***************************************************************************)
(* invariant_violation() finds nothing whenever no command is running: the *)
(* arrays, the lists, the id map and the free list fit together.           *)
(***************************************************************************)
SelfCheckPasses == pc = "idle" => Clean
=============================================================================
