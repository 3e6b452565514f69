------------------------------- MODULE IdMap --------------------------------
(***************************************************************************)
(* The id map, include/engine/id_map.hpp: open addressing with linear      *)
(* probing in a table of fixed size, and deletion by shifting entries back *)
(* into the hole, with no tombstones.                                      *)
(*                                                                         *)
(* An operation takes one step per slot its loop looks at.  The hash is    *)
(* any function from ids to slots, chosen at the start and then fixed: the *)
(* code's mixer is one of them for each size of the table.                 *)
(***************************************************************************)
EXTENDS Integers, FiniteSets

CONSTANTS Key,                \* order ids
          Value,              \* the valid handles
          NilHandle,          \* Handle{}
          MaxEntries,         \* the pool's capacity, given to the constructor
          Homes               \* bound: the slots the hash may give

ASSUME EntriesAssumption == MaxEntries \in Nat

ASSUME NilAssumption == NilHandle \notin Value

VARIABLES table,              \* table_: an id and a handle per slot
          size,               \* size_
          home,               \* the hash
          pc,                 \* the running operation's loop, or "idle"
          arg,                \* its argument: an entry
          at,                 \* the slot its loop is at
          hole,               \* erase: the slot to be filled
          ret                 \* the last operation's argument, and what it gave

vars == <<table, size, home, pc, arg, at, hole, ret>>

-----------------------------------------------------------------------------

(* Fault: one slot per entry, with no room kept empty. *)
TableSizeTight == IF MaxEntries < 2 THEN 2 ELSE MaxEntries

(* size <<= 1: the sizes the constructor tries. *)
Doubled[n \in 0 .. MaxEntries] == IF n = 0 THEN 2 ELSE 2 * Doubled[n - 1]

(* The least power of two that is at least 2 and twice max_entries. *)
TableSize ==
  LET fits == {n \in 0 .. MaxEntries : Doubled[n] >= 2 * MaxEntries}
  IN  Doubled[CHOOSE n \in fits : \A m \in fits : n <= m]

Slot == 0 .. TableSize - 1

ASSUME HomesAssumption == Homes \subseteq Nat

Entry == [id: Key, handle: Value \cup {NilHandle}]

(* No operation is running. *)
NoArg == [id |-> "none", handle |-> NilHandle]

(* Fault: the probe runs off the end of the table. *)
SuccUnmasked(i) == i + 1

(* Adding and subtracting slot numbers wraps around the table (& mask_). *)
Succ(i) == (i + 1) % TableSize

Dist(from, to) == (to - from) % TableSize

Used(i) == table[i].handle # NilHandle

TypeOK ==
  /\ table \in [Slot -> Entry]
  /\ size \in 0 .. MaxEntries
  /\ home \in [Key -> Slot]
  /\ pc \in {"idle", "find", "insert", "seek", "shift"}
  /\ arg \in Entry \cup {NoArg}
  /\ at \in Slot
  /\ hole \in Slot
  /\ ret \in {<<>>} \cup (Key \X (Value \cup {NilHandle} \cup BOOLEAN))

(* An empty slot of a new table holds id 0; any key will do. *)
Init ==
  /\ \E k \in Key : table = [i \in Slot |-> [id |-> k, handle |-> NilHandle]]
  /\ arg = NoArg
  /\ size = 0
  /\ home \in [Key -> Homes \cap Slot]
  /\ pc = "idle"
  /\ at = 0
  /\ hole = 0
  /\ ret = <<>>

(* A caller starts an operation: its loop begins at the home slot. *)
Begin(loop, k, v) ==
  /\ pc = "idle"
  /\ pc' = loop
  /\ arg' = [id |-> k, handle |-> v]
  /\ at' = home[k]
  /\ UNCHANGED <<table, size, home, hole, ret>>

(* The operation returns; its locals end their life. *)
Return(v) == /\ pc' = "idle"
             /\ ret' = <<arg.id, v>>
             /\ arg' = NoArg
             /\ at' = 0
             /\ hole' = 0
             /\ UNCHANGED home

Advance == at' = Succ(at) /\ UNCHANGED <<table, size, home, pc, arg, hole, ret>>

-----------------------------------------------------------------------------
(* find *)

BeginFind(k) == Begin("find", k, NilHandle)

FindPass == /\ pc = "find"
            /\ Used(at) /\ table[at].id # arg.id
            /\ Advance

FindHit == /\ pc = "find"
           /\ Used(at) /\ table[at].id = arg.id
           /\ Return(table[at].handle)
           /\ UNCHANGED <<table, size>>

FindMiss == /\ pc = "find"
            /\ ~Used(at)
            /\ Return(NilHandle)
            /\ UNCHANGED <<table, size>>

-----------------------------------------------------------------------------
(* insert: the caller guarantees that the id is absent and that there is   *)
(* room.                                                                   *)

BeginInsert(k, v) ==
  /\ \A i \in Slot : ~(Used(i) /\ table[i].id = k)
  /\ size < MaxEntries
  /\ Begin("insert", k, v)

InsertPass == /\ pc = "insert"
              /\ Used(at)
              /\ Advance

InsertPut == /\ pc = "insert"
             /\ ~Used(at)
             /\ table' = [table EXCEPT ![at] = arg]
             /\ size' = size + 1
             /\ Return(NilHandle)

-----------------------------------------------------------------------------
(* erase *)

BeginErase(k) == Begin("seek", k, NilHandle)

SeekPass == /\ pc = "seek"
            /\ Used(at) /\ table[at].id # arg.id
            /\ Advance

SeekMiss == /\ pc = "seek"
            /\ ~Used(at)
            /\ Return(FALSE)
            /\ UNCHANGED <<table, size>>

(* The entry is found: its slot is the first hole. *)
SeekHit == /\ pc = "seek"
           /\ Used(at) /\ table[at].id = arg.id
           /\ hole' = at
           /\ at' = Succ(at)
           /\ pc' = "shift"
           /\ UNCHANGED <<table, size, home, arg, ret>>

(* Fault: the positions are compared as if the table had no end. *)
MayMoveUnwrapped(i) == i - home[table[i].id] >= i - hole

(* Fault: an entry whose home is the hole stays where it is. *)
MayMoveStrict(i) == Dist(home[table[i].id], i) > Dist(hole, i)

(* The hole lies on the probe path of the entry at i. *)
MayMove(i) == Dist(home[table[i].id], i) >= Dist(hole, i)

ShiftMove == /\ pc = "shift"
             /\ Used(at) /\ MayMove(at)
             /\ table' = [table EXCEPT ![hole] = table[at]]
             /\ hole' = at
             /\ at' = Succ(at)
             /\ UNCHANGED <<size, home, pc, arg, ret>>

ShiftSkip == /\ pc = "shift"
             /\ Used(at) /\ ~MayMove(at)
             /\ Advance

(* Fault: erase does not count the entry off. *)
ShiftEndKeepsSize == /\ pc = "shift"
                     /\ ~Used(at)
                     /\ table' = [table EXCEPT ![hole].handle = NilHandle]
                     /\ UNCHANGED size
                     /\ Return(TRUE)

ShiftEnd == /\ pc = "shift"
            /\ ~Used(at)
            /\ table' = [table EXCEPT ![hole].handle = NilHandle]
            /\ size' = size - 1
            /\ Return(TRUE)

-----------------------------------------------------------------------------

Call == \E k \in Key : \/ BeginFind(k)
                       \/ BeginErase(k)
                       \/ \E v \in Value : BeginInsert(k, v)

Step == \/ FindPass \/ FindHit \/ FindMiss
        \/ InsertPass \/ InsertPut
        \/ SeekPass \/ SeekMiss \/ SeekHit
        \/ ShiftMove \/ ShiftSkip \/ ShiftEnd

Next == Call \/ Step

(* An operation that has been called runs to completion. *)
Spec == Init /\ [][Next]_vars /\ WF_vars(Step)

-----------------------------------------------------------------------------
(* Properties. *)

(* The slots whose entries count: erase is about to clear or overwrite the *)
(* hole.                                                                   *)
Stored == {i \in Slot : Used(i) /\ ~(pc = "shift" /\ i = hole)}

(***************************************************************************)
(* Every stored entry can be found: an id is stored once, and no slot      *)
(* between its home and its place is empty.  While erase shifts, the hole  *)
(* may interrupt the path of an entry it has not come to yet, and of no    *)
(* other.                                                                  *)
(***************************************************************************)
EveryEntryReachable ==
  \A i \in Stored :
    /\ \A j \in Stored \ {i} : table[j].id # table[i].id
    /\ \A d \in 0 .. Dist(home[table[i].id], i) - 1 :
         LET j == (home[table[i].id] + d) % TableSize
         IN  \/ j \in Stored
             \/ pc = "shift" /\ j = hole /\ Dist(hole, i) >= Dist(hole, at)

(***************************************************************************)
(* size_ counts the entries, and at least half of the table is empty: this *)
(* is what lets every loop of the code go without a test for a full table. *)
(***************************************************************************)
HalfEmpty ==
  /\ size = Cardinality({i \in Slot : Used(i)})
  /\ 2 * size <= TableSize

(* The entry of an id, if it is stored. *)
MapOf == [k \in Key |->
            LET S == {i \in Stored : table[i].id = k}
            IN  IF S = {} THEN NilHandle
                ELSE table[CHOOSE i \in S : TRUE].handle]

Dict == INSTANCE Dictionary
          WITH map <- MapOf,
               answer <- IF pc = "shift" THEN <<arg.id, TRUE>> ELSE ret

(***************************************************************************)
(* The table is a dictionary, which is all Book assumes of it: find gives  *)
(* the handle last inserted and not erased, erase removes that entry and   *)
(* no other, whatever the hash and however the entries have been shifted.  *)
(***************************************************************************)
ImplementsDictionary == Dict!DictSpec

(***************************************************************************)
(* Every operation returns: no probe runs around the table forever.        *)
(***************************************************************************)
OperationsReturn == pc # "idle" ~> pc = "idle"
=============================================================================
