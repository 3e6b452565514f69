----------------------------- MODULE Dictionary -----------------------------
(***************************************************************************)
(* What Book expects of its id map: a function from order ids to handles   *)
(* that is NilHandle where there is no entry.  An operation has its effect *)
(* and its answer in one step.  Book respects the contract of insert: the  *)
(* id is absent, and fewer than MaxEntries are stored.                     *)
(***************************************************************************)
EXTENDS Integers, FiniteSets

CONSTANTS Key, Value, NilHandle, MaxEntries

VARIABLES map,                \* the handle of each id, or NilHandle
          answer              \* the last operation's argument, and what it gave

Keys == {k \in Key : map[k] # NilHandle}

DictInit == /\ map = [k \in Key |-> NilHandle]
            /\ answer = <<>>

DictFind(k) == answer' = <<k, map[k]>> /\ UNCHANGED map

DictInsert(k, v) == /\ k \notin Keys
                    /\ Cardinality(Keys) < MaxEntries
                    /\ map' = [map EXCEPT ![k] = v]
                    /\ answer' = <<k, NilHandle>>

DictErase(k) == /\ map' = [map EXCEPT ![k] = NilHandle]
                /\ answer' = <<k, k \in Keys>>

DictNext == \E k \in Key : \/ DictFind(k)
                           \/ DictErase(k)
                           \/ \E v \in Value : DictInsert(k, v)

DictSpec == DictInit /\ [][DictNext]_<<map, answer>>
=============================================================================
