------------------------------- MODULE Level -------------------------------
(***************************************************************************)
(* The FIFO list of the orders at one price, include/engine/level.hpp: a   *)
(* doubly linked list threaded through the pool's slots by raw index.      *)
(* level[side][price] is the Level object of that price; the code's        *)
(* containers only hold those of the prices in use (see Book).             *)
(***************************************************************************)
EXTENDS FixedPool

VARIABLE level

LevelObject == [head: IndexOrNil, tail: IndexOrNil]

EmptyLevel == [head |-> kNilIndex, tail |-> kNilIndex]

LevelTypeOK == level \in [Side -> [Price -> LevelObject]]

LevelInit == level = [s \in Side |-> [p \in Price |-> EmptyLevel]]

(* Link order i behind the last order of the level. *)
level_append(side, price, i) ==
  LET lvl == level[side][price]
  IN  /\ prev_idx' = [prev_idx EXCEPT ![i] = lvl.tail]
      /\ next_idx' = [j \in Index |-> CASE j = lvl.tail -> i
                                        [] j = i /\ j # lvl.tail -> kNilIndex
                                        [] OTHER -> next_idx[j]]
      /\ level' = [level EXCEPT ![side][price] =
                     [head |-> IF lvl.tail # kNilIndex THEN lvl.head ELSE i,
                      tail |-> i]]

(* Fault: the tail is not moved when the last order leaves. *)
LevelWithoutStaleTail(lvl, i) ==
  [head |-> IF prev_idx[i] # kNilIndex THEN lvl.head ELSE next_idx[i],
   tail |-> lvl.tail]

(* The level without order i. *)
LevelWithout(lvl, i) ==
  [head |-> IF prev_idx[i] # kNilIndex THEN lvl.head ELSE next_idx[i],
   tail |-> IF next_idx[i] # kNilIndex THEN lvl.tail ELSE prev_idx[i]]

(* Join the neighbours of order i and reset its own links. *)
level_unlink(side, price, i) ==
  /\ next_idx' = [j \in Index |-> CASE j = i -> kNilIndex
                                    [] j = prev_idx[i] /\ j # i -> next_idx[i]
                                    [] OTHER -> next_idx[j]]
  /\ prev_idx' = [j \in Index |-> CASE j = i -> kNilIndex
                                    [] j = next_idx[i] /\ j # i -> prev_idx[i]
                                    [] OTHER -> prev_idx[j]]
  /\ level' = [level EXCEPT ![side][price] = LevelWithout(@, i)]
=============================================================================
