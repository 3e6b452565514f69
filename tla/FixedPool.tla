----------------------------- MODULE FixedPool -----------------------------
(***************************************************************************)
(* The order pool, include/engine/pool.hpp: a fixed number of slots, a     *)
(* LIFO list of the free ones threaded through the slots themselves, and a *)
(* generation per slot that turns an index into a checkable handle.        *)
(*                                                                         *)
(* A slot is a union of an order and a free-list link.  Writing one member *)
(* ends the life of the other, which then reads Undef.  The link fields of *)
(* the order lie outside the bytes the free-list link overwrites, so free  *)
(* leaves them as they are.                                                *)
(***************************************************************************)
EXTENDS EngineTypes

CONSTANT GenModulus           \* 2^32 in the code: generations are uint32

ASSUME GenAssumption == GenModulus \in Nat \ {0}

VARIABLES slots,              \* slots[i].value without its links, or Undef
          next_idx, prev_idx, \* the links of slots[i].value
          next_free,          \* slots[i].next_free, or Undef
          generation,         \* generation_
          free_head           \* free_head_

poolVars == <<slots, next_idx, prev_idx, next_free, generation, free_head>>

-----------------------------------------------------------------------------

Generation == 0 .. GenModulus - 1

Handle == [index: IndexOrNil, generation: Generation]

(* A default-constructed Handle: all bits set. *)
NilHandle == [index |-> kNilIndex, generation |-> GenModulus - 1]

make_handle(idx, gen) == [index |-> idx, generation |-> gen]

valid(h) == h # NilHandle

PoolTypeOK ==
  /\ slots \in [Index -> Order \cup {Undef}]
  /\ next_idx \in [Index -> IndexOrNil]
  /\ prev_idx \in [Index -> IndexOrNil]
  /\ next_free \in [Index -> IndexOrNil \cup {Undef}]
  /\ generation \in [Index -> Generation]
  /\ free_head \in IndexOrNil

(* The constructor chains the slots in index order. *)
PoolInit ==
  /\ slots = [i \in Index |-> Undef]
  /\ next_idx = [i \in Index |-> kNilIndex]
  /\ prev_idx = [i \in Index |-> kNilIndex]
  /\ next_free = [i \in Index |-> IF i + 1 < Capacity THEN i + 1 ELSE kNilIndex]
  /\ generation = [i \in Index |-> 0]
  /\ free_head = IF Capacity > 0 THEN 0 ELSE kNilIndex

validate(h) == /\ valid(h)
               /\ h.index \in Index
               /\ h.generation = generation[h.index]

handle_of(i) == make_handle(i, generation[i])

(* The slot holds an order, not a free-list link. *)
Live(i) == slots[i] # Undef

(* Fault: the last free slot is not given out. *)
exhausted_early == free_head = kNilIndex \/ next_free[free_head] = kNilIndex

exhausted == free_head = kNilIndex

(* Fault: the free-list link is read after the order has overwritten it. *)
allocate_reads_late(value) ==
  /\ ~exhausted
  /\ slots' = [slots EXCEPT ![free_head] = value]
  /\ next_free' = [next_free EXCEPT ![free_head] = Undef]
  /\ free_head' = next_free'[free_head]
  /\ next_idx' = [next_idx EXCEPT ![free_head] = kNilIndex]
  /\ prev_idx' = [prev_idx EXCEPT ![free_head] = kNilIndex]
  /\ UNCHANGED generation

(***************************************************************************)
(* allocate(value) when the pool is not exhausted; the caller tests        *)
(* exhausted itself.  The order's links are those of a fresh Order.        *)
(***************************************************************************)
allocate(value) ==
  /\ ~exhausted
  /\ free_head' = next_free[free_head]
  /\ slots' = [slots EXCEPT ![free_head] = value]
  /\ next_free' = [next_free EXCEPT ![free_head] = Undef]
  /\ next_idx' = [next_idx EXCEPT ![free_head] = kNilIndex]
  /\ prev_idx' = [prev_idx EXCEPT ![free_head] = kNilIndex]
  /\ UNCHANGED generation

(* Fault: the slot is not put back on the free list. *)
free_leaks(h) ==
  IF validate(h)
    THEN /\ generation' = [generation EXCEPT
                             ![h.index] = (@ + 1) % GenModulus]
         /\ slots' = [slots EXCEPT ![h.index] = Undef]
         /\ next_free' = [next_free EXCEPT ![h.index] = free_head]
         /\ UNCHANGED free_head
    ELSE UNCHANGED <<generation, slots, next_free, free_head>>

(* free(h): freeing a handle that does not validate is a no-op. *)
free(h) ==
  IF validate(h)
    THEN /\ generation' = [generation EXCEPT
                             ![h.index] = (@ + 1) % GenModulus]
         /\ slots' = [slots EXCEPT ![h.index] = Undef]
         /\ next_free' = [next_free EXCEPT ![h.index] = free_head]
         /\ free_head' = h.index
    ELSE UNCHANGED <<generation, slots, next_free, free_head>>
=============================================================================
