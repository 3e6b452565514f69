---------------------------- MODULE IdMapProofs -----------------------------
(***************************************************************************)
(* Proofs about the id map: the table is a dictionary for every capacity,  *)
(* every set of ids and every hash.                                        *)
(***************************************************************************)
EXTENDS IdMap, Iteration, FiniteSetTheorems, TLAPS

-----------------------------------------------------------------------------
(* The size of the table. *)

(* The sizes are defined, and the n-th one is at least 2 and 2 * n. *)
LEMMA DoubledGrows ==
  \A n \in 0 .. MaxEntries :
    Doubled[n] \in Nat /\ Doubled[n] >= 2 /\ Doubled[n] >= 2 * n
<1> DEFINE Doubles(f) == f = [n \in 0 .. MaxEntries |->
                                IF n = 0 THEN 2 ELSE 2 * f[n - 1]]
           twice == [x \in Nat |-> 2 * x]
           S == {n \in 0 .. MaxEntries :
                   /\ Doubled[n] \in Nat
                   /\ Doubled[n] >= 2
                   /\ Doubled[n] >= 2 * n}
<1>0. MaxEntries \in Nat /\ twice \in [Nat -> Nat] /\ 2 \in Nat
  BY EntriesAssumption
<1>1. Iterations(Nat, 2, twice, MaxEntries) # {}
  <2> HIDE DEF twice
  <2> QED BY <1>0, IterationExists
<1>2. PICK g \in Iterations(Nat, 2, twice, MaxEntries) : TRUE
  BY <1>1
<1>3. /\ g \in [0 .. MaxEntries -> Nat]
      /\ g[0] = 2
      /\ \A k \in 1 .. MaxEntries : g[k] = twice[g[k - 1]]
  BY <1>2 DEF Iterations
<1>4. \A k \in 1 .. MaxEntries : g[k] = 2 * g[k - 1]
  BY <1>0, <1>3
<1>5. Doubles(g)
  <2>1. ASSUME NEW n \in 0 .. MaxEntries
        PROVE  g[n] = IF n = 0 THEN 2 ELSE 2 * g[n - 1]
    BY <1>0, <1>3, <1>4
  <2> QED BY <1>3, <2>1
<1>6. Doubled = CHOOSE f : Doubles(f)
  BY DEF Doubled
<1>7. Doubles(Doubled)
  <2> HIDE DEF Doubles
  <2> QED BY <1>5, <1>6
<1>8. 0 \in S
  <2>1. Doubled[0] = 2
    BY <1>0, <1>7
  <2> QED BY <1>0, <2>1
<1>9. ASSUME NEW k \in 1 .. MaxEntries, k - 1 \in S PROVE k \in S
  <2>1. k - 1 \in 0 .. MaxEntries /\ k \in Nat /\ k \in 0 .. MaxEntries /\ k # 0
    BY <1>0
  <2>2. Doubled[k] = 2 * Doubled[k - 1]
    BY <1>7, <2>1
  <2> QED BY <1>9, <2>1, <2>2
<1>10. \A k \in 0 .. MaxEntries : k \in S
  <2> HIDE DEF S
  <2> QED BY <1>0, <1>8, <1>9, Reaches
<1> QED BY <1>10

(* The constructor's loop ends, at a size that leaves half of the table    *)
(* empty when max_entries are stored.                                      *)
LEMMA TableIsLargeEnough ==
  /\ TableSize \in Nat
  /\ TableSize >= 2
  /\ TableSize >= 2 * MaxEntries
<1> DEFINE fits == {n \in 0 .. MaxEntries : Doubled[n] >= 2 * MaxEntries}
<1>0. MaxEntries \in Nat /\ MaxEntries \in 0 .. MaxEntries
  BY EntriesAssumption
<1>1. fits \subseteq Nat /\ fits # {}
  BY <1>0, DoubledGrows
<1>2. \E n \in fits : \A m \in fits : n <= m
  <2> HIDE DEF fits
  <2> QED BY <1>1, LeastNumber
<1>3. PICK n \in fits : TableSize = Doubled[n]
  BY <1>2 DEF TableSize
<1> QED BY <1>3, DoubledGrows

-----------------------------------------------------------------------------
(* Distances around the table. *)

LEMMA Wraps ==
  ASSUME NEW n \in Nat, n > 0, NEW a \in Int, -n <= a, a < 2 * n
  PROVE  a % n = IF a < 0 THEN a + n ELSE IF a < n THEN a ELSE a - n
OBVIOUS

LEMMA SuccWraps ==
  ASSUME NEW i \in Slot
  PROVE  Succ(i) = IF i + 1 = TableSize THEN 0 ELSE i + 1
BY TableIsLargeEnough, Wraps DEF Succ, Slot

LEMMA DistWraps ==
  ASSUME NEW i \in Slot, NEW j \in Slot
  PROVE  Dist(i, j) = IF i <= j THEN j - i ELSE (j - i) + TableSize
BY TableIsLargeEnough, Wraps DEF Dist, Slot

LEMMA ZeroIsSlot == 0 \in Slot
BY TableIsLargeEnough DEF Slot

(* A distance is 0 for the slot itself alone. *)
LEMMA DistType ==
  ASSUME NEW a \in Slot, NEW b \in Slot
  PROVE  /\ Dist(a, b) \in Nat
         /\ Dist(a, b) < TableSize
         /\ Dist(a, b) = 0 <=> a = b
<1>1. Dist(a, b) = IF a <= b THEN b - a ELSE (b - a) + TableSize
  BY DistWraps
<1>2. a \in Nat /\ b \in Nat /\ a < TableSize /\ b < TableSize
  BY TableIsLargeEnough DEF Slot
<1> QED BY <1>1, <1>2, TableIsLargeEnough

LEMMA DistUnique ==
  ASSUME NEW h \in Slot, NEW a \in Slot, NEW b \in Slot, Dist(h, a) = Dist(h, b)
  PROVE  a = b
<1>1. PICK n \in Nat : n = TableSize
  BY TableIsLargeEnough
<1>2. /\ h \in Nat /\ a \in Nat /\ b \in Nat
      /\ h < n /\ a < n /\ b < n
  BY <1>1 DEF Slot
<1>3. (IF h <= a THEN a - h ELSE (a - h) + n) = IF h <= b THEN b - h ELSE (b - h) + n
  BY <1>1, DistWraps
<1> QED BY <1>1, <1>2, <1>3

(* One slot further is one further from everywhere but from that slot.     *)
LEMMA DistOfSucc ==
  ASSUME NEW h \in Slot, NEW a \in Slot
  PROVE  /\ Succ(a) \in Slot
         /\ Succ(a) # a
         /\ Dist(h, Succ(a)) = IF Succ(a) = h THEN 0 ELSE Dist(h, a) + 1
<1>1. Succ(a) = IF a + 1 = TableSize THEN 0 ELSE a + 1
  BY SuccWraps
<1>2. Succ(a) \in Slot
  BY <1>1, TableIsLargeEnough DEF Slot
<1>3. /\ Dist(h, a) = IF h <= a THEN a - h ELSE (a - h) + TableSize
      /\ Dist(h, Succ(a)) = IF h <= Succ(a) THEN Succ(a) - h
                                            ELSE (Succ(a) - h) + TableSize
  BY <1>2, DistWraps
<1> QED BY <1>1, <1>2, <1>3, TableIsLargeEnough DEF Slot

(* A slot b on the way from h to c splits the way in two. *)
LEMMA DistSplits ==
  ASSUME NEW h \in Slot, NEW b \in Slot, NEW c \in Slot,
         Dist(h, b) <= Dist(h, c) \/ Dist(b, c) <= Dist(h, c)
  PROVE  Dist(h, c) = Dist(h, b) + Dist(b, c)
<1>1. /\ Dist(h, b) = IF h <= b THEN b - h ELSE (b - h) + TableSize
      /\ Dist(h, c) = IF h <= c THEN c - h ELSE (c - h) + TableSize
      /\ Dist(b, c) = IF b <= c THEN c - b ELSE (c - b) + TableSize
  BY DistWraps
<1> QED BY <1>1, TableIsLargeEnough DEF Slot

-----------------------------------------------------------------------------
(* The invariant. *)

(* The slots that a probe that starts at h passes before it comes to i. *)
Before(h, i) == {j \in Slot : Dist(h, j) < Dist(h, i)}

UsedSlots == {i \in Slot : Used(i)}

StoredOnce == \A i, j \in Stored : i # j => table[i].id # table[j].id

(* Nothing on the way to an entry is empty, except for the hole of an      *)
(* erase that has yet to come to the entry.                                *)
PathsFilled ==
  \A i \in Stored : \A j \in Before(home[table[i].id], i) :
    \/ j \in Stored
    \/ pc = "shift" /\ j = hole /\ Dist(hole, i) >= Dist(hole, at)

(* What the running operation was called with. *)
CallKept ==
  /\ pc # "idle" => arg \in Entry
  /\ pc = "insert" => /\ size < MaxEntries
                      /\ arg.handle \in Value
                      /\ \A i \in UsedSlots : table[i].id # arg.id

(* What it has passed: entries of other ids, and no empty slot. *)
ProbeKept ==
  pc \in {"find", "insert", "seek"} =>
    \A j \in Before(home[arg.id], at) : Used(j) /\ table[j].id # arg.id

ShiftKept ==
  pc = "shift" => /\ Used(hole)
                  /\ at # hole
                  /\ \A j \in Before(hole, at) : Used(j)

MapInv ==
  /\ TypeOK
  /\ size = Cardinality(UsedSlots)
  /\ StoredOnce
  /\ PathsFilled
  /\ CallKept
  /\ ProbeKept
  /\ ShiftKept

(* Going one slot further adds that slot to what has been passed. *)
LEMMA BeforeSucc ==
  ASSUME NEW h \in Slot, NEW a \in Slot
  PROVE  Before(h, Succ(a)) \subseteq Before(h, a) \cup {a}
<1> SUFFICES ASSUME NEW j \in Slot, Dist(h, j) < Dist(h, Succ(a)), j # a
             PROVE  Dist(h, j) < Dist(h, a)
  BY DEF Before
<1>1. /\ Dist(h, Succ(a)) = IF Succ(a) = h THEN 0 ELSE Dist(h, a) + 1
      /\ Dist(h, j) \in Nat /\ Dist(h, a) \in Nat
  BY DistOfSucc, DistType
<1>2. Dist(h, j) # Dist(h, a)
  BY DistUnique
<1> QED BY <1>1, <1>2

(* There is an empty slot: every loop of the code relies on it. *)
LEMMA SomeSlotEmpty ==
  ASSUME TypeOK, size = Cardinality(UsedSlots)
  PROVE  \E i \in Slot : ~Used(i)
<1> SUFFICES ASSUME \A i \in Slot : Used(i) PROVE FALSE
  OBVIOUS
<1>1. UsedSlots = 0 .. TableSize - 1
  BY DEF UsedSlots, Slot
<1>2. Cardinality(0 .. TableSize - 1) = TableSize
  BY TableIsLargeEnough, FS_Interval
<1> QED BY <1>1, <1>2, TableIsLargeEnough, EntriesAssumption DEF TypeOK

LEMMA UsedIsFinite == IsFiniteSet(UsedSlots)
<1>1. IsFiniteSet(Slot)
  BY TableIsLargeEnough, FS_Interval DEF Slot
<1> QED BY <1>1, FS_Subset DEF UsedSlots

(* The home slot of a stored entry, and of the running operation. *)
LEMMA HomesAreSlots ==
  ASSUME TypeOK, CallKept
  PROVE  /\ \A i \in Slot : table[i] \in Entry /\ home[table[i].id] \in Slot
         /\ pc # "idle" => arg.id \in Key /\ home[arg.id] \in Slot
BY DEF TypeOK, CallKept, Entry

LEMMA MapInit ==
  ASSUME Init
  PROVE  MapInv
<1>1. UsedSlots = {} /\ Stored = {}
  BY DEF Init, UsedSlots, Stored, Used
<1>2. TypeOK
  BY ZeroIsSlot, EntriesAssumption DEF Init, TypeOK, Entry
<1>3. size = Cardinality(UsedSlots)
  BY <1>1, FS_EmptySet DEF Init
<1> QED BY <1>1, <1>2, <1>3
        DEF Init, MapInv, StoredOnce, PathsFilled, CallKept, ProbeKept, ShiftKept

-----------------------------------------------------------------------------
(* Every step keeps the invariant. *)

(* A step that changes neither the table nor whether erase is shifting     *)
(* changes no entry.                                                       *)
LEMMA TableKept ==
  ASSUME MapInv, UNCHANGED <<table, size, home>>, pc # "shift", pc' # "shift"
  PROVE  /\ Stored' = Stored /\ UsedSlots' = UsedSlots
         /\ (size = Cardinality(UsedSlots))'
         /\ StoredOnce' /\ PathsFilled' /\ ShiftKept'
<1>1. Stored' = Stored /\ UsedSlots' = UsedSlots
  BY DEF Stored, UsedSlots, Used
<1> QED BY <1>1 DEF MapInv, StoredOnce, PathsFilled, ShiftKept

LEMMA CallStep ==
  ASSUME MapInv, Call
  PROVE  MapInv'
<1>1. PICK k \in Key, v \in Value \cup {NilHandle}, loop \in {"find", "insert", "seek"} :
        /\ Begin(loop, k, v)
        /\ loop = "insert" => /\ v \in Value
                              /\ size < MaxEntries
                              /\ \A i \in Slot : ~(Used(i) /\ table[i].id = k)
  BY DEF Call, BeginFind, BeginErase, BeginInsert
<1>2. /\ pc = "idle" /\ pc' = loop
      /\ arg' = [id |-> k, handle |-> v] /\ at' = home[k]
      /\ UNCHANGED <<table, size, home, hole, ret>>
  BY <1>1 DEF Begin
<1>3. TypeOK'
  BY <1>2 DEF MapInv, TypeOK, Entry
<1>4. /\ UsedSlots' = UsedSlots /\ (size = Cardinality(UsedSlots))'
      /\ StoredOnce' /\ PathsFilled' /\ ShiftKept'
  BY <1>2, TableKept
<1>5. CallKept'
  BY <1>1, <1>2, <1>4 DEF CallKept, Entry, UsedSlots
<1>6. ProbeKept'
  <2>1. home[k] \in Slot
    BY DEF MapInv, TypeOK
  <2>2. Before(home[k], home[k]) = {}
    BY <2>1, DistType DEF Before
  <2> QED BY <1>2, <2>2 DEF ProbeKept
<1> QED BY <1>3, <1>4, <1>5, <1>6 DEF MapInv

(* The step of a loop to the next slot. *)
LEMMA PassStep ==
  ASSUME MapInv, FindPass \/ InsertPass \/ SeekPass
  PROVE  MapInv'
<1>1. /\ pc \in {"find", "insert", "seek"} /\ Used(at)
      /\ pc # "insert" => table[at].id # arg.id
      /\ at' = Succ(at)
      /\ UNCHANGED <<table, size, home, pc, arg, hole, ret>>
  BY DEF FindPass, InsertPass, SeekPass, Advance
<1>2. at \in Slot /\ Succ(at) \in Slot /\ home[arg.id] \in Slot
  BY <1>1, DistOfSucc, HomesAreSlots DEF MapInv, TypeOK
<1>3. TypeOK'
  BY <1>1, <1>2 DEF MapInv, TypeOK
<1>4. /\ UsedSlots' = UsedSlots /\ (size = Cardinality(UsedSlots))'
      /\ StoredOnce' /\ PathsFilled' /\ ShiftKept'
  BY <1>1, TableKept
<1>5. CallKept'
  BY <1>1, <1>4 DEF MapInv, CallKept
<1>6. ProbeKept'
  <2>1. table[at].id # arg.id
    BY <1>1, <1>2 DEF MapInv, CallKept, UsedSlots
  <2>2. Before(home[arg.id], Succ(at)) \subseteq Before(home[arg.id], at) \cup {at}
    BY <1>2, BeforeSucc
  <2> QED BY <1>1, <2>1, <2>2 DEF MapInv, ProbeKept, Used
<1> QED BY <1>3, <1>4, <1>5, <1>6 DEF MapInv

(* find returns, or erase does without having found the id. *)
LEMMA LookupReturns ==
  ASSUME MapInv, FindHit \/ FindMiss \/ SeekMiss
  PROVE  MapInv'
<1>1. PICK v \in Value \cup {NilHandle} \cup BOOLEAN :
        pc \in {"find", "seek"} /\ Return(v) /\ UNCHANGED <<table, size>>
  BY DEF FindHit, FindMiss, SeekMiss, MapInv, TypeOK, Entry
<1>2. TypeOK'
  BY <1>1, ZeroIsSlot, HomesAreSlots DEF MapInv, TypeOK, Return
<1>3. /\ (size = Cardinality(UsedSlots))'
      /\ StoredOnce' /\ PathsFilled' /\ ShiftKept'
  BY <1>1, TableKept DEF Return
<1> QED BY <1>1, <1>2, <1>3 DEF MapInv, CallKept, ProbeKept, Return

(* insert fills the first empty slot of the id's probe path. *)
LEMMA InsertStep ==
  ASSUME MapInv, InsertPut
  PROVE  MapInv'
<1>1. /\ pc = "insert" /\ ~Used(at)
      /\ table' = [table EXCEPT ![at] = arg]
      /\ size' = size + 1
      /\ pc' = "idle" /\ ret' = <<arg.id, NilHandle>> /\ arg' = NoArg
      /\ at' = 0 /\ hole' = 0 /\ home' = home
  BY DEF InsertPut, Return
<1>2. /\ at \in Slot /\ home[arg.id] \in Slot
      /\ arg \in Entry /\ arg.handle \in Value /\ arg.id \in Key
      /\ \A i \in UsedSlots : table[i].id # arg.id
      /\ size < MaxEntries /\ size \in Nat
  BY <1>1, HomesAreSlots DEF MapInv, TypeOK, CallKept
<1>3. /\ table'[at] = arg
      /\ \A i \in Slot : i # at => table'[i] = table[i]
  BY <1>1, <1>2 DEF MapInv, TypeOK
<1>4. UsedSlots' = UsedSlots \cup {at} /\ at \notin UsedSlots
  BY <1>1, <1>2, <1>3, NilAssumption DEF UsedSlots, Used
<1>5. Stored = UsedSlots /\ Stored' = UsedSlots'
  BY <1>1 DEF Stored, UsedSlots
<1>6. TypeOK'
  BY <1>1, <1>2, ZeroIsSlot, EntriesAssumption DEF MapInv, TypeOK
<1>7. (size = Cardinality(UsedSlots))'
  <2>1. IsFiniteSet(UsedSlots)
    BY UsedIsFinite
  <2>2. Cardinality(UsedSlots \cup {at}) = Cardinality(UsedSlots) + 1
    BY <1>4, <2>1, FS_AddElement
  <2> QED BY <1>1, <1>4, <2>2 DEF MapInv
<1>8. StoredOnce'
  BY <1>2, <1>3, <1>4, <1>5 DEF MapInv, StoredOnce, UsedSlots
<1>9. PathsFilled'
  <2> SUFFICES ASSUME NEW i \in UsedSlots \cup {at},
                      NEW j \in Before(home[table'[i].id], i)
               PROVE  j \in UsedSlots \cup {at}
    BY <1>1, <1>4, <1>5 DEF PathsFilled
  <2>1. CASE i = at
    <3>1. Used(j) /\ j \in Slot
      BY <1>1, <1>3, <2>1 DEF MapInv, ProbeKept, Before
    <3> QED BY <3>1 DEF UsedSlots
  <2>2. CASE i # at
    <3>1. i \in Stored /\ table'[i] = table[i]
      BY <1>3, <1>5, <2>2 DEF UsedSlots
    <3> QED BY <1>1, <1>5, <3>1 DEF MapInv, PathsFilled
  <2> QED BY <2>1, <2>2
<1> QED BY <1>1, <1>6, <1>7, <1>8, <1>9 DEF MapInv, CallKept, ProbeKept, ShiftKept

(* erase has found the id: its slot becomes the hole. *)
LEMMA SeekHitStep ==
  ASSUME MapInv, SeekHit
  PROVE  MapInv'
<1>1. /\ pc = "seek" /\ Used(at) /\ table[at].id = arg.id
      /\ hole' = at /\ at' = Succ(at) /\ pc' = "shift"
      /\ UNCHANGED <<table, size, home, arg, ret>>
  BY DEF SeekHit
<1>2. at \in Slot /\ Succ(at) \in Slot /\ Succ(at) # at /\ Dist(at, at) = 0
  BY DistOfSucc, DistType DEF MapInv, TypeOK
<1>3. Dist(at, Succ(at)) = 1
  BY <1>2, DistOfSucc
<1>4. UsedSlots' = UsedSlots /\ Stored' = Stored \ {at}
  BY <1>1 DEF UsedSlots, Stored, Used
<1>5. TypeOK'
  BY <1>1, <1>2 DEF MapInv, TypeOK
<1>6. StoredOnce'
  BY <1>1, <1>4 DEF MapInv, StoredOnce
<1>7. PathsFilled'
  <2> SUFFICES ASSUME NEW i \in Stored \ {at},
                      NEW j \in Before(home[table[i].id], i)
               PROVE  \/ j \in Stored \ {at}
                      \/ j = at /\ Dist(at, i) >= 1
    BY <1>1, <1>3, <1>4 DEF PathsFilled
  <2>1. j \in Stored
    BY <1>1 DEF MapInv, PathsFilled
  <2>2. Dist(at, i) \in Nat /\ Dist(at, i) # 0
    BY <1>2, DistType DEF Stored
  <2> QED BY <2>1, <2>2
<1>8. ShiftKept'
  <2>1. Before(at, Succ(at)) \subseteq Before(at, at) \cup {at}
    BY <1>2, BeforeSucc
  <2>2. Before(at, at) = {}
    BY <1>2, DistType DEF Before
  <2> QED BY <1>1, <1>2, <2>1, <2>2 DEF ShiftKept, Used
<1>9. CallKept' /\ ProbeKept'
  BY <1>1 DEF MapInv, CallKept, ProbeKept
<1> QED BY <1>1, <1>4, <1>5, <1>6, <1>7, <1>8, <1>9 DEF MapInv

(* erase moves the entry at the cursor into the hole on its probe path. *)
LEMMA ShiftMoveStep ==
  ASSUME MapInv, ShiftMove
  PROVE  MapInv'
<1>1. /\ pc = "shift" /\ Used(at) /\ MayMove(at)
      /\ table' = [table EXCEPT ![hole] = table[at]]
      /\ hole' = at /\ at' = Succ(at)
      /\ UNCHANGED <<size, home, pc, arg, ret>>
  BY DEF ShiftMove
<1>2. /\ at \in Slot /\ hole \in Slot /\ at # hole /\ Used(hole)
      /\ Succ(at) \in Slot /\ Succ(at) # at
      /\ table[at] \in Entry /\ home[table[at].id] \in Slot
  BY <1>1, DistOfSucc, HomesAreSlots DEF MapInv, TypeOK, ShiftKept
<1>3. Dist(at, Succ(at)) = 1
  BY <1>2, DistOfSucc, DistType
<1>4. /\ table'[hole] = table[at]
      /\ \A i \in Slot : i # hole => table'[i] = table[i]
  BY <1>1, <1>2 DEF MapInv, TypeOK
<1>5. UsedSlots' = UsedSlots
  BY <1>1, <1>2, <1>4 DEF UsedSlots, Used
<1>6. /\ Stored' = (Stored \ {at}) \cup {hole}
      /\ at \in Stored /\ hole \notin Stored
  BY <1>1, <1>2, <1>4 DEF Stored, Used
<1>7. TypeOK'
  BY <1>1, <1>2 DEF MapInv, TypeOK
<1>8. StoredOnce'
  <2>1. \A i \in Stored : i \in Slot
    BY DEF Stored
  <2> QED BY <1>4, <1>6, <2>1 DEF MapInv, StoredOnce
<1>9. PathsFilled'
  <2> SUFFICES ASSUME NEW i \in (Stored \ {at}) \cup {hole},
                      NEW j \in Before(home[table'[i].id], i)
               PROVE  \/ j \in (Stored \ {at}) \cup {hole}
                      \/ j = at /\ Dist(at, i) >= 1
    BY <1>1, <1>3, <1>6 DEF PathsFilled
  <2>1. CASE i = hole
    <3> DEFINE h == home[table[at].id]
    <3>1. Dist(h, at) = Dist(h, hole) + Dist(hole, at)
      BY <1>1, <1>2, DistSplits DEF MayMove
    <3>2. j \in Slot /\ Dist(h, j) < Dist(h, hole)
      BY <1>4, <2>1 DEF Before
    <3>3. /\ Dist(h, at) \in Nat /\ Dist(h, hole) \in Nat /\ Dist(h, j) \in Nat
          /\ Dist(hole, at) \in Nat
      BY <1>2, <3>2, DistType
    <3>4. Dist(h, j) < Dist(h, at) /\ j # hole /\ j # at
      BY <3>1, <3>2, <3>3
    <3>5. j \in Before(home[table[at].id], at)
      BY <3>2, <3>4 DEF Before
    <3> QED BY <1>6, <3>4, <3>5 DEF MapInv, PathsFilled
  <2>2. CASE i # hole
    <3>1. i \in Stored /\ i # at /\ i \in Slot /\ table'[i] = table[i]
      BY <1>4, <2>2 DEF Stored
    <3>2. j \in Stored \/ j = hole
      BY <3>1 DEF MapInv, PathsFilled
    <3>3. Dist(at, i) \in Nat /\ Dist(at, i) # 0
      BY <1>2, <3>1, DistType
    <3> QED BY <3>2, <3>3
  <2> QED BY <2>1, <2>2
<1>10. ShiftKept'
  <2>1. Before(at, Succ(at)) \subseteq Before(at, at) \cup {at}
    BY <1>2, BeforeSucc
  <2>2. Before(at, at) = {}
    BY <1>2, DistType DEF Before
  <2> QED BY <1>1, <1>2, <1>4, <2>1, <2>2 DEF ShiftKept, Used
<1>11. CallKept' /\ ProbeKept'
  BY <1>1 DEF MapInv, CallKept, ProbeKept
<1> QED BY <1>1, <1>5, <1>7, <1>8, <1>9, <1>10, <1>11 DEF MapInv

(* erase leaves an entry whose probe path does not pass the hole: the path *)
(* starts behind it.                                                       *)
LEMMA ShiftSkipStep ==
  ASSUME MapInv, ShiftSkip
  PROVE  MapInv'
<1>1. /\ pc = "shift" /\ Used(at) /\ ~MayMove(at)
      /\ at' = Succ(at)
      /\ UNCHANGED <<table, size, home, pc, arg, hole, ret>>
  BY DEF ShiftSkip, Advance
<1>2. /\ at \in Slot /\ hole \in Slot /\ at # hole /\ Used(hole)
      /\ Succ(at) \in Slot
      /\ table[at] \in Entry /\ home[table[at].id] \in Slot
  BY <1>1, DistOfSucc, HomesAreSlots DEF MapInv, TypeOK, ShiftKept
<1>3. UsedSlots' = UsedSlots /\ Stored' = Stored
  BY <1>1 DEF UsedSlots, Stored, Used
<1>4. Before(hole, Succ(at)) \subseteq Before(hole, at) \cup {at}
  BY <1>2, BeforeSucc
<1>5. Succ(at) # hole
  <2> SUFFICES ASSUME Succ(at) = hole PROVE FALSE
    OBVIOUS
  <2>1. PICK e \in Slot : ~Used(e)
    BY SomeSlotEmpty DEF MapInv
  <2>2. ~(Dist(hole, e) < Dist(hole, at)) /\ e # at
    BY <1>1, <2>1 DEF MapInv, ShiftKept, Before
  <2>3. Dist(hole, e) # Dist(hole, at)
    BY <1>2, <2>2, DistUnique
  <2>4. Dist(hole, at) = TableSize - 1
    BY <1>2, SuccWraps, DistWraps, TableIsLargeEnough DEF Slot
  <2>5. /\ Dist(hole, e) \in Nat /\ Dist(hole, at) \in Nat
        /\ Dist(hole, e) < TableSize
    BY <1>2, DistType
  <2> QED BY <2>2, <2>3, <2>4, <2>5, TableIsLargeEnough
<1>6. Dist(hole, Succ(at)) = Dist(hole, at) + 1
  BY <1>2, <1>5, DistOfSucc
<1>7. TypeOK'
  BY <1>1, <1>2 DEF MapInv, TypeOK
<1>8. StoredOnce'
  BY <1>1, <1>3 DEF MapInv, StoredOnce
<1>9. PathsFilled'
  <2> SUFFICES ASSUME NEW i \in Stored, NEW j \in Before(home[table[i].id], i),
                      j \notin Stored
               PROVE  j = hole /\ Dist(hole, i) >= Dist(hole, at) + 1
    BY <1>1, <1>3, <1>6 DEF PathsFilled
  <2>1. j = hole /\ Dist(hole, i) >= Dist(hole, at)
    BY DEF MapInv, PathsFilled
  <2>2. i \in Slot /\ Dist(hole, i) \in Nat /\ Dist(hole, at) \in Nat
    BY <1>2, DistType DEF Stored
  <2>3. CASE i = at
    <3> DEFINE h == home[table[at].id]
    <3>1. Dist(h, hole) < Dist(h, at)
      BY <2>1, <2>3 DEF Before
    <3>2. /\ Dist(h, hole) \in Nat /\ Dist(h, at) \in Nat
          /\ Dist(hole, at) \in Nat
      BY <1>2, DistType
    <3>3. Dist(h, at) = Dist(h, hole) + Dist(hole, at)
      <4>1. Dist(h, hole) <= Dist(h, at)
        BY <3>1, <3>2
      <4> QED BY <1>2, <4>1, DistSplits
    <3>4. ~(Dist(h, at) >= Dist(hole, at))
      BY <1>1 DEF MayMove
    <3> QED BY <3>2, <3>3, <3>4
  <2>4. CASE i # at
    <3>1. Dist(hole, i) # Dist(hole, at)
      BY <1>2, <2>2, <2>4, DistUnique
    <3> QED BY <2>1, <2>2, <3>1
  <2> QED BY <2>3, <2>4
<1>10. ShiftKept'
  BY <1>1, <1>2, <1>4, <1>5 DEF MapInv, ShiftKept, Used
<1>11. CallKept' /\ ProbeKept'
  BY <1>1 DEF MapInv, CallKept, ProbeKept
<1> QED BY <1>1, <1>3, <1>7, <1>8, <1>9, <1>10, <1>11 DEF MapInv

(* erase has come to an empty slot: no entry is left whose path the hole   *)
(* interrupts.                                                             *)
LEMMA ShiftEndStep ==
  ASSUME MapInv, ShiftEnd
  PROVE  MapInv'
<1>1. /\ pc = "shift" /\ ~Used(at)
      /\ table' = [table EXCEPT ![hole].handle = NilHandle]
      /\ size' = size - 1
      /\ pc' = "idle" /\ ret' = <<arg.id, TRUE>> /\ arg' = NoArg
      /\ at' = 0 /\ hole' = 0 /\ home' = home
  BY DEF ShiftEnd, Return
<1>2. /\ at \in Slot /\ hole \in Slot /\ Used(hole) /\ arg.id \in Key
      /\ table[hole] \in Entry
  BY <1>1, HomesAreSlots DEF MapInv, TypeOK, ShiftKept
<1>3. /\ table' \in [Slot -> Entry]
      /\ table'[hole].handle = NilHandle
      /\ \A i \in Slot : i # hole => table'[i] = table[i]
  BY <1>1, <1>2 DEF MapInv, TypeOK, Entry
<1>4. UsedSlots' = UsedSlots \ {hole} /\ hole \in UsedSlots
  BY <1>2, <1>3 DEF UsedSlots, Used
<1>5. Stored = UsedSlots \ {hole} /\ Stored' = UsedSlots'
  BY <1>1 DEF Stored, UsedSlots
<1>6. Cardinality(UsedSlots \ {hole}) = Cardinality(UsedSlots) - 1
      /\ Cardinality(UsedSlots \ {hole}) \in Nat
  BY <1>4, UsedIsFinite, FS_RemoveElement, FS_CardinalityType
<1>7. (size = Cardinality(UsedSlots))'
  BY <1>1, <1>4, <1>6 DEF MapInv
<1>8. TypeOK'
  <2>1. size \in 0 .. MaxEntries /\ size - 1 \in Nat
    BY <1>6 DEF MapInv, TypeOK
  <2>2. size' \in 0 .. MaxEntries
    BY <1>1, <2>1, EntriesAssumption
  <2> QED BY <1>1, <1>2, <1>3, <2>2, ZeroIsSlot DEF MapInv, TypeOK
<1>9. \A i \in Stored : i \in Slot /\ table'[i] = table[i]
  BY <1>3, <1>5 DEF UsedSlots
<1>10. StoredOnce'
  BY <1>4, <1>5, <1>9 DEF MapInv, StoredOnce
<1>11. PathsFilled'
  <2> SUFFICES ASSUME NEW i \in Stored, NEW j \in Before(home[table[i].id], i),
                      j \notin Stored
               PROVE  FALSE
    BY <1>1, <1>4, <1>5, <1>9 DEF PathsFilled
  <2> DEFINE h == home[table[i].id]
  <2>1. j = hole /\ Dist(hole, i) >= Dist(hole, at)
    BY DEF MapInv, PathsFilled
  <2>2. h \in Slot /\ i \in Slot /\ i # at
    BY <1>1, HomesAreSlots DEF MapInv, Stored
  <2>3. /\ Dist(h, hole) \in Nat /\ Dist(h, i) \in Nat /\ Dist(h, at) \in Nat
        /\ Dist(hole, i) \in Nat /\ Dist(hole, at) \in Nat
    BY <1>2, <2>2, DistType
  <2>4. Dist(h, hole) <= Dist(h, i) /\ Dist(h, hole) < Dist(h, i)
    BY <2>1, <2>3 DEF Before
  <2>5. Dist(h, i) = Dist(h, hole) + Dist(hole, i)
    BY <1>2, <2>2, <2>4, DistSplits
  <2>6. Dist(hole, i) # Dist(hole, at)
    BY <1>2, <2>2, DistUnique
  <2>7. Dist(hole, at) < Dist(hole, i)
    BY <2>1, <2>3, <2>6
  <2>8. Dist(hole, i) = Dist(hole, at) + Dist(at, i)
    BY <1>2, <2>2, <2>3, <2>7, DistSplits
  <2>9. Dist(at, i) <= Dist(h, i)
    BY <1>2, <2>2, <2>3, <2>5, <2>8, DistType
  <2>10. Dist(h, i) = Dist(h, at) + Dist(at, i)
    BY <1>2, <2>2, <2>9, DistSplits
  <2>11. Dist(at, i) \in Nat /\ Dist(at, i) # 0
    BY <1>2, <2>2, DistType
  <2>12. at \in Before(home[table[i].id], i)
    BY <1>2, <2>3, <2>10, <2>11 DEF Before
  <2>13. at # hole
    BY <1>1, <1>2
  <2>14. at \in Stored
    BY <2>12, <2>13 DEF MapInv, PathsFilled
  <2> QED BY <1>1, <2>14 DEF Stored
<1> QED BY <1>1, <1>7, <1>8, <1>10, <1>11 DEF MapInv, CallKept, ProbeKept, ShiftKept

LEMMA MapStep ==
  ASSUME MapInv, [Next]_vars
  PROVE  MapInv'
<1>1. CASE Call
  BY <1>1, CallStep
<1>2. CASE FindPass \/ InsertPass \/ SeekPass
  BY <1>2, PassStep
<1>3. CASE FindHit \/ FindMiss \/ SeekMiss
  BY <1>3, LookupReturns
<1>4. CASE InsertPut
  BY <1>4, InsertStep
<1>5. CASE SeekHit
  BY <1>5, SeekHitStep
<1>6. CASE ShiftMove
  BY <1>6, ShiftMoveStep
<1>7. CASE ShiftSkip
  BY <1>7, ShiftSkipStep
<1>8. CASE ShiftEnd
  BY <1>8, ShiftEndStep
<1>9. CASE UNCHANGED vars
  <2>1. Stored' = Stored /\ UsedSlots' = UsedSlots
    BY <1>9 DEF vars, Stored, UsedSlots, Used
  <2> QED
    BY <1>9, <2>1 DEF vars, MapInv, TypeOK, StoredOnce, PathsFilled, CallKept,
                      ProbeKept, ShiftKept, Used
<1> QED
  BY <1>1, <1>2, <1>3, <1>4, <1>5, <1>6, <1>7, <1>8, <1>9 DEF Next, Step

(***************************************************************************)
(* The invariant behind the other theorems: what the running loop of find, *)
(* insert or erase has passed, and what it may leave behind.               *)
(***************************************************************************)
THEOREM MapInvariance == Spec => []MapInv
<1>1. Init => MapInv
  BY MapInit
<1>2. MapInv /\ [Next]_vars => MapInv'
  BY MapStep
<1> QED BY <1>1, <1>2, PTL DEF Spec

(***************************************************************************)
(* The table, the count and the operands of the running operation have     *)
(* their types: no index of find, insert or erase leaves the table.        *)
(***************************************************************************)
THEOREM MapTypeCorrect == Spec => []TypeOK
<1>1. MapInv => TypeOK
  BY DEF MapInv
<1> QED BY <1>1, MapInvariance, PTL

(***************************************************************************)
(* size_ counts the entries and half of the slots are empty, whatever      *)
(* max_entries the constructor was given: every probe meets an empty slot. *)
(***************************************************************************)
THEOREM HalfAlwaysEmpty == Spec => []HalfEmpty
<1>1. MapInv => HalfEmpty
  BY TableIsLargeEnough, EntriesAssumption DEF MapInv, TypeOK, HalfEmpty, UsedSlots
<1> QED BY <1>1, MapInvariance, PTL

(***************************************************************************)
(* Deletion by shifting back breaks no probe path and stores no id twice,  *)
(* for every hash and every order of operations.                           *)
(***************************************************************************)
THEOREM EntriesStayReachable == Spec => []EveryEntryReachable
<1>1. ASSUME MapInv PROVE EveryEntryReachable
  <2> SUFFICES ASSUME NEW i \in Stored
               PROVE  /\ \A j \in Stored \ {i} : table[j].id # table[i].id
                      /\ \A d \in 0 .. Dist(home[table[i].id], i) - 1 :
                           LET j == (home[table[i].id] + d) % TableSize
                           IN  \/ j \in Stored
                               \/ /\ pc = "shift" /\ j = hole
                                  /\ Dist(hole, i) >= Dist(hole, at)
    BY DEF EveryEntryReachable
  <2>1. \A j \in Stored \ {i} : table[j].id # table[i].id
    BY <1>1 DEF MapInv, StoredOnce
  <2>2. ASSUME NEW d \in 0 .. Dist(home[table[i].id], i) - 1
        PROVE  (home[table[i].id] + d) % TableSize \in Before(home[table[i].id], i)
    <3>1. PICK h \in Slot : h = home[table[i].id]
      BY <1>1, HomesAreSlots DEF MapInv, Stored
    <3>2. PICK n \in Nat : n = TableSize /\ n >= 2
      BY TableIsLargeEnough
    <3>3. i \in Slot /\ Dist(h, i) \in Nat /\ Dist(h, i) < n
      BY <3>2, DistType DEF Stored
    <3>4. /\ h \in Nat /\ h < n
          /\ d \in Nat /\ d < n /\ d < Dist(h, i)
      BY <2>2, <3>1, <3>2, <3>3 DEF Slot
    <3>5. PICK j \in Int : j = (h + d) % n
      BY <3>2, <3>4
    <3>6. j = IF h + d < n THEN h + d ELSE h + d - n
      BY <3>2, <3>4, <3>5, Wraps
    <3>7. j \in Slot
      BY <3>2, <3>4, <3>6 DEF Slot
    <3>8. Dist(h, j) = IF h <= j THEN j - h ELSE (j - h) + n
      BY <3>2, <3>7, DistWraps
    <3>9. Dist(h, j) = d
      BY <3>2, <3>4, <3>6, <3>8
    <3> QED BY <3>1, <3>2, <3>4, <3>5, <3>7, <3>9 DEF Before
  <2> QED BY <1>1, <2>1, <2>2 DEF MapInv, PathsFilled
<1> QED BY <1>1, MapInvariance, PTL

-----------------------------------------------------------------------------
(* The table implements a dictionary. *)

(* The handle of each id, if the entries t of the slots S count. *)
MapFrom(S, t) == [k \in Key |->
                    LET T == {i \in S : t[i].id = k}
                    IN  IF T = {} THEN NilHandle
                        ELSE t[CHOOSE i \in T : TRUE].handle]

NoneTwice(S, t) == \A i, j \in S : i # j => t[i].id # t[j].id

LEMMA MapFromReads ==
  ASSUME NEW S, NEW t, NoneTwice(S, t), NEW k \in Key
  PROVE  /\ \A i \in S : t[i].id = k => MapFrom(S, t)[k] = t[i].handle
         /\ (\A i \in S : t[i].id # k) => MapFrom(S, t)[k] = NilHandle
<1> DEFINE T == {i \in S : t[i].id = k}
<1>1. MapFrom(S, t)[k] = IF T = {} THEN NilHandle
                         ELSE t[CHOOSE i \in T : TRUE].handle
  BY DEF MapFrom
<1>2. ASSUME NEW i \in S, t[i].id = k PROVE MapFrom(S, t)[k] = t[i].handle
  <2>1. T = {i}
    BY <1>2 DEF NoneTwice
  <2>2. (CHOOSE j \in T : TRUE) = i
    BY <2>1
  <2> QED BY <1>1, <2>1, <2>2
<1>3. ASSUME \A i \in S : t[i].id # k PROVE MapFrom(S, t)[k] = NilHandle
  BY <1>1, <1>3
<1> QED BY <1>2, <1>3

(* Entries that are moved to other slots are the same map. *)
LEMMA SameEntriesSameMap ==
  ASSUME NEW S, NEW t, NEW S2, NEW t2, NoneTwice(S, t), NoneTwice(S2, t2),
         \A i \in S : \E j \in S2 : t2[j] = t[i],
         \A j \in S2 : \E i \in S : t2[j] = t[i]
  PROVE  MapFrom(S2, t2) = MapFrom(S, t)
<1>1. ASSUME NEW k \in Key PROVE MapFrom(S2, t2)[k] = MapFrom(S, t)[k]
  <2>1. CASE \E i \in S : t[i].id = k
    <3>1. PICK i \in S : t[i].id = k
      BY <2>1
    <3>2. PICK j \in S2 : t2[j] = t[i]
      OBVIOUS
    <3>3. MapFrom(S, t)[k] = t[i].handle
      BY <3>1, MapFromReads
    <3>4. MapFrom(S2, t2)[k] = t2[j].handle
      BY <3>1, <3>2, MapFromReads
    <3> QED BY <3>2, <3>3, <3>4
  <2>2. CASE \A i \in S : t[i].id # k
    <3>1. \A j \in S2 : t2[j].id # k
      BY <2>2
    <3>2. MapFrom(S, t)[k] = NilHandle
      BY <2>2, MapFromReads
    <3>3. MapFrom(S2, t2)[k] = NilHandle
      BY <3>1, MapFromReads
    <3> QED BY <3>2, <3>3
  <2> QED BY <2>1, <2>2
<1> QED BY <1>1 DEF MapFrom

(* A map that differs from another one in one place. *)
LEMMA MapUpdated ==
  ASSUME NEW f, NEW g, DOMAIN f = Key, DOMAIN g = Key, f = [k \in Key |-> f[k]],
         g = [k \in Key |-> g[k]], NEW key \in Key, NEW v,
         \A k \in Key : g[k] = IF k = key THEN v ELSE f[k]
  PROVE  g = [f EXCEPT ![key] = v]
OBVIOUS

LEMMA MapFromIsFunction ==
  ASSUME NEW S, NEW t
  PROVE  /\ DOMAIN MapFrom(S, t) = Key
         /\ MapFrom(S, t) = [k \in Key |-> MapFrom(S, t)[k]]
<1> DEFINE Get(k) == LET T == {i \in S : t[i].id = k}
                     IN  IF T = {} THEN NilHandle
                         ELSE t[CHOOSE i \in T : TRUE].handle
<1>1. MapFrom(S, t) = [k \in Key |-> Get(k)]
  BY DEF MapFrom
<1> HIDE DEF Get
<1> QED BY <1>1

LEMMA MapOfIs ==
  /\ MapOf = MapFrom(Stored, table)
  /\ MapOf' = MapFrom(Stored', table')
BY DEF MapOf, MapFrom

(* The invariant in the form in which the lemmas above use it. *)
LEMMA NoneStoredTwice ==
  /\ MapInv => NoneTwice(Stored, table)
  /\ MapInv' => NoneTwice(Stored', table')
BY DEF MapInv, StoredOnce, NoneTwice

(* What is stored under an id, and that nothing else is in the map. *)
LEMMA MapReads ==
  ASSUME MapInv
  PROVE  /\ \A i \in Stored : /\ table[i].id \in Key
                              /\ MapOf[table[i].id] = table[i].handle
                              /\ MapOf[table[i].id] # NilHandle
         /\ \A k \in Key : (\A i \in Stored : table[i].id # k) => MapOf[k] = NilHandle
<1>1. NoneTwice(Stored, table)
  BY NoneStoredTwice
<1>2. MapOf = MapFrom(Stored, table)
  BY MapOfIs
<1>3. ASSUME NEW i \in Stored
      PROVE  /\ table[i].id \in Key
             /\ MapOf[table[i].id] = table[i].handle
             /\ MapOf[table[i].id] # NilHandle
  <2>1. table[i].id \in Key /\ table[i].handle # NilHandle
    BY DEF MapInv, TypeOK, Entry, Stored, Used
  <2>2. MapOf[table[i].id] = table[i].handle
    BY <1>1, <1>2, <2>1, MapFromReads
  <2> QED BY <2>1, <2>2
<1>4. ASSUME NEW k \in Key, \A i \in Stored : table[i].id # k
      PROVE  MapOf[k] = NilHandle
  BY <1>1, <1>2, <1>4, MapFromReads
<1> QED BY <1>3, <1>4

(* A lookup that comes to an empty slot has looked everywhere the id could *)
(* be.                                                                     *)
LEMMA MissedIsAbsent ==
  ASSUME MapInv, pc \in {"find", "seek"}, ~Used(at)
  PROVE  arg.id \in Key /\ MapOf[arg.id] = NilHandle
<1>1. PICK h \in Slot : h = home[arg.id] /\ arg.id \in Key /\ at \in Slot
  BY HomesAreSlots DEF MapInv, TypeOK
<1>2. ASSUME NEW i \in Stored, table[i].id = arg.id PROVE FALSE
  <2>1. i \in Slot /\ i # at /\ Used(i)
    BY DEF Stored
  <2>2. Dist(h, i) # Dist(h, at)
    BY <1>1, <2>1, DistUnique
  <2>3. Dist(h, i) \in Nat /\ Dist(h, at) \in Nat
    BY <1>1, <2>1, DistType
  <2>4. CASE Dist(h, i) < Dist(h, at)
    <3>1. i \in Before(home[arg.id], at)
      BY <1>1, <2>1, <2>4 DEF Before
    <3> QED BY <1>2, <3>1 DEF MapInv, ProbeKept
  <2>5. CASE Dist(h, at) < Dist(h, i)
    <3>1. at \in Before(home[table[i].id], i)
      BY <1>1, <1>2, <2>5 DEF Before
    <3>2. at \in Stored
      BY <3>1 DEF MapInv, PathsFilled
    <3> QED BY <3>2 DEF Stored
  <2> QED BY <2>2, <2>3, <2>4, <2>5
<1> QED BY <1>1, <1>2, MapReads

(* The map has no more ids than the table has entries. *)
LEMMA KeysAreCounted ==
  ASSUME MapInv
  PROVE  /\ Dict!Cardinality(Dict!Keys) \in Nat
         /\ Dict!Cardinality(Dict!Keys) <= size
<1> DEFINE slot == [k \in Dict!Keys |-> CHOOSE i \in Stored : table[i].id = k]
<1>1. ASSUME NEW k \in Dict!Keys
      PROVE  slot[k] \in Stored /\ table[slot[k]].id = k
  <2>1. k \in Key /\ MapOf[k] # NilHandle
    BY DEF Dict!Keys
  <2>2. \E i \in Stored : table[i].id = k
    BY <2>1, MapReads
  <2> QED BY <2>2
<1>2. \A i \in Stored : i \in UsedSlots
  BY DEF Stored, UsedSlots
<1>3. slot \in Injection(Dict!Keys, UsedSlots)
  <2>1. slot \in [Dict!Keys -> UsedSlots]
    BY <1>1, <1>2
  <2> HIDE DEF slot
  <2> QED BY <1>1, <2>1 DEF Injection, IsInjective
<1>4. /\ IsFiniteSet(Dict!Keys)
      /\ Cardinality(Dict!Keys) <= Cardinality(UsedSlots)
  <2> HIDE DEF slot
  <2> QED BY <1>3, UsedIsFinite, FS_Injection
<1>5. Dict!Cardinality(Dict!Keys) = Cardinality(Dict!Keys)
  BY Zenon DEF Dict!Cardinality, Cardinality
<1>6. Cardinality(Dict!Keys) \in Nat
  BY <1>4, FS_CardinalityType
<1> QED BY <1>4, <1>5, <1>6 DEF MapInv

(* The steps that find, insert and erase take on the way, and the steps    *)
(* of erase after it has found the entry, change no answer and no entry.   *)
LEMMA StepsInside ==
  ASSUME MapInv, MapInv',
         Call \/ FindPass \/ InsertPass \/ SeekPass
         \/ ShiftMove \/ ShiftSkip \/ ShiftEnd \/ UNCHANGED vars
  PROVE  /\ MapOf' = MapOf
         /\ (IF pc = "shift" THEN <<arg.id, TRUE>> ELSE ret)'
              = (IF pc = "shift" THEN <<arg.id, TRUE>> ELSE ret)
<1>1. CASE Call \/ FindPass \/ InsertPass \/ SeekPass \/ ShiftSkip
           \/ UNCHANGED vars
  <2>1. /\ UNCHANGED <<table, hole, ret>>
        /\ pc = "shift" <=> pc' = "shift"
        /\ pc = "shift" => arg' = arg
    BY <1>1 DEF Call, BeginFind, BeginErase, BeginInsert, Begin, FindPass,
                InsertPass, SeekPass, ShiftSkip, Advance, vars
  <2>2. Stored' = Stored
    BY <2>1 DEF Stored, Used
  <2> QED BY <2>1, <2>2, MapOfIs
<1>2. CASE ShiftMove
  <2>1. /\ pc = "shift" /\ Used(at) /\ pc' = pc /\ arg' = arg
        /\ table' = [table EXCEPT ![hole] = table[at]] /\ hole' = at
    BY <1>2 DEF ShiftMove
  <2>2. at \in Slot /\ hole \in Slot /\ at # hole /\ table \in [Slot -> Entry]
        /\ Used(hole)
    BY <2>1 DEF MapInv, TypeOK, ShiftKept
  <2>3. table'[hole] = table[at] /\ \A i \in Slot : i # hole => table'[i] = table[i]
    BY <2>1, <2>2
  <2>4. Stored' = (Stored \ {at}) \cup {hole} /\ at \in Stored /\ hole \notin Stored
    BY <2>1, <2>2, <2>3 DEF Stored, Used
  <2>5. \A i \in Stored : i \in Slot
    BY DEF Stored
  <2>6. ASSUME NEW i \in Stored PROVE \E j \in Stored' : table'[j] = table[i]
    <3>1. CASE i = at
      BY <2>3, <2>4, <3>1
    <3>2. CASE i # at
      BY <2>3, <2>4, <2>5, <3>2
    <3> QED BY <3>1, <3>2
  <2>7. ASSUME NEW j \in Stored' PROVE \E i \in Stored : table'[j] = table[i]
    <3>1. CASE j = hole
      BY <2>3, <2>4, <3>1
    <3>2. CASE j # hole
      BY <2>3, <2>4, <2>5, <3>2
    <3> QED BY <3>1, <3>2
  <2>8. MapFrom(Stored', table') = MapFrom(Stored, table)
    <3>1. NoneTwice(Stored, table) /\ NoneTwice(Stored', table')
      BY NoneStoredTwice
    <3> QED BY <2>6, <2>7, <3>1, SameEntriesSameMap
  <2> QED BY <2>1, <2>8, MapOfIs
<1>3. CASE ShiftEnd
  <2>1. /\ pc = "shift" /\ pc' = "idle" /\ ret' = <<arg.id, TRUE>>
        /\ table' = [table EXCEPT ![hole].handle = NilHandle]
    BY <1>3 DEF ShiftEnd, Return
  <2>2. hole \in Slot /\ table \in [Slot -> Entry]
    BY DEF MapInv, TypeOK
  <2>3. /\ table'[hole].handle = NilHandle
        /\ \A i \in Slot : i # hole => table'[i] = table[i]
    BY <2>1, <2>2 DEF Entry
  <2>4. Stored' = Stored /\ \A i \in Stored : table'[i] = table[i]
    BY <2>1, <2>3 DEF Stored, Used
  <2>5. \A i \in Stored : \E j \in Stored' : table'[j] = table[i]
    BY <2>4
  <2>6. \A j \in Stored' : \E i \in Stored : table'[j] = table[i]
    BY <2>4
  <2>7. NoneTwice(Stored, table) /\ NoneTwice(Stored', table')
    BY NoneStoredTwice
  <2>8. MapFrom(Stored', table') = MapFrom(Stored, table)
    BY <2>5, <2>6, <2>7, SameEntriesSameMap
  <2> QED BY <2>1, <2>8, MapOfIs
<1> QED BY <1>1, <1>2, <1>3

(* find answers with what is stored under the id. *)
LEMMA FindAnswers ==
  ASSUME MapInv, FindHit \/ FindMiss
  PROVE  \E k \in Key : Dict!DictFind(k)
<1>1. /\ pc = "find" /\ pc' = "idle" /\ table' = table
      /\ at \in Slot /\ arg.id \in Key
  BY HomesAreSlots DEF FindHit, FindMiss, Return, MapInv, TypeOK
<1>2. Stored' = Stored
  BY <1>1 DEF Stored, Used
<1>3. ret' = <<arg.id, MapOf[arg.id]>>
  <2>1. CASE FindHit
    <3>1. at \in Stored /\ table[at].id = arg.id /\ ret' = <<arg.id, table[at].handle>>
      BY <1>1, <2>1 DEF FindHit, Return, Stored
    <3> QED BY <3>1, MapReads
  <2>2. CASE FindMiss
    BY <1>1, <2>2, MissedIsAbsent DEF FindMiss, Return
  <2> QED BY <2>1, <2>2
<1>4. MapOf' = MapOf
  BY <1>1, <1>2, MapOfIs
<1> QED BY <1>1, <1>3, <1>4 DEF Dict!DictFind

(* erase of an id that is not stored changes nothing. *)
LEMMA EraseMisses ==
  ASSUME MapInv, SeekMiss
  PROVE  \E k \in Key : Dict!DictErase(k)
<1>1. /\ pc = "seek" /\ pc' = "idle" /\ table' = table
      /\ ret' = <<arg.id, FALSE>>
  BY DEF SeekMiss, Return
<1>2. Stored' = Stored
  BY <1>1 DEF Stored, Used
<1>3. MapOf' = MapOf
  BY <1>1, <1>2, MapOfIs
<1>4. arg.id \in Key /\ MapOf[arg.id] = NilHandle
  BY MissedIsAbsent DEF SeekMiss
<1>5. (arg.id \in Dict!Keys) = FALSE
  BY <1>4 DEF Dict!Keys
<1>6. MapOf' = [MapOf EXCEPT ![arg.id] = NilHandle]
  <2>1. \A k \in Key : MapFrom(Stored', table')[k]
                        = IF k = arg.id THEN NilHandle ELSE MapFrom(Stored, table)[k]
    BY <1>3, <1>4, MapOfIs
  <2>2. MapFrom(Stored', table') = [MapFrom(Stored, table) EXCEPT ![arg.id] = NilHandle]
    <3>1. PICK f, g : f = MapFrom(Stored, table) /\ g = MapFrom(Stored', table')
      OBVIOUS
    <3>2. /\ DOMAIN f = Key /\ f = [k \in Key |-> f[k]]
          /\ DOMAIN g = Key /\ g = [k \in Key |-> g[k]]
      BY <3>1, MapFromIsFunction
    <3>3. g = [f EXCEPT ![arg.id] = NilHandle]
      BY <1>4, <2>1, <3>1, <3>2, MapUpdated
    <3> QED BY <3>1, <3>3
  <2> QED BY <2>2, MapOfIs
<1> QED BY <1>1, <1>4, <1>5, <1>6 DEF Dict!DictErase

(* erase takes the entry it has found out of the map at once: what it does *)
(* from then on only moves the others.                                     *)
LEMMA EraseTakesEffect ==
  ASSUME MapInv, MapInv', SeekHit
  PROVE  \E k \in Key : Dict!DictErase(k)
<1>1. /\ pc = "seek" /\ pc' = "shift" /\ Used(at) /\ table[at].id = arg.id
      /\ table' = table /\ arg' = arg /\ hole' = at
      /\ at \in Slot
  BY DEF SeekHit, MapInv, TypeOK
<1>2. at \in Stored /\ Stored' = Stored \ {at}
  BY <1>1 DEF Stored, Used
<1>3. arg.id \in Key /\ MapOf[arg.id] # NilHandle
  BY <1>1, <1>2, MapReads
<1>4. NoneTwice(Stored, table) /\ NoneTwice(Stored', table')
  BY NoneStoredTwice
<1>5. ASSUME NEW k \in Key
      PROVE  MapFrom(Stored', table')[k]
               = IF k = arg.id THEN NilHandle ELSE MapFrom(Stored, table)[k]
  <2>1. CASE k = arg.id
    <3>1. \A i \in Stored' : table'[i].id # k
      BY <1>1, <1>2, <1>4, <2>1 DEF NoneTwice
    <3>2. MapFrom(Stored', table')[k] = NilHandle
      BY <1>4, <3>1, MapFromReads
    <3> QED BY <2>1, <3>2
  <2>2. CASE k # arg.id
    <3>1. CASE \E i \in Stored : table[i].id = k
      <4>1. PICK i \in Stored : table[i].id = k
        BY <3>1
      <4>2. i \in Stored' /\ table'[i] = table[i]
        BY <1>1, <1>2, <2>2, <4>1
      <4>3. MapFrom(Stored, table)[k] = table[i].handle
        BY <1>4, <4>1, MapFromReads
      <4>4. MapFrom(Stored', table')[k] = table'[i].handle
        BY <1>4, <4>1, <4>2, MapFromReads
      <4> QED BY <2>2, <4>2, <4>3, <4>4
    <3>2. CASE \A i \in Stored : table[i].id # k
      <4>1. \A i \in Stored' : table'[i].id # k
        BY <1>1, <1>2, <3>2
      <4>2. MapFrom(Stored, table)[k] = NilHandle
        BY <1>4, <3>2, MapFromReads
      <4>3. MapFrom(Stored', table')[k] = NilHandle
        BY <1>4, <4>1, MapFromReads
      <4> QED BY <2>2, <4>2, <4>3
    <3> QED BY <3>1, <3>2
  <2> QED BY <2>1, <2>2
<1>6. MapOf' = [MapOf EXCEPT ![arg.id] = NilHandle]
  <2>1. MapFrom(Stored', table') = [MapFrom(Stored, table) EXCEPT ![arg.id] = NilHandle]
    <3>1. PICK f, g : f = MapFrom(Stored, table) /\ g = MapFrom(Stored', table')
      OBVIOUS
    <3>2. /\ DOMAIN f = Key /\ f = [k \in Key |-> f[k]]
          /\ DOMAIN g = Key /\ g = [k \in Key |-> g[k]]
      BY <3>1, MapFromIsFunction
    <3>3. g = [f EXCEPT ![arg.id] = NilHandle]
      BY <1>3, <1>5, <3>1, <3>2, MapUpdated
    <3> QED BY <3>1, <3>3
  <2> QED BY <2>1, MapOfIs
<1>7. (arg.id \in Dict!Keys) = TRUE
  BY <1>3 DEF Dict!Keys
<1> QED BY <1>1, <1>3, <1>6, <1>7 DEF Dict!DictErase

(* insert adds the entry, and there was room for it. *)
LEMMA InsertTakesEffect ==
  ASSUME MapInv, MapInv', InsertPut
  PROVE  \E k \in Key : \E v \in Value : Dict!DictInsert(k, v)
<1>1. /\ pc = "insert" /\ pc' = "idle" /\ ~Used(at) /\ at \in Slot
      /\ table' = [table EXCEPT ![at] = arg] /\ table \in [Slot -> Entry]
      /\ ret' = <<arg.id, NilHandle>>
  BY DEF InsertPut, Return, MapInv, TypeOK
<1>2. /\ arg.id \in Key /\ arg.handle \in Value
      /\ size < MaxEntries
      /\ \A i \in Stored : table[i].id # arg.id
  BY <1>1, HomesAreSlots DEF MapInv, CallKept, UsedSlots, Stored
<1>3. table'[at] = arg /\ \A i \in Slot : i # at => table'[i] = table[i]
  BY <1>1
<1>4. Stored' = Stored \cup {at} /\ at \notin Stored
  BY <1>1, <1>2, <1>3, NilAssumption DEF Stored, Used
<1>5. NoneTwice(Stored, table) /\ NoneTwice(Stored', table')
  BY NoneStoredTwice
<1>6. ASSUME NEW k \in Key
      PROVE  MapFrom(Stored', table')[k]
               = IF k = arg.id THEN arg.handle ELSE MapFrom(Stored, table)[k]
  <2>1. CASE k = arg.id
    <3>1. at \in Stored' /\ table'[at].id = k
      BY <1>3, <1>4, <2>1
    <3>2. MapFrom(Stored', table')[k] = table'[at].handle
      BY <1>5, <3>1, MapFromReads
    <3> QED BY <1>3, <2>1, <3>2
  <2>2. CASE k # arg.id
    <3> DEFINE T == {i \in Stored : table[i].id = k}
    <3>1. \A i \in Stored : i \in Slot /\ i # at /\ table'[i] = table[i]
      BY <1>3, <1>4 DEF Stored
    <3>2. {i \in Stored' : table'[i].id = k} = T
      BY <1>3, <1>4, <2>2, <3>1
    <3>3. CASE \E i \in Stored : table[i].id = k
      <4>1. PICK i \in Stored : table[i].id = k
        BY <3>3
      <4>2. i \in Stored' /\ table'[i] = table[i]
        BY <1>4, <3>1
      <4>3. MapFrom(Stored, table)[k] = table[i].handle
        BY <1>5, <4>1, MapFromReads
      <4>4. MapFrom(Stored', table')[k] = table'[i].handle
        BY <1>5, <4>1, <4>2, MapFromReads
      <4> QED BY <2>2, <4>2, <4>3, <4>4
    <3>4. CASE \A i \in Stored : table[i].id # k
      <4>1. \A i \in Stored' : table'[i].id # k
        BY <3>2, <3>4
      <4>2. MapFrom(Stored, table)[k] = NilHandle
        BY <1>5, <3>4, MapFromReads
      <4>3. MapFrom(Stored', table')[k] = NilHandle
        BY <1>5, <4>1, MapFromReads
      <4> QED BY <2>2, <4>2, <4>3
    <3> QED BY <3>3, <3>4
  <2> QED BY <2>1, <2>2
<1>7. MapOf' = [MapOf EXCEPT ![arg.id] = arg.handle]
  <2>1. MapFrom(Stored', table') = [MapFrom(Stored, table) EXCEPT ![arg.id] = arg.handle]
    <3>1. PICK f, g : f = MapFrom(Stored, table) /\ g = MapFrom(Stored', table')
      OBVIOUS
    <3>2. /\ DOMAIN f = Key /\ f = [k \in Key |-> f[k]]
          /\ DOMAIN g = Key /\ g = [k \in Key |-> g[k]]
      BY <3>1, MapFromIsFunction
    <3>3. g = [f EXCEPT ![arg.id] = arg.handle]
      BY <1>2, <1>6, <3>1, <3>2, MapUpdated
    <3> QED BY <3>1, <3>3
  <2> QED BY <2>1, MapOfIs
<1>8. arg.id \notin Dict!Keys
  BY <1>2, MapReads DEF Dict!Keys
<1>9. Dict!Cardinality(Dict!Keys) < MaxEntries
  <2>1. /\ Dict!Cardinality(Dict!Keys) \in Nat
        /\ Dict!Cardinality(Dict!Keys) <= size
    BY KeysAreCounted
  <2> QED BY <1>2, <2>1, EntriesAssumption DEF MapInv, TypeOK
<1> QED BY <1>1, <1>2, <1>7, <1>8, <1>9 DEF Dict!DictInsert

(***************************************************************************)
(* The id map is the dictionary that Book takes it for: each operation has *)
(* its effect and its answer at one of its steps, and the other steps are  *)
(* not to be seen.                                                         *)
(***************************************************************************)
THEOREM ImplementsADictionary == Spec => ImplementsDictionary
<1>1. Init => Dict!DictInit
  <2> SUFFICES ASSUME Init PROVE Dict!DictInit
    OBVIOUS
  <2>1. Stored = {}
    BY DEF Init, Stored, Used
  <2>2. MapOf = [k \in Key |-> NilHandle]
    BY <2>1 DEF MapOf
  <2> QED BY <2>2 DEF Init, Dict!DictInit
<1>2. MapInv /\ MapInv' /\ [Next]_vars
        => [Dict!DictNext]_<<MapOf, IF pc = "shift" THEN <<arg.id, TRUE>> ELSE ret>>
  <2> SUFFICES ASSUME MapInv, MapInv', [Next]_vars,
                      ~Dict!DictNext
               PROVE  UNCHANGED <<MapOf, IF pc = "shift" THEN <<arg.id, TRUE>> ELSE ret>>
    OBVIOUS
  <2>1. CASE FindHit \/ FindMiss
    BY <2>1, FindAnswers DEF Dict!DictNext
  <2>2. CASE SeekMiss
    BY <2>2, EraseMisses DEF Dict!DictNext
  <2>3. CASE SeekHit
    BY <2>3, EraseTakesEffect DEF Dict!DictNext
  <2>4. CASE InsertPut
    BY <2>4, InsertTakesEffect DEF Dict!DictNext
  <2>5. CASE Call \/ FindPass \/ InsertPass \/ SeekPass
             \/ ShiftMove \/ ShiftSkip \/ ShiftEnd \/ UNCHANGED vars
    BY <2>5, StepsInside
  <2> QED BY <2>1, <2>2, <2>3, <2>4, <2>5 DEF Next, Step
<1> QED BY <1>1, <1>2, MapInvariance, PTL
        DEF Spec, ImplementsDictionary, Dict!DictSpec
=============================================================================
