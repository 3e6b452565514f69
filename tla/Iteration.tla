----------------------------- MODULE Iteration ------------------------------
(***************************************************************************)
(* Lemmas for what the code computes one step at a time and the model as a *)
(* function defined by recursion on a number: a free list followed from    *)
(* its head, a table size doubled until it is large enough.  Each one is   *)
(* proved from a least counterexample.                                     *)
(***************************************************************************)
EXTENDS Integers, WellFoundedInduction, TLAPS

(* A set of numbers that is not empty has a least one. *)
LEMMA LeastNumber ==
  ASSUME NEW S \in SUBSET Nat, S # {}
  PROVE  \E n \in S : \A m \in S : n <= m
<1> DEFINE Below == OpToRel(<, Nat)
<1>1. PICK n \in S : \A m \in S : ~(<<m, n>> \in Below)
  <2> HIDE DEF Below
  <2> QED BY NatLessThanWellFounded, WFMin DEF Below
<1>2. \A m \in S : ~(m < n)
  BY <1>1 DEF OpToRel
<1> QED BY <1>2

(* Two functions have the same values up to n. *)
AgreeUpTo(f, g, n) == \A k \in 0 .. n : f[k] = g[k]

(* Two functions that agree at 0 and agree at k whenever they agree at     *)
(* k - 1 agree everywhere: a least argument of disagreement has no place.  *)
LEMMA StepwiseEqual ==
  ASSUME NEW n \in Nat, NEW f, NEW g, f[0] = g[0],
         \A k \in 1 .. n : f[k - 1] = g[k - 1] => f[k] = g[k]
  PROVE  AgreeUpTo(f, g, n)
<1> DEFINE Below == OpToRel(<, Nat)
           D == {k \in 0 .. n : f[k] # g[k]}
<1> SUFFICES ASSUME D # {} PROVE FALSE
  BY DEF AgreeUpTo
<1>1. D \subseteq Nat
  OBVIOUS
<1>2. PICK k \in D : \A m \in D : ~(<<m, k>> \in Below)
  <2> HIDE DEF D, Below
  <2> QED BY <1>1, NatLessThanWellFounded, WFMin DEF Below
<1>3. \A m \in D : ~(m < k)
  BY <1>1, <1>2 DEF OpToRel
<1>4. k \in 1 .. n /\ k - 1 \in 0 .. n /\ k - 1 < k
  OBVIOUS
<1>5. k - 1 \notin D
  <2> HIDE DEF D
  <2> QED BY <1>3, <1>4
<1>6. f[k - 1] = g[k - 1]
  BY <1>4, <1>5
<1> QED BY <1>4, <1>6

(* A set that holds 0 and, with every number before n, the next one.       *)
LEMMA Reaches ==
  ASSUME NEW n \in Nat, NEW S, 0 \in S, \A k \in 1 .. n : k - 1 \in S => k \in S
  PROVE  \A k \in 0 .. n : k \in S
<1> DEFINE f == [k \in 0 .. n |-> k \in S]
           g == [k \in 0 .. n |-> TRUE]
<1>1. f[0] = g[0] /\ \A k \in 0 .. n : (f[k] = g[k]) => k \in S
  <2>1. \A k \in 0 .. n : f[k] = (k \in S) /\ g[k] = TRUE
    BY Zenon
  <2>2. 0 \in 0 .. n /\ (0 \in S) = TRUE
    OBVIOUS
  <2> HIDE DEF f, g
  <2>3. ASSUME NEW k \in 0 .. n, f[k] = g[k] PROVE k \in S
    <3>1. (k \in S) = TRUE
      BY <2>1, <2>3, Zenon
    <3> QED BY <3>1
  <2> QED BY <2>1, <2>2, <2>3, Zenon
<1>2. \A k \in 1 .. n : k \in 0 .. n /\ k - 1 \in 0 .. n
  OBVIOUS
<1> HIDE DEF f, g
<1>3. \A k \in 1 .. n : f[k - 1] = g[k - 1] => f[k] = g[k]
  <2> SUFFICES ASSUME NEW k \in 1 .. n, f[k - 1] = g[k - 1]
               PROVE  f[k] = g[k]
    OBVIOUS
  <2>1. k \in S
    BY <1>1, <1>2
  <2> QED BY <1>2, <2>1, Zenon DEF f, g
<1>4. AgreeUpTo(f, g, n)
  BY <1>1, <1>3, StepwiseEqual
<1> QED BY <1>1, <1>4 DEF AgreeUpTo

(* A step taken n times from a start. *)
Iterations(S, start, step, n) ==
  {f \in [0 .. n -> S] : /\ f[0] = start
                         /\ \A k \in 1 .. n : f[k] = step[f[k - 1]]}

(* It can be taken any number of times.  By descent on a number for which  *)
(* no function lists the results.                                          *)
LEMMA IterationExists ==
  ASSUME NEW S, NEW start \in S, NEW step \in [S -> S], NEW n \in Nat
  PROVE  Iterations(S, start, step, n) # {}
<1> DEFINE Lists(m, f) == /\ f \in [0 .. m -> S]
                          /\ f[0] = start
                          /\ \A k \in 1 .. m : f[k] = step[f[k - 1]]
           Below == OpToRel(<, Nat)
           D == {m \in Nat : ~\E f : Lists(m, f)}
<1> SUFFICES ASSUME D # {} PROVE FALSE
  BY DEF Iterations
<1>1. D \subseteq Nat
  OBVIOUS
<1>2. PICK m \in D : \A j \in D : ~(<<j, m>> \in Below)
  <2> HIDE DEF D, Below
  <2> QED BY <1>1, NatLessThanWellFounded, WFMin DEF Below
<1>3. \A j \in D : ~(j < m)
  BY <1>1, <1>2 DEF OpToRel
<1>4. m # 0
  <2>1. Lists(0, [k \in 0 .. 0 |-> start])
    OBVIOUS
  <2> HIDE DEF Lists
  <2> QED BY <2>1
<1>5. m \in Nat /\ m - 1 \in Nat /\ m - 1 < m
  BY <1>4
<1>6. m - 1 \notin D
  <2> HIDE DEF D
  <2> QED BY <1>3, <1>5
<1>7. PICK f : Lists(m - 1, f)
  <2> HIDE DEF Lists
  <2> QED BY <1>5, <1>6
<1> DEFINE g == [k \in 0 .. m |-> IF k = m THEN step[f[m - 1]] ELSE f[k]]
<1>8. \A k \in 0 .. m : k # m => k \in 0 .. m - 1 /\ g[k] = f[k] /\ g[k] \in S
  BY <1>5, <1>7
<1>9. g[m] = step[f[m - 1]] /\ f[m - 1] \in S /\ g[m] \in S
  BY <1>5, <1>7
<1>10. g \in [0 .. m -> S] /\ g[0] = start
  BY <1>4, <1>5, <1>7, <1>8, <1>9
<1>11. ASSUME NEW k \in 1 .. m PROVE g[k] = step[g[k - 1]]
  <2>1. k - 1 \in 0 .. m /\ k - 1 # m /\ k \in 0 .. m /\ k \in Nat
    BY <1>5
  <2>2. g[k - 1] = f[k - 1]
    BY <1>8, <2>1
  <2>3. CASE k = m
    BY <1>9, <2>2, <2>3
  <2>4. CASE k # m
    <3>1. k \in 1 .. m - 1
      BY <1>5, <2>4
    <3> QED BY <1>7, <1>8, <2>1, <2>2, <2>4, <3>1
  <2> QED BY <2>3, <2>4
<1>12. Lists(m, g)
  <2> HIDE DEF g
  <2> QED BY <1>10, <1>11
<1> QED
  <2> HIDE DEF Lists
  <2> QED BY <1>12
=============================================================================
