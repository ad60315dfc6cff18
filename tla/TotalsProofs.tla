---------------------------- MODULE TotalsProofs ----------------------------
(***************************************************************************)
(* Facts about Total for every length n and every function f.  The         *)
(* installed provers cannot instantiate an induction theorem whose         *)
(* hypothesis is an operator, so every induction here is an argument by    *)
(* least counterexample: the set of counterexamples is an ordinary set,    *)
(* and LeastNatural gives its smallest element.                            *)
(***************************************************************************)
EXTENDS Totals, WellFoundedInduction, TLAPS

(* g is the running total of f on 0..n. *)
Runs(g, f, n) == /\ g \in [0..n -> Nat]
                 /\ g[0] = 0
                 /\ \A i \in 1..n : g[i] = g[i - 1] + f[i]

(* A non-empty set of naturals has a least element (the well-foundedness   *)
(* of < on Nat, in the form the proofs below use). *)
LEMMA LeastNatural ==
  ASSUME NEW T, T \subseteq Nat, T # {}
  PROVE  \E m \in T : \A k \in T : m <= k
<1>1. IsWellFoundedOn(OpToRel(<, Nat), Nat)
  BY NatLessThanWellFounded
<1>2. PICK m \in T : \A k \in T : ~ (<<k, m>> \in OpToRel(<, Nat))
  BY <1>1, WFMin
<1>3. \A k \in T : m <= k
  <2> SUFFICES ASSUME NEW k \in T, k < m PROVE FALSE
    BY SMT
  <2>1. <<k, m>> \in OpToRel(<, Nat)
    BY DEF OpToRel
  <2> QED BY <2>1, <1>2
<1> QED BY <1>3

(* A function has at most one running total. *)
LEMMA RunsUnique ==
  ASSUME NEW n \in Nat, NEW f, NEW g, NEW h, Runs(g, f, n), Runs(h, f, n)
  PROVE  g = h
<1> DEFINE T == {i \in 0..n : g[i] # h[i]}
<1>1. ASSUME T # {} PROVE FALSE
  <2>1. PICK m \in T : \A k \in T : m <= k
    <3>1. T \subseteq Nat
      OBVIOUS
    <3> HIDE DEF T
    <3> QED BY <1>1, <3>1, LeastNatural
  <2>2. m \in 1..n
    BY <2>1 DEF Runs
  <2>3. g[m-1] = h[m-1]
    BY <2>1, <2>2
  <2> QED BY <2>1, <2>2, <2>3 DEF Runs
<1>2. \A i \in 0..n : g[i] = h[i]
  BY <1>1
<1> QED BY <1>2 DEF Runs

(* A function with natural values has a running total. *)
LEMMA RunsExists ==
  ASSUME NEW N \in Nat, NEW f, \A i \in 1..N : f[i] \in Nat
  PROVE  \E g : Runs(g, f, N)
<1> DEFINE T == {n \in 0..N : ~ \E g : Runs(g, f, n)}
<1>1. ASSUME T # {} PROVE FALSE
  <2>1. PICK m \in T : \A k \in T : m <= k
    <3>1. T \subseteq Nat
      OBVIOUS
    <3> HIDE DEF T
    <3> QED BY <1>1, <3>1, LeastNatural
  <2>2. m # 0
    <3>1. Runs([i \in 0..0 |-> 0], f, 0)
      BY DEF Runs
    <3> QED BY <3>1, <2>1
  <2>3. PICK g : Runs(g, f, m - 1)
    <3>1. m - 1 \in 0..N /\ m - 1 \notin T
      BY <2>1, <2>2
    <3> QED BY <3>1
  <2> DEFINE h == [i \in 0..m |-> IF i = m THEN g[m-1] + f[m] ELSE g[i]]
  <2>4. Runs(h, f, m)
    <3>1. m \in 1..N BY <2>1, <2>2
    <3> QED BY <3>1, <2>3 DEF Runs
  <2> HIDE DEF h
  <2> QED BY <2>4, <2>1
<1>2. N \notin T
  BY <1>1
<1> QED BY <1>2

(* The recursive function RunningTotal is that running total. *)
LEMMA RunningTotalRuns ==
  ASSUME NEW n \in Nat, NEW f, \A i \in 1..n : f[i] \in Nat
  PROVE  Runs(RunningTotal(f, n), f, n)
<1>1. PICK g : Runs(g, f, n)
  BY RunsExists
<1>2. g = [i \in 0..n |-> IF i = 0 THEN 0 ELSE g[i-1] + f[i]]
  BY <1>1 DEF Runs
<1> DEFINE t == RunningTotal(f, n)
<1>3. t = [i \in 0..n |-> IF i = 0 THEN 0 ELSE t[i-1] + f[i]]
  BY <1>2 DEF RunningTotal
<1> HIDE DEF t
<1>4. \A i \in 0..n : t[i] = IF i = 0 THEN 0 ELSE t[i-1] + f[i]
  BY <1>3
<1>5. \A i \in 0..n : t[i] = g[i]
  <2> DEFINE T == {i \in 0..n : t[i] # g[i]}
  <2>1. ASSUME T # {} PROVE FALSE
    <3>1. PICK m \in T : \A k \in T : m <= k
      <4>1. T \subseteq Nat
        OBVIOUS
      <4> HIDE DEF T
      <4> QED BY <2>1, <4>1, LeastNatural
    <3>2. m \in 1..n
      BY <3>1, <1>4, <1>1 DEF Runs
    <3>3. t[m-1] = g[m-1]
      BY <3>1, <3>2
    <3> QED BY <3>1, <3>2, <3>3, <1>4, <1>1 DEF Runs
  <2> QED BY <2>1
<1>6. t = g
  BY <1>3, <1>5, <1>1 DEF Runs
<1> QED BY <1>6, <1>1 DEF t

(* To know Total it is enough to exhibit a running total. *)
LEMMA TotalIs ==
  ASSUME NEW n \in Nat, NEW f \in [1..n -> Nat], NEW g, Runs(g, f, n)
  PROVE  Total(f, n) = g[n]
<1>1. Runs(RunningTotal(f, n), f, n)
  BY RunningTotalRuns
<1>2. RunningTotal(f, n) = g
  BY <1>1, RunsUnique
<1> QED BY <1>2 DEF Total

(* A running total never decreases. *)
LEMMA RunsMonotone ==
  ASSUME NEW n \in Nat, NEW f \in [1..n -> Nat], NEW g, Runs(g, f, n),
         NEW i \in 0..n, NEW j \in i..n
  PROVE  g[i] <= g[j]
<1> DEFINE T == {k \in i..n : g[k] < g[i]}
<1>1. ASSUME T # {} PROVE FALSE
  <2>1. PICK m \in T : \A k \in T : m <= k
    <3>1. T \subseteq Nat
      OBVIOUS
    <3> HIDE DEF T
    <3> QED BY <1>1, <3>1, LeastNatural
  <2>2. m \in (i+1)..n /\ m \in 1..n
    BY <2>1 DEF Runs
  <2>3. g[i] <= g[m-1]
    BY <2>1, <2>2 DEF Runs
  <2>4. g[m] = g[m-1] + f[m]
    BY <2>2 DEF Runs
  <2>5. g[m-1] \in Nat /\ f[m] \in Nat /\ g[i] \in Nat
    BY <2>2 DEF Runs
  <2> QED BY <2>1, <2>3, <2>4, <2>5
<1>2. j \notin T
  BY <1>1
<1> QED BY <1>2 DEF Runs

(* The sum is a natural number no smaller than any of its terms. *)
LEMMA TotalBounds ==
  ASSUME NEW n \in Nat, NEW f \in [1..n -> Nat]
  PROVE  /\ Total(f, n) \in Nat
         /\ \A k \in 1..n : f[k] <= Total(f, n)
<1> DEFINE g == RunningTotal(f, n)
<1>1. Runs(g, f, n)
  BY RunningTotalRuns
<1>2. Total(f, n) = g[n]
  BY DEF Total
<1> HIDE DEF g
<1>3. ASSUME NEW k \in 1..n PROVE f[k] <= g[n]
  <2>1. g[k] <= g[n]
    BY <1>1, RunsMonotone
  <2>2. g[k] = g[k-1] + f[k] /\ g[k-1] \in Nat /\ g[n] \in Nat /\ g[k] \in Nat
    BY <1>1 DEF Runs
  <2> QED BY <2>1, <2>2
<1> QED BY <1>1, <1>2, <1>3 DEF Runs

(* Changing one term changes the sum by the difference. *)
LEMMA TotalUpdate ==
  ASSUME NEW n \in Nat, NEW f \in [1..n -> Nat], NEW k \in 1..n, NEW v \in Nat
  PROVE  Total([f EXCEPT ![k] = v], n) = Total(f, n) - f[k] + v
<1> DEFINE g == RunningTotal(f, n)
           h == [i \in 0..n |-> IF i < k THEN g[i] ELSE g[i] - f[k] + v]
           f2 == [f EXCEPT ![k] = v]
<1>1. Runs(g, f, n)
  BY RunningTotalRuns
<1>2. Total(f, n) = g[n]
  BY DEF Total
<1> HIDE DEF g
<1>3. ASSUME NEW i \in k..n PROVE g[i] - f[k] \in Nat
  <2>1. g[k] <= g[i]
    BY <1>1, RunsMonotone
  <2>2. g[k] = g[k-1] + f[k] /\ g[k-1] \in Nat /\ g[i] \in Nat /\ g[k] \in Nat
    BY <1>1 DEF Runs
  <2> QED BY <2>1, <2>2
<1>4. Runs(h, f2, n)
  <2>1. h \in [0..n -> Nat]
    <3> SUFFICES ASSUME NEW i \in 0..n PROVE h[i] \in Nat
      OBVIOUS
    <3>1. CASE i < k
      BY <3>1, <1>1 DEF Runs
    <3>2. CASE i >= k
      BY <3>2, <1>3
    <3> QED BY <3>1, <3>2
  <2>2. h[0] = 0
    BY <1>1 DEF Runs
  <2>3. ASSUME NEW i \in 1..n PROVE h[i] = h[i - 1] + f2[i]
    <3>1. /\ g[i] = g[i-1] + f[i] /\ g[i-1] \in Nat /\ f[i] \in Nat
          /\ g[i] \in Nat /\ f[k] \in Nat
      BY <1>1 DEF Runs
    <3>2. CASE i < k
      BY <3>1, <3>2
    <3>3. CASE i = k
      BY <3>1, <3>3
    <3>4. CASE i > k
      BY <3>1, <3>4
    <3> QED BY <3>2, <3>3, <3>4
  <2> QED BY <2>1, <2>2, <2>3 DEF Runs
<1>5. f2 \in [1..n -> Nat]
  OBVIOUS
<1>6. h[n] = g[n] - f[k] + v
  OBVIOUS
<1> HIDE DEF h, f2
<1>7. Total(f2, n) = h[n]
  BY <1>4, <1>5, TotalIs
<1> QED BY <1>2, <1>6, <1>7 DEF f2

(* So do two sums whose functions differ at one point. *)
LEMMA TotalChange ==
  ASSUME NEW n \in Nat, NEW f \in [1..n -> Nat], NEW g \in [1..n -> Nat], NEW k \in 1..n,
         \A i \in 1..n : i # k => g[i] = f[i]
  PROVE  Total(g, n) = Total(f, n) - f[k] + g[k]
<1>1. g = [f EXCEPT ![k] = g[k]]
  OBVIOUS
<1>2. g[k] \in Nat
  OBVIOUS
<1>3. Total([f EXCEPT ![k] = g[k]], n) = Total(f, n) - f[k] + g[k]
  BY <1>2, TotalUpdate
<1> QED BY <1>1, <1>3

(* Functions with the same values have the same sum. *)
LEMMA TotalSame ==
  ASSUME NEW n \in Nat, NEW f \in [1..n -> Nat], NEW g \in [1..n -> Nat],
         \A i \in 1..n : g[i] = f[i]
  PROVE  Total(g, n) = Total(f, n)
<1>1. g = f
  OBVIOUS
<1> QED BY <1>1

(* The sum of a function that is zero everywhere is zero. *)
LEMMA TotalZero ==
  ASSUME NEW n \in Nat, NEW f \in [1..n -> Nat], \A k \in 1..n : f[k] = 0
  PROVE  Total(f, n) = 0
<1> DEFINE g == [i \in 0..n |-> 0]
<1>1. Runs(g, f, n)
  BY DEF Runs
<1>2. g[n] = 0
  OBVIOUS
<1> HIDE DEF g
<1> QED BY <1>1, <1>2, TotalIs

(* The sum of a pointwise sum is the sum of the two sums. *)
LEMMA TotalAdd ==
  ASSUME NEW n \in Nat, NEW f1 \in [1..n -> Nat], NEW f2 \in [1..n -> Nat]
  PROVE  Total([k \in 1..n |-> f1[k] + f2[k]], n) = Total(f1, n) + Total(f2, n)
<1> DEFINE g1 == RunningTotal(f1, n)
           g2 == RunningTotal(f2, n)
           f == [k \in 1..n |-> f1[k] + f2[k]]
           g == [i \in 0..n |-> g1[i] + g2[i]]
<1>1. Runs(g1, f1, n) /\ Runs(g2, f2, n)
  BY RunningTotalRuns
<1>2. Total(f1, n) = g1[n] /\ Total(f2, n) = g2[n]
  BY DEF Total
<1> HIDE DEF g1, g2
<1>3. Runs(g, f, n)
  BY <1>1 DEF Runs
<1>4. f \in [1..n -> Nat] /\ g[n] = g1[n] + g2[n]
  OBVIOUS
<1> HIDE DEF f, g
<1>5. Total(f, n) = g[n]
  BY <1>3, <1>4, TotalIs
<1> QED BY <1>2, <1>4, <1>5 DEF f
=============================================================================
