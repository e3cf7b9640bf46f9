----------------------------- MODULE Iteration -----------------------------
(***************************************************************************)
(* Lemmas for what this code computes with a loop: that a value which each *)
(* turn makes of the one before exists and is one, and that a finite set   *)
(* of numbers has a least and a largest.  A loop is modelled as a function *)
(* defined by recursion over the turns.                                    *)
(***************************************************************************)
EXTENDS Integers, Sequences, FiniteSetTheorems, WellFoundedInduction, TLAPS

\* A set of numbers that is not empty has a least.
LEMMA LeastElement ==
  ASSUME NEW S, S \subseteq Nat, S # {}
  PROVE  \E i \in S : \A j \in S : i <= j
<1>. DEFINE R == OpToRel(<, Nat)
<1>1. \E i \in S : \A j \in S : <<j, i>> \notin R
  <2>. HIDE DEF R
  <2>1. IsWellFoundedOn(R, Nat) BY NatLessThanWellFounded DEF R
  <2>. QED BY <2>1, WFMin
<1>2. \A i, j \in Nat : <<j, i>> \in R <=> j < i
  BY DEF OpToRel
<1>. HIDE DEF R
<1>3. PICK i \in S : \A j \in S : <<j, i>> \notin R
  BY <1>1
<1>4. ASSUME NEW j \in S PROVE i <= j
  <2>1. i \in Nat /\ j \in Nat OBVIOUS
  <2>2. ~(j < i) BY <1>2, <1>3, <2>1, Zenon
  <2>. QED BY <2>1, <2>2
<1>. QED BY <1>4

\* A set of numbers below a bound that is not empty has a largest.
LEMMA LargestElement ==
  ASSUME NEW S, NEW N \in Nat, S \subseteq 0..N, S # {}
  PROVE  \E i \in S : \A j \in S : j <= i
<1>. DEFINE T == {k \in 0..N : N - k \in S}
<1>1. \A i \in S : N - i \in T
  <2>1. ASSUME NEW i \in S PROVE N - i \in T
    <3>1. i \in 0..N OBVIOUS
    <3>2. N - i \in 0..N /\ N - (N - i) = i BY <3>1
    <3>. QED BY <3>2
  <2>. QED BY <2>1
<1>2. T # {} /\ T \subseteq Nat
  <2>1. PICK i : i \in S OBVIOUS
  <2>2. N - i \in T BY <1>1, <2>1
  <2>3. T \subseteq Nat OBVIOUS
  <2>. HIDE DEF T
  <2>. QED BY <2>2, <2>3
<1>3. \A k \in T : k \in 0..N /\ N - k \in S
  OBVIOUS
<1>. HIDE DEF T
<1>4. PICK k \in T : \A l \in T : k <= l
  BY <1>2, LeastElement
<1>5. ASSUME NEW j \in S PROVE j <= N - k
  <2>1. k \in 0..N /\ j \in 0..N BY <1>3
  <2>2. k <= N - j BY <1>1, <1>4
  <2>. QED BY <2>1, <2>2
<1>. QED BY <1>3, <1>5

\* What holds at the start and goes on from one turn to the next holds of every
\* turn: the turns it holds of are given as a set.
LEMMA EveryTurn ==
  ASSUME NEW N \in Nat, NEW Holds,
         0 \in Holds,
         \A n \in 1..N : n - 1 \in Holds => n \in Holds
  PROVE  0..N \subseteq Holds
<1>. DEFINE S == (0..N) \ Holds
<1>1. SUFFICES ASSUME S # {} PROVE FALSE
  OBVIOUS
<1>2. S \subseteq Nat
  OBVIOUS
<1>. HIDE DEF S
<1>3. PICK i \in S : \A j \in S : i <= j
  BY <1>1, <1>2, LeastElement
<1>4. i \in 1..N /\ i \notin Holds
  BY DEF S
<1>5. i - 1 \in 0..N /\ i - 1 \notin S
  <2>1. i \in Nat /\ i - 1 < i BY <1>4
  <2>2. i - 1 \notin S BY <1>3, <2>1, <1>2
  <2>. QED BY <2>2, <1>4
<1>6. i - 1 \in Holds
  BY <1>5 DEF S
<1>. QED BY <1>4, <1>6

\* The turns of a loop: from a start, each value is the step's of the one before.
Turns(v, N, start, Step) == /\ v[0] = start
                            /\ \A n \in 1..N : v[n] = Step[<<n, v[n - 1]>>]

\* A loop of any number of turns has values, of the type its step keeps.
LEMMA IterationExists ==
  ASSUME NEW N \in Nat, NEW T, NEW start \in T, NEW Step \in [(1..N) \X T -> T]
  PROVE  \E v \in [0..N -> T] : Turns(v, N, start, Step)
<1>. DEFINE Holds == {m \in 0..N : \E v \in [0..m -> T] : Turns(v, m, start, Step)}
<1>1. 0 \in Holds
  <2>1. [n \in 0..0 |-> start] \in [0..0 -> T] OBVIOUS
  <2>2. Turns([n \in 0..0 |-> start], 0, start, Step) BY DEF Turns
  <2>. QED BY <2>1, <2>2
<1>2. ASSUME NEW n \in 1..N, n - 1 \in Holds PROVE n \in Holds
  <2>1. PICK v \in [0..n - 1 -> T] : Turns(v, n - 1, start, Step)
    BY <1>2
  <2>. DEFINE w == [m \in 0..n |-> IF m = n THEN Step[<<n, v[n - 1]>>] ELSE v[m]]
  <2>2. v[n - 1] \in T /\ <<n, v[n - 1]>> \in (1..N) \X T
    OBVIOUS
  <2>3. w \in [0..n -> T]
    BY <2>2
  <2>4. /\ w[n] = Step[<<n, v[n - 1]>>]
        /\ \A m \in 0..n - 1 : w[m] = v[m]
    OBVIOUS
  <2>. HIDE DEF w
  <2>5. ASSUME NEW m \in 1..n PROVE w[m] = Step[<<m, w[m - 1]>>]
    <3>1. CASE m = n
      BY <2>4, <3>1, n - 1 \in 0..n - 1
    <3>2. CASE m # n
      <4>1. m \in 1..n - 1 /\ m \in 0..n - 1 /\ m - 1 \in 0..n - 1 BY <3>2
      <4>2. v[m] = Step[<<m, v[m - 1]>>] BY <2>1, <4>1 DEF Turns
      <4>. QED BY <2>4, <4>1, <4>2
    <3>. QED BY <3>1, <3>2
  <2>6. w[0] = start
    BY <2>1, <2>4 DEF Turns
  <2>7. Turns(w, n, start, Step)
    BY <2>5, <2>6 DEF Turns
  <2>. QED BY <2>3, <2>7
<1>. HIDE DEF Holds
<1>3. N \in Holds
  BY <1>1, <1>2, EveryTurn
<1>. QED BY <1>3 DEF Holds

\* The values of two loops with one start and one step agree as far as both go.
LEMMA IterationIsOne ==
  ASSUME NEW N \in Nat, NEW v, NEW w,
         v[0] = w[0],
         \A n \in 1..N : v[n - 1] = w[n - 1] => v[n] = w[n]
  PROVE  \A n \in 0..N : v[n] = w[n]
<1>. DEFINE Holds == {n \in 0..N : v[n] = w[n]}
<1>1. 0 \in Holds OBVIOUS
<1>2. \A n \in 1..N : n - 1 \in Holds => n \in Holds OBVIOUS
<1>. HIDE DEF Holds
<1>3. 0..N \subseteq Holds BY <1>1, <1>2, EveryTurn
<1>. QED BY <1>3 DEF Holds
=============================================================================
