----------------------------- MODULE Iteration -----------------------------
(***************************************************************************)
(* Induction along a sequence of operations, for the proofs about loops:   *)
(* the library's induction theorems take an operator as a parameter; these *)
(* are about sets and functions instead.                                   *)
(***************************************************************************)
EXTENDS Integers, WellFoundedInduction, TLAPS

\* The provers a step is tried with, and the seconds each may take
USE ZenonT(2), SMTT(20), ZenonT(20)

\* A set of naturals has a least element.
LEMMA LeastNatural ==
  ASSUME NEW T \in SUBSET Nat, T # {}
  PROVE  \E x \in T : \A y \in T : x <= y
  <1> DEFINE R == OpToRel(<, Nat)
  <1>1. IsWellFoundedOn(R, Nat)
    BY NatLessThanWellFounded, ZenonT(20)
  <1>2. \A x, y \in Nat : <<y, x>> \in R <=> y < x
    BY DEF OpToRel
  <1> HIDE DEF R
  <1>3. PICK x \in T : \A y \in T : ~(<<y, x>> \in R)
    BY <1>1, WFMin, ZenonT(20)
  <1>4. x \in Nat /\ \A y \in T : y \in Nat /\ ~(y < x)
    BY <1>2, <1>3, ZenonT(20)
  <1>5. \A y \in T : x <= y
    BY <1>4
  <1> QED BY <1>3, <1>5

\* What holds at 0 and is passed on up to n holds up to n.
LEMMA UpTo ==
  ASSUME NEW n \in Nat, NEW T, 0 \in T, \A i \in 0..(n - 1) : i \in T => i + 1 \in T
  PROVE  \A i \in 0..n : i \in T
  <1> SUFFICES ASSUME NEW j \in 0..n, j \notin T PROVE FALSE
    OBVIOUS
  <1> DEFINE B == {i \in 0..n : i \notin T}
  <1>1. PICK x \in B : \A y \in B : x <= y
    <2>1. B \in SUBSET Nat /\ B # {}
      OBVIOUS
    <2> HIDE DEF B
    <2> QED BY <2>1, LeastNatural
  <1>2. x \in 0..n /\ x \notin T /\ x # 0
    BY <1>1
  <1>3. x - 1 \in 0..(n - 1) /\ x - 1 < x /\ (x - 1) + 1 = x
    BY <1>2
  <1>4. x - 1 \notin T
    BY <1>2, <1>3
  <1>5. x - 1 \in B
    BY <1>2, <1>3, <1>4
  <1> QED BY <1>1, <1>2, <1>3, <1>5

\* n operations on a set, as a function, and the states they go through
Operations(S, n) == [S \X (1..n) -> S]

Runs(S, m0, n, step) ==
  {h \in [0..n -> S] : h[0] = m0 /\ \A i \in 1..n : h[i] = step[<<h[i - 1], i>>]}

\* Such a run exists.
LEMMA RunExists ==
  ASSUME NEW S, NEW m0 \in S, NEW n \in Nat, NEW step \in Operations(S, n)
  PROVE  \E h : h \in Runs(S, m0, n, step)
  <1> USE DEF Operations
  <1> DEFINE Run(j) == \E h \in [0..j -> S] :
                          h[0] = m0 /\ \A i \in 1..j : h[i] = step[<<h[i - 1], i>>]
             T == {j \in 0..n : Run(j)}
  <1>1. 0 \in T
    <2> DEFINE z == [i \in 0..0 |-> m0]
    <2>1. z \in [0..0 -> S] /\ z[0] = m0 /\ 1..0 = {}
      OBVIOUS
    <2> HIDE DEF z
    <2>2. Run(0)
      BY <2>1
    <2> HIDE DEF Run
    <2> QED BY <2>2
  <1>2. ASSUME NEW j \in 0..(n - 1), j \in T PROVE j + 1 \in T
    <2>1. PICK h \in [0..j -> S] : h[0] = m0 /\ \A i \in 1..j : h[i] = step[<<h[i - 1], i>>]
      BY <1>2
    <2> DEFINE g == [i \in 0..(j + 1) |-> IF i = j + 1 THEN step[<<h[j], j + 1>>] ELSE h[i]]
    <2>2. j + 1 \in 1..n /\ h[j] \in S /\ step[<<h[j], j + 1>>] \in S
      OBVIOUS
    <2>3. g \in [0..(j + 1) -> S]
      BY <2>2
    <2>4. g[0] = m0
      BY <2>1
    <2>5. ASSUME NEW i \in 1..(j + 1) PROVE g[i] = step[<<g[i - 1], i>>]
      <3>1. CASE i = j + 1
        <4>1. i - 1 = j /\ j \in 0..(j + 1) /\ j # j + 1 /\ i \in 0..(j + 1)
          BY <3>1
        <4>2. g[j] = h[j] /\ g[i] = step[<<h[j], j + 1>>]
          BY <3>1, <4>1
        <4> QED BY <3>1, <4>1, <4>2
      <3>2. CASE i # j + 1
        <4>1. i \in 1..j /\ i - 1 \in 0..j /\ i - 1 # j + 1 /\ i \in 0..(j + 1)
              /\ i - 1 \in 0..(j + 1)
          BY <3>2
        <4> QED BY <2>1, <3>2, <4>1
      <3> QED BY <3>1, <3>2
    <2> HIDE DEF g
    <2>6. Run(j + 1)
      BY <2>3, <2>4, <2>5
    <2> HIDE DEF Run
    <2> QED BY <2>2, <2>6
  <1> HIDE DEF T
  <1>3. \A i \in 0..n : i \in T
    BY <1>1, <1>2, UpTo
  <1>4. n \in T
    BY <1>3
  <1>5. Run(n)
    BY <1>4 DEF T
  <1> QED BY <1>5 DEF Runs

=============================================================================
