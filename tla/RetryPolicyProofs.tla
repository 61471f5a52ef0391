-------------------------- MODULE RetryPolicyProofs --------------------------
(***************************************************************************)
(* The back-off computation never leaves the range of int and returns the  *)
(* capped exponential, whatever that range, the configuration and the      *)
(* failure count are.                                                      *)
(*                                                                         *)
(* What the proof needs to know of powers of two comes from the number of  *)
(* subsets of 1 .. n.                                                      *)
(***************************************************************************)
EXTENDS RetryPolicy, FiniteSetTheorems, TLAPS

\* The configured limits, clamped, are in range.
LEMMA Limits ==
    ASSUME TypeOK
    PROVE  initial \in 0 .. IntMax /\ max_delay \in 0 .. IntMax /\ initial <= max_delay
BY IntRange DEF TypeOK, int, initial, max_delay

\* A value below half of m, in integer division, can be doubled within m.
LEMMA Doubling ==
    ASSUME NEW m \in Nat, NEW x \in Nat, x < m \div 2
    PROVE  x * 2 \in 0 .. m
OBVIOUS

\* Every value that delay_ms computes is an int between 0 and the maximum.
THEOREM NoOverflow == Spec => []TypeOK
<1>1. Init => TypeOK
  <2> SUFFICES ASSUME Init PROVE TypeOK
    OBVIOUS
  <2>1. initial \in 0 .. IntMax /\ initial <= max_delay /\ max_delay \in Nat
    BY IntRange DEF Init, int, initial, max_delay
  <2>2. delay \in int /\ delay \in 0 .. max_delay
    <3>1. delay = initial
      BY DEF Init
    <3>2. initial \in Nat /\ initial <= IntMax
      BY <2>1, IntRange
    <3>3. initial \in int
      BY <3>2, IntRange DEF int
    <3>4. initial \in 0 .. max_delay
      BY <3>2, <2>1
    <3>5. QED
      BY <3>1, <3>3, <3>4
  <2>3. index \in int
    BY IntRange DEF Init, int
  <2>4. returned \in BOOLEAN
    BY DEF Init
  <2>5. QED
    BY <2>2, <2>3, <2>4 DEF Init, TypeOK
<1>2. TypeOK /\ [Next]_vars => TypeOK'
  <2> SUFFICES ASSUME TypeOK, [Next]_vars PROVE TypeOK'
    OBVIOUS
  <2>1. CASE UNCHANGED vars
    BY <2>1 DEF vars, TypeOK, int, initial, max_delay
  <2>2. CASE Next
    <3>1. initial' = initial /\ max_delay' = max_delay /\ UNCHANGED inputs
      BY <2>2 DEF Next, ReturnZero, ReturnMax, Double, ReturnDelay, inputs,
         initial, max_delay
    <3>2. delay' \in 0 .. max_delay
      <4>1. CASE ReturnZero
        BY <4>1, Limits DEF ReturnZero
      <4>2. CASE ReturnMax
        BY <4>2, Limits DEF ReturnMax
      <4>3. CASE Double
        <5>1. delay \in Nat /\ max_delay \in Nat /\ delay < max_delay \div 2
          BY <4>3, Limits, IntRange DEF Double, AtLimit, TypeOK
        <5>2. delay * 2 \in 0 .. max_delay
          BY <5>1, Doubling
        <5>3. QED
          BY <4>3, <5>1, <5>2 DEF Double
      <4>4. CASE ReturnDelay
        BY <4>4, Limits DEF ReturnDelay, TypeOK
      <4>5. QED
        BY <2>2, <4>1, <4>2, <4>3, <4>4 DEF Next
    <3>3. index' \in int
      <4>1. CASE Double
        <5>1. index \in Int /\ IntMin <= index /\ index < failure_count
              /\ failure_count \in Int /\ failure_count <= IntMax /\ index' = index + 1
          BY <4>1, IntRange DEF Double, Looping, TypeOK, int
        <5>2. QED
          BY <5>1, IntRange DEF int
      <4>2. CASE ReturnZero \/ ReturnMax \/ ReturnDelay
        BY <4>2 DEF ReturnZero, ReturnMax, ReturnDelay, TypeOK
      <4>3. QED
        BY <2>2, <4>1, <4>2 DEF Next
    <3>4. returned' \in BOOLEAN
      BY <2>2 DEF Next, ReturnZero, ReturnMax, Double, ReturnDelay, TypeOK
    <3>5. delay' \in int
      BY <3>2, Limits, IntRange DEF int
    <3>6. QED
      BY <3>1, <3>2, <3>3, <3>4, <3>5 DEF TypeOK, inputs, int
  <2>3. QED
    BY <2>1, <2>2
<1>3. QED
  BY <1>1, <1>2, PTL DEF Spec

-----------------------------------------------------------------------------
(* Powers of two.                                                          *)

\* 2 ^ n is the number of subsets of 1 .. n.
LEMMA PowerCounts ==
    ASSUME NEW n \in Nat
    PROVE  /\ IsFiniteSet(SUBSET (1 .. n)) /\ Cardinality(SUBSET (1 .. n)) = 2 ^ n
           /\ 2 ^ n \in Nat
<1>1. IsFiniteSet(1 .. n) /\ Cardinality(1 .. n) = n
  BY FS_Interval
<1>2. IsFiniteSet(SUBSET (1 .. n)) /\ Cardinality(SUBSET (1 .. n)) = 2 ^ n
  BY <1>1, FS_SUBSET
<1> QED
  BY <1>2, FS_CardinalityType

\* Powers of two grow with the exponent.
LEMMA PowerGrows ==
    ASSUME NEW m \in Nat, NEW n \in Nat, m <= n
    PROVE  2 ^ m <= 2 ^ n
<1>1. SUBSET (1 .. m) \in SUBSET (SUBSET (1 .. n))
  OBVIOUS
<1>2. Cardinality(SUBSET (1 .. m)) <= Cardinality(SUBSET (1 .. n))
  BY <1>1, PowerCounts, FS_Subset, Zenon
<1> QED
  BY <1>2, PowerCounts, Zenon

\* The subsets of 1 .. n + 1 are those of 1 .. n, and the same with n + 1 added.
LEMMA PowerDoubles ==
    ASSUME NEW n \in Nat
    PROVE  2 ^ (n + 1) = 2 * 2 ^ n
<1> DEFINE S == SUBSET (1 .. n)
           T == {U \in SUBSET (1 .. n + 1) : n + 1 \in U}
           f == [U \in S |-> U \cup {n + 1}]
<1>1. SUBSET (1 .. n + 1) = S \cup T /\ S \cap T = {}
  <2>1. 1 .. n + 1 = (1 .. n) \cup {n + 1} /\ n + 1 \notin 1 .. n
    OBVIOUS
  <2> QED
    BY <2>1
<1>2. f \in Bijection(S, T)
  <2>1. f \in [S -> T]
    OBVIOUS
  <2>2. \A U, V \in S : f[U] = f[V] => U = V
    OBVIOUS
  <2>3. \A U \in T : \E V \in S : f[V] = U
    <3>1. SUFFICES ASSUME NEW U \in T PROVE \E V \in S : f[V] = U
      OBVIOUS
    <3>2. U \ {n + 1} \in S /\ f[U \ {n + 1}] = U
      OBVIOUS
    <3> QED
      BY <3>2
  <2> QED
    BY <2>1, <2>2, <2>3 DEF Bijection, Injection, Surjection, IsInjective
<1>3. IsFiniteSet(T) /\ Cardinality(T) = Cardinality(S) /\ IsFiniteSet(S)
  <2>1. ExistsBijection(S, T) /\ IsFiniteSet(S)
    BY <1>2, PowerCounts DEF ExistsBijection
  <2> HIDE DEF S, T
  <2> QED
    BY <2>1, FS_Bijection
<1>4. Cardinality(S \cup T) = Cardinality(S) + Cardinality(T)
  <2>1. Cardinality(S \cap T) = 0
    BY <1>1, FS_EmptySet
  <2>2. Cardinality(S) \in Nat
    BY <1>3, FS_CardinalityType
  <2>3. Cardinality(S \cup T) = Cardinality(S) + Cardinality(T) - Cardinality(S \cap T)
    <3> HIDE DEF S, T
    <3> QED BY <1>3, FS_Union, Zenon
  <2> HIDE DEF S, T
  <2> QED
    BY <1>3, <2>1, <2>2, <2>3
<1> QED
  <2>1. n + 1 \in Nat
    OBVIOUS
  <2>2. 2 ^ (n + 1) = Cardinality(S \cup T) /\ 2 ^ n = Cardinality(S) /\ 2 ^ n \in Nat
    <3>1. 2 ^ (n + 1) = Cardinality(SUBSET (1 .. n + 1))
      BY <2>1, PowerCounts
    <3> QED
      BY <1>1, <3>1, PowerCounts
  <2> HIDE DEF S, T
  <2> QED
    BY <1>3, <1>4, <2>2

\* The empty set has one subset.
LEMMA PowerOfZero == 2 ^ 0 = 1
<1>1. SUBSET (1 .. 0) = {{}}
  OBVIOUS
<1> QED
  BY <1>1, PowerCounts, FS_Singleton

\* A product grows with its second factor.
LEMMA ProductGrows ==
    ASSUME NEW a \in Nat, NEW x \in Nat, NEW y \in Nat, x <= y
    PROVE  a * x <= a * y /\ a * x \in Nat /\ a * y \in Nat /\ a * (2 * x) = 2 * (a * x)
BY SMT

-----------------------------------------------------------------------------
(* The result.                                                             *)

\* The delay has been doubled in every round that the loop has made.
BackedOff == /\ TypeOK
             /\ DelayIsExponential
             /\ ~returned => /\ index \in Nat \ {0}
                             /\ index = 1 \/ index <= failure_count
                             /\ delay = initial * 2 ^ (index - 1)

\* The factor by which the delay grows is a number.
LEMMA Factor ==
    ASSUME NEW n \in Nat \ {0}
    PROVE  /\ n - 1 \in Nat /\ 2 ^ (n - 1) \in Nat
           /\ 2 ^ n = 2 * 2 ^ (n - 1)
<1>1. n - 1 \in Nat /\ (n - 1) + 1 = n
  OBVIOUS
<1>2. 2 ^ ((n - 1) + 1) = 2 * 2 ^ (n - 1)
  BY <1>1, PowerDoubles
<1> QED
  BY <1>1, <1>2, PowerCounts

\* Half of a number, rounded down, is at most one short when doubled.
LEMMA Halves ==
    ASSUME NEW m \in Nat, NEW x \in Nat, x >= m \div 2
    PROVE  2 * x >= m - 1
OBVIOUS

\* A round of the loop, or its end, keeps to the reference.
LEMMA RoundStep ==
    ASSUME BackedOff, Next
    PROVE  /\ DelayIsExponential'
           /\ ~returned' => /\ index' \in Nat \ {0}
                            /\ index' <= failure_count'
                            /\ delay' = initial' * 2 ^ (index' - 1)
<1>1. /\ TypeOK /\ ~returned
      /\ index \in Nat \ {0}
      /\ index = 1 \/ index <= failure_count
      /\ delay = initial * 2 ^ (index - 1)
  BY DEF BackedOff, Next, ReturnZero, ReturnMax, Double, ReturnDelay, Looping
<1>2. /\ failure_count' = failure_count /\ initial' = initial /\ max_delay' = max_delay
      /\ Exponential' = Exponential
  BY DEF Next, ReturnZero, ReturnMax, Double, ReturnDelay, inputs, initial, max_delay, Exponential
<1>3. initial \in Nat /\ max_delay \in Nat /\ failure_count \in Int
  BY <1>1, Limits, IntRange DEF TypeOK, int
<1> DEFINE p == 2 ^ (index - 1)
<1>4. p \in Nat /\ 2 ^ index = 2 * p /\ delay = initial * p /\ initial * p \in Nat
      /\ initial * 2 ^ index = 2 * (initial * p)
  <2>1. p \in Nat /\ 2 ^ index = 2 * p
    BY <1>1, Factor
  <2> QED
    BY <1>1, <1>3, <2>1, ProductGrows
<1>5. CASE ReturnZero
  BY <1>1, <1>2, <1>5 DEF ReturnZero, DelayIsExponential
<1>6. CASE ReturnMax
  <2>1. index <= failure_count - 1 /\ failure_count - 1 \in Nat /\ 2 ^ index \in Nat
        /\ 2 ^ (failure_count - 1) \in Nat /\ index \in Nat
    <3>1. index <= failure_count - 1 /\ failure_count - 1 \in Nat /\ index \in Nat
      BY <1>1, <1>3, <1>6 DEF ReturnMax, Looping
    <3> QED
      BY <3>1, PowerCounts
  <2>2. initial * 2 ^ index <= initial * 2 ^ (failure_count - 1)
        /\ initial * 2 ^ (failure_count - 1) \in Nat
    <3>1. 2 ^ index <= 2 ^ (failure_count - 1)
      BY <2>1, PowerGrows
    <3> QED
      BY <1>3, <2>1, <3>1, ProductGrows
  <2>3. 2 * delay >= max_delay - 1
    BY <1>3, <1>4, <1>6, Halves DEF ReturnMax, AtLimit
  <2>4. Exponential = max_delay \/ Exponential = max_delay - 1
    <3> HIDE DEF p
    <3> QED
      BY <1>3, <1>4, <2>2, <2>3 DEF Exponential
  <2> QED
    BY <1>2, <1>3, <1>6, <2>4 DEF ReturnMax, Looping, DelayIsExponential
<1>7. CASE Double
  <2>1. index' = index + 1 /\ index' - 1 = index /\ delay' = delay * 2 /\ ~returned'
        /\ index < failure_count
    BY <1>1, <1>7 DEF Double, Looping
  <2>2. delay' = initial' * 2 ^ (index' - 1)
    <3> HIDE DEF p
    <3> QED
      BY <1>2, <1>3, <1>4, <2>1
  <2> QED
    BY <1>1, <1>2, <1>3, <2>1, <2>2 DEF DelayIsExponential
<1>8. CASE ReturnDelay
  <2>1. index = failure_count
    BY <1>1, <1>3, <1>8 DEF ReturnDelay, LoopDone
  <2>2. delay' = Exponential
    BY <1>1, <1>8, <2>1 DEF ReturnDelay, Exponential
  <2> QED
    BY <1>2, <1>3, <1>8, <2>2 DEF ReturnDelay, DelayIsExponential
<1> QED
  BY <1>5, <1>6, <1>7, <1>8 DEF Next

\* For every configuration and every count of failures, delay_ms returns the
\* capped exponential, but for the jump to an odd maximum from one below it.
THEOREM BackOffIsExponential == Spec => []DelayIsExponential
<1>1. Init /\ TypeOK => BackedOff
  <2> SUFFICES ASSUME Init, TypeOK PROVE BackedOff
    OBVIOUS
  <2>1. index = 1 /\ index - 1 = 0 /\ delay = initial /\ ~returned
    BY DEF Init
  <2>2. initial * 2 ^ (index - 1) = initial
    BY <2>1, Limits, IntRange, PowerOfZero
  <2> QED
    BY <2>1, <2>2 DEF BackedOff, DelayIsExponential
<1>2. BackedOff /\ TypeOK' /\ [Next]_vars => BackedOff'
  <2> SUFFICES ASSUME BackedOff, TypeOK', [Next]_vars PROVE BackedOff'
    OBVIOUS
  <2>1. CASE UNCHANGED vars
    <3>1. UNCHANGED <<backoff_initial_ms, backoff_max_ms, failure_count, index, delay, returned>>
      BY <2>1 DEF vars
    <3>2. initial' = initial /\ max_delay' = max_delay /\ Exponential' = Exponential
      BY <3>1 DEF initial, max_delay, Exponential
    <3> QED
      BY <3>1, <3>2 DEF BackedOff, DelayIsExponential
  <2>2. CASE Next
    BY <2>2, RoundStep DEF BackedOff
  <2> QED
    BY <2>1, <2>2
<1>3. BackedOff => DelayIsExponential
  BY DEF BackedOff
<1> QED
  BY <1>1, <1>2, <1>3, NoOverflow, PTL DEF Spec
=============================================================================
