--------------------------- MODULE OrderTheorems ---------------------------
(***************************************************************************)
(* Facts the other proof modules share. Their form of induction: the least *)
(* element of a set of natural numbers, and the greatest element of a      *)
(* bounded one. What the concatenation of two sequences holds. And the     *)
(* arithmetic of pages.                                                    *)
(***************************************************************************)
EXTENDS Integers, Sequences, WellFoundedInduction, TLAPS

\* Every non-empty set of natural numbers has a least element.
LEMMA LeastNatural ==
  ASSUME NEW T, T \subseteq Nat, T # {}
  PROVE  \E x \in T : \A y \in T : x <= y
<1> DEFINE R == OpToRel(<, Nat)
<1>1. IsWellFoundedOn(R, Nat)
  BY NatLessThanWellFounded
<1>2. PICK x \in T : \A y \in T : ~ (<<y, x>> \in R)
  BY <1>1, WFMin
<1>3. \A y \in T : ~ (y < x)
  BY <1>2 DEF OpToRel
<1> QED
  BY <1>3

\* Every non-empty set of natural numbers below a bound has a greatest element.
LEMMA GreatestNatural ==
  ASSUME NEW n \in Nat, NEW T, T \subseteq 0 .. n, T # {}
  PROVE  \E x \in T : \A y \in T : y <= x
<1> DEFINE U == {m \in Nat : n - m \in T}
<1>1. U # {}
  <2>1. PICK x \in T : TRUE
    OBVIOUS
  <2>2. n - x \in Nat /\ n - (n - x) = x
    BY <2>1
  <2> QED
    BY <2>1, <2>2
<1>2. PICK m \in U : \A k \in U : m <= k
  BY <1>1, LeastNatural
<1>3. \A y \in T : n - y \in U
  <2>1. \A y \in T : n - y \in Nat /\ n - (n - y) = y
    OBVIOUS
  <2> QED
    BY <2>1
<1>4. \A y \in T : y <= n - m
  BY <1>2, <1>3
<1> QED
  BY <1>2, <1>4

\* What the concatenation of two lists holds.
LEMMA ConcatFacts ==
  ASSUME NEW S, NEW a \in Seq(S), NEW b \in Seq(S)
  PROVE  /\ a \o b \in Seq(S) /\ Len(a \o b) = Len(a) + Len(b) /\ Len(a) \in Nat /\ Len(b) \in Nat
         /\ \A k \in 1 .. Len(a) : (a \o b)[k] = a[k]
         /\ \A k \in Len(a) + 1 .. Len(a) + Len(b) : (a \o b)[k] = b[k - Len(a)]
OBVIOUS

\* The page of an address, where a page has L bytes.
LEMMA PageOfAddress ==
  ASSUME NEW a \in Nat, NEW L \in Nat \ {0}
  PROVE  a \div L \in Nat /\ (a \div L) * L <= a /\ a < (a \div L) * L + L
OBVIOUS

\* Multiples of the page size are in the order of their factors.
LEMMA PagesInOrder ==
  ASSUME NEW p \in Int, NEW q \in Int, NEW L \in Nat \ {0}
  PROVE  /\ p * L \in Int /\ q * L \in Int
         /\ p < q => p * L + L <= q * L
         /\ (p + q) * L = p * L + q * L
<1>1. p * L \in Int /\ q * L \in Int
  OBVIOUS
<1>2. p < q => p * L + L <= q * L
  OBVIOUS
<1>3. (p + q) * L = p * L + q * L
  OBVIOUS
<1> QED
  BY <1>1, <1>2, <1>3

\* Of two pages, the one with the lower address.
LEMMA PageBefore ==
  ASSUME NEW p \in Int, NEW q \in Int, NEW L \in Nat \ {0}, p * L < q * L
  PROVE  p < q
<1>1. p * L \in Int /\ q * L \in Int /\ (q < p => q * L + L <= p * L) /\ (q = p => q * L = p * L)
  BY PagesInOrder
<1> QED
  BY <1>1

\* A recursion over the numbers up to n: a start, for each number a function that makes the next value, and
\* the values.
StepFunctions(step, n, T) == step \in [1 .. n -> [T -> T]]
Iterates(f, step, a, n, T) ==
  f \in [0 .. n -> T] /\ f[0] = a /\ \A k \in 1 .. n : f[k] = step[k][f[k - 1]]

\* Every recursion over numbers has its values.
LEMMA Iteration ==
  ASSUME NEW n \in Nat, NEW T, NEW a, NEW step, a \in T, StepFunctions(step, n, T)
  PROVE  \E f : Iterates(f, step, a, n, T)
<1> DEFINE Run(f, m) == /\ f \in [0 .. m -> T] /\ f[0] = a
                        /\ \A k \in 1 .. m : f[k] = step[k][f[k - 1]]
           Bad == {m \in Nat : m <= n /\ ~\E f : Run(f, m)}
<1>1. Bad = {}
  <2> SUFFICES ASSUME Bad # {} PROVE FALSE
    OBVIOUS
  <2>1. PICK m \in Bad : \A j \in Bad : m <= j
    BY LeastNatural
  <2>2. m \in Nat /\ m <= n /\ ~\E f : Run(f, m)
    BY <2>1
  <2>3. CASE m = 0
    <3> DEFINE g == [k \in 0 .. 0 |-> a]
    <3>1. Run(g, 0)
      OBVIOUS
    <3> QED
      BY <2>2, <2>3, <3>1
  <2>4. CASE m # 0
    <3>1. m - 1 \in Nat /\ m - 1 <= n /\ m - 1 \notin Bad
      <4>1. m - 1 \in Nat /\ m - 1 <= n /\ ~(m <= m - 1)
        BY <2>2, <2>4
      <4> HIDE DEF Bad
      <4> QED
        BY <2>1, <4>1
    <3>2. PICK f : Run(f, m - 1)
      BY <3>1
    <3> DEFINE g == [k \in 0 .. m |-> IF k = m THEN step[m][f[m - 1]] ELSE f[k]]
    <3>3. f[m - 1] \in T /\ step[m] \in [T -> T]
      BY <2>2, <2>4, <3>1, <3>2 DEF StepFunctions
    <3>4. g \in [0 .. m -> T] /\ g[0] = a
      BY <2>2, <2>4, <3>2, <3>3
    <3>5. ASSUME NEW k \in 1 .. m PROVE g[k] = step[k][g[k - 1]]
      <4>0. k - 1 \in 0 .. m /\ k - 1 # m
        BY <2>2, <3>5
      <4>1. g[k - 1] = f[k - 1]
        BY <4>0
      <4>2. CASE k = m
        BY <4>1, <4>2, <2>2
      <4>3. CASE k # m
        <5>1. k \in 1 .. m - 1 /\ k \in 0 .. m
          BY <2>2, <3>5, <4>3
        <5> QED
          BY <3>2, <4>1, <4>3, <5>1
      <4> QED
        BY <4>2, <4>3
    <3>6. Run(g, m)
      BY <3>4, <3>5
    <3> QED
      BY <2>2, <3>6
  <2> QED
    BY <2>3, <2>4
<1>2. \E f : Run(f, n)
  <2>1. n <= n
    OBVIOUS
  <2> HIDE DEF Run
  <2> QED
    BY <1>1, <2>1
<1> QED
  BY <1>2 DEF Iterates
=============================================================================
