------------------------------- MODULE Arith -------------------------------
(***************************************************************************)
(* Facts about the natural numbers that the proofs of this project need    *)
(* and the provers do not find: induction and recursion, products,         *)
(* quotients and remainders.  Induction is stated for sets of numbers, not *)
(* for predicates, so that it can be used as a fact of first-order logic.  *)
(***************************************************************************)
EXTENDS Integers, TLAPS, WellFoundedInduction

\* Every set of natural numbers has a least element, unless it is empty.
LEMMA LeastElement ==
  ASSUME NEW T \in SUBSET Nat, T # {}
  PROVE  \E n \in T : \A m \in T : n <= m
<1> DEFINE Lt == OpToRel(<, Nat)
<1>1. IsWellFoundedOn(Lt, Nat)
  BY NatLessThanWellFounded, Zenon
<1>2. Lt = {ss \in Nat \X Nat : ss[1] < ss[2]}
  BY Zenon DEF OpToRel
<1> HIDE DEF Lt
<1>3. PICK n \in T : \A m \in T : ~ (<<m, n>> \in Lt)
  BY <1>1, WFMin
<1>4. ASSUME NEW m \in T PROVE n <= m
  <2>1. n \in Nat /\ m \in Nat
    OBVIOUS
  <2>2. ~ (<<m, n>> \in Lt)
    BY <1>3
  <2>3. m < n => <<m, n>> \in Lt
    BY <1>2, <2>1
  <2> QED
    BY <2>1, <2>2, <2>3
<1> QED
  BY <1>4

\* Induction.
LEMMA Induction ==
  ASSUME NEW T \in SUBSET Nat, 0 \in T, \A n \in T : n + 1 \in T
  PROVE  T = Nat
<1> SUFFICES ASSUME T # Nat PROVE FALSE
  OBVIOUS
<1>1. PICK n \in Nat \ T : \A m \in Nat \ T : n <= m
  BY LeastElement
<1>2. n # 0 /\ n - 1 \in Nat
  BY <1>1
<1>3. n - 1 \in T
  BY <1>1, <1>2
<1> QED
  BY <1>1, <1>3

\* Primitive recursion: a function with a given first value, in which every
\* value follows from the one before it, exists.
Stepping(S, step) == step \in [Nat -> [S -> S]]
Recursive(f, S, a, step) ==
  f \in [Nat -> S] /\ f[0] = a /\ \A i \in Nat : f[i + 1] = step[i][f[i]]

Starts(f, n, a, step) ==
  f[0] = a /\ \A i \in 0 .. n - 1 : f[i + 1] = step[i][f[i]]

\* There is a sequence of values for every start and every step.
LEMMA Recursion ==
  ASSUME NEW S, NEW a, NEW step, a \in S, Stepping(S, step)
  PROVE  \E f : Recursive(f, S, a, step)
<1> step \in [Nat -> [S -> S]]
  BY DEF Stepping
<1> DEFINE T == {n \in Nat : \E f \in [0 .. n -> S] : Starts(f, n, a, step)}
           U == {n \in Nat : \A m \in Nat : \A f \in [0 .. n -> S], g \in [0 .. n + m -> S] :
                   Starts(f, n, a, step) /\ Starts(g, n + m, a, step) => f[n] = g[n]}
<1>1. T = Nat
  <2>1. 0 \in T
    <3>1. Starts([i \in 0 .. 0 |-> a], 0, a, step)
      BY DEF Starts
    <3> QED
      BY <3>1
  <2>2. ASSUME NEW n \in T PROVE n + 1 \in T
    <3>1. PICK f \in [0 .. n -> S] : Starts(f, n, a, step)
      BY <2>2
    <3> DEFINE g == [i \in 0 .. n + 1 |-> IF i = n + 1 THEN step[n][f[n]] ELSE f[i]]
    <3>2. g \in [0 .. n + 1 -> S]
      OBVIOUS
    <3>3. Starts(g, n + 1, a, step)
      BY <3>1 DEF Starts
    <3> QED
      BY <3>2, <3>3
  <2> HIDE DEF T
  <2>3. T \in SUBSET Nat
    BY DEF T
  <2> QED
    BY <2>1, <2>2, <2>3, Induction
<1>2. U = Nat
  <2>1. 0 \in U
    BY DEF Starts
  <2>2. ASSUME NEW n \in U PROVE n + 1 \in U
    <3>1. SUFFICES ASSUME NEW m \in Nat, NEW f \in [0 .. n + 1 -> S], NEW g \in [0 .. n + 1 + m -> S],
                          Starts(f, n + 1, a, step), Starts(g, n + 1 + m, a, step)
                   PROVE  f[n + 1] = g[n + 1]
      <4>1. n + 1 \in Nat
        BY <2>2
      <4> QED
        BY <4>1, Zenon
    <3> DEFINE h == [i \in 0 .. n |-> f[i]]
    <3>2. h \in [0 .. n -> S] /\ Starts(h, n, a, step) /\ h[n] = f[n]
      BY <3>1 DEF Starts
    <3>3. 1 + m \in Nat /\ n + 1 + m = n + (1 + m)
      OBVIOUS
    <3> HIDE DEF h
    <3>4. h[n] = g[n]
      BY <2>2, <3>1, <3>2, <3>3
    <3>5. f[n + 1] = step[n][f[n]] /\ g[n + 1] = step[n][g[n]]
      BY <3>1 DEF Starts
    <3> QED
      BY <3>2, <3>4, <3>5
  <2> HIDE DEF U
  <2>3. U \in SUBSET Nat
    BY DEF U
  <2> QED
    BY <2>1, <2>2, <2>3, Induction
<1> DEFINE part(n) == CHOOSE f \in [0 .. n -> S] : Starts(f, n, a, step)
           whole == [n \in Nat |-> part(n)[n]]
<1>3. ASSUME NEW n \in Nat
      PROVE  part(n) \in [0 .. n -> S] /\ Starts(part(n), n, a, step)
  BY <1>1
<1>4. whole \in [Nat -> S]
  <2> HIDE DEF part
  <2>1. ASSUME NEW n \in Nat PROVE part(n)[n] \in S
    BY <1>3
  <2> QED
    BY <2>1
<1>5. whole[0] = a
  <2> HIDE DEF part
  <2> QED
    BY <1>3 DEF Starts
<1>6. ASSUME NEW n \in Nat PROVE whole[n + 1] = step[n][whole[n]]
  <2> HIDE DEF part
  <2>1. part(n)[n] = part(n + 1)[n]
    <3>1. part(n + 1) \in [0 .. n + 1 -> S] /\ Starts(part(n + 1), n + 1, a, step)
      BY <1>3
    <3>2. n \in U /\ 1 \in Nat
      BY <1>2
    <3> QED
      BY <1>3, <3>1, <3>2
  <2>2. part(n + 1)[n + 1] = step[n][part(n + 1)[n]]
    BY <1>3 DEF Starts
  <2> QED
    BY <2>1, <2>2
<1> HIDE DEF whole
<1>7. Recursive(whole, S, a, step)
  BY <1>4, <1>5, <1>6 DEF Recursive
<1> QED
  BY <1>7

-----------------------------------------------------------------------------
(* Products, quotients and remainders *)

\* Products of natural numbers, and how they compare.
LEMMA Products ==
  ASSUME NEW x \in Nat, NEW y \in Nat, NEW z \in Nat
  PROVE  /\ x * y \in Nat
         /\ x <= y => x * z <= y * z
         /\ z > 0 /\ x * z < y * z => x < y
         /\ x > 0 /\ y > 0 => x * y > 0 /\ x * y >= x /\ x * y >= y
         /\ x < y => x * z + z <= y * z
OBVIOUS

\* Division with remainder.
LEMMA DivMod ==
  ASSUME NEW x \in Int, NEW d \in Nat \ {0}
  PROVE  /\ x \div d \in Int /\ x % d \in 0 .. d - 1
         /\ x = (x \div d) * d + (x % d)
         /\ x >= 0 => x \div d \in Nat /\ x \div d <= x
<1>1. /\ x \div d \in Int /\ x % d \in 0 .. d - 1
      /\ x = (x \div d) * d + (x % d)
  OBVIOUS
<1>2. ASSUME x >= 0 PROVE x \div d >= 0 /\ x \div d <= x
  <2> DEFINE q == x \div d
             r == x % d
  <2>1. q \in Int /\ r \in 0 .. d - 1 /\ x = q * d + r
    BY <1>1
  <2> HIDE DEF q, r
  <2>2. q >= 0
    <3>1. SUFFICES ASSUME q <= -1 PROVE FALSE
      BY <2>1
    <3>2. q * d <= - d
      BY <2>1, <3>1
    <3> QED
      BY <1>2, <2>1, <3>2
  <2>3. q * d >= q
    BY <2>1, <2>2
  <2>4. q * d \in Int
    BY <2>1
  <2>5. q <= x
    BY <2>1, <2>3, <2>4
  <2> QED
    BY <2>2, <2>5 DEF q
<1> QED
  BY <1>1, <1>2

\* Quotient and remainder.
LEMMA Division ==
  ASSUME NEW x \in Nat, NEW d \in Nat, d > 0
  PROVE  /\ x \div d \in Nat /\ x % d \in 0 .. d - 1
         /\ x = (x \div d) * d + (x % d)
BY DivMod

\* Quotient and remainder are the only ones.
LEMMA DivModUnique ==
  ASSUME NEW q \in Int, NEW d \in Nat \ {0}, NEW r \in 0 .. d - 1
  PROVE  (q * d + r) \div d = q /\ (q * d + r) % d = r
OBVIOUS
=============================================================================
