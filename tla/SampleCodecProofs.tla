------------------------- MODULE SampleCodecProofs -------------------------
(***************************************************************************)
(* Proofs of the properties of SampleCodec.  The facts they rest on, from  *)
(* the bits up: powers of two; what is peeked at is what was put (PeekBits,*)
(* Shape, Decodes); rice and golomb code words are decoded to their values *)
(* and fit a register (RiceCode, GolombCode); so are the escape symbols of *)
(* both mechanisms (ZeroRecovers, MultiRecovers); the residual gives back  *)
(* the sample (Residual, RoundAgain).  The inductive invariant CodecInv    *)
(* says that the symbols of the samples lie one behind the other in the    *)
(* stream and that the decoder is between two of them, with the samples    *)
(* before as the encoder rounded them.                                     *)
(***************************************************************************)
EXTENDS SampleCodec, Arith, TLAPS

-----------------------------------------------------------------------------
(* Powers of two *)

\* The defining equations of pow2.
LEMMA Pow2Def ==
  /\ pow2 \in [Nat -> Nat] /\ pow2[0] = 1
  /\ \A n \in Nat : pow2[n + 1] = 2 * pow2[n]
<1> DEFINE step == [n \in Nat |-> [x \in Nat |-> 2 * x]]
<1>1. step \in [Nat -> [Nat -> Nat]] /\ \A n \in Nat, x \in Nat : step[n][x] = 2 * x
  OBVIOUS
<1> HIDE DEF step
<1>2. PICK f \in [Nat -> Nat] : f[0] = 1 /\ \A n \in Nat : f[n + 1] = step[n][f[n]]
  <2>1. Stepping(Nat, step)
    BY <1>1 DEF Stepping
  <2>2. \E f : Recursive(f, Nat, 1, step)
    BY <2>1, Recursion
  <2> QED
    BY <2>2 DEF Recursive
<1>3. f = [n \in Nat |-> IF n = 0 THEN 1 ELSE 2 * f[n - 1]]
  <2>1. ASSUME NEW n \in Nat, n # 0 PROVE f[n] = 2 * f[n - 1]
    <3>1. n - 1 \in Nat /\ n = (n - 1) + 1
      BY <2>1
    <3> QED
      BY <1>1, <1>2, <3>1
  <2> QED
    BY <1>2, <2>1
<1>4. pow2 = [n \in Nat |-> IF n = 0 THEN 1 ELSE 2 * pow2[n - 1]]
  BY <1>3, Zenon DEF pow2
<1>5. pow2[0] = 1 /\ \A n \in Nat : pow2[n + 1] = 2 * pow2[n]
  BY <1>4
<1>6. pow2 \in [Nat -> Nat]
  <2> DEFINE T == {n \in Nat : pow2[n] \in Nat}
  <2>1. 0 \in T /\ \A n \in T : n + 1 \in T
    BY <1>5
  <2> HIDE DEF T
  <2>2. T = Nat
    <3>1. T \in SUBSET Nat
      BY DEF T
    <3> QED
      BY <2>1, <3>1, Induction
  <2>3. \A n \in Nat : pow2[n] \in Nat
    BY <2>2 DEF T
  <2>4. DOMAIN pow2 = Nat /\ pow2 = [n \in Nat |-> pow2[n]]
    BY <1>4
  <2> QED
    BY <2>3, <2>4
<1> QED
  BY <1>5, <1>6

\* They are positive and add up in the exponent.
LEMMA Pow2Sum ==
  ASSUME NEW a \in Nat, NEW b \in Nat
  PROVE  /\ pow2[a] \in Nat /\ pow2[a] > a
         /\ pow2[a + b] = pow2[a] * pow2[b]
<1>1. \A n \in Nat : pow2[n] \in Nat
  BY Pow2Def
<1> DEFINE T == {n \in Nat : pow2[n] > n /\ pow2[a + n] = pow2[a] * pow2[n]}
<1>2. 0 \in T
  BY <1>1, Pow2Def
<1>3. ASSUME NEW n \in T PROVE n + 1 \in T
  <2>1. /\ n \in Nat /\ pow2[n] > n /\ pow2[a + n] = pow2[a] * pow2[n]
        /\ a + n \in Nat /\ a + (n + 1) = (a + n) + 1
    BY <1>3
  <2>2. pow2[n + 1] = 2 * pow2[n] /\ pow2[a + (n + 1)] = 2 * pow2[a + n]
    BY <2>1, Pow2Def
  <2>3. pow2[n + 1] > n + 1
    BY <1>1, <2>1, <2>2
  <2>4. 2 * (pow2[a] * pow2[n]) = pow2[a] * (2 * pow2[n])
    BY <1>1, <2>1
  <2> QED
    BY <2>1, <2>2, <2>3, <2>4
<1> HIDE DEF T
<1>4. T = Nat
  <2>1. T \in SUBSET Nat
    BY DEF T
  <2> QED
    BY <1>2, <1>3, <2>1, Induction
<1> QED
  BY <1>1, <1>4 DEF T

\* They are positive, and larger than their exponents.
LEMMA Pow2Positive == \A n \in Nat : pow2[n] \in Nat \ {0} /\ pow2[n] > n
<1> SUFFICES ASSUME NEW n \in Nat PROVE pow2[n] \in Nat \ {0} /\ pow2[n] > n
  OBVIOUS
<1>1. pow2[n] \in Nat /\ pow2[n] > n
  BY Pow2Sum
<1> QED
  BY <1>1

\* They grow with the exponent, by the factor of the difference.
LEMMA Pow2Monotone ==
  ASSUME NEW a \in Nat, NEW b \in Nat
  PROVE  a <= b => pow2[a] <= pow2[b] /\ pow2[b] = pow2[a] * pow2[b - a]
<1>1. ASSUME a <= b PROVE pow2[a] <= pow2[b] /\ pow2[b] = pow2[a] * pow2[b - a]
  <2>1. b - a \in Nat /\ a + (b - a) = b
    BY <1>1
  <2>2. pow2[b] = pow2[a] * pow2[b - a] /\ pow2[a] \in Nat /\ pow2[b - a] \in Nat /\ pow2[b - a] > 0
        /\ pow2[a] > 0
    <3>1. pow2[a] > a /\ pow2[b - a] > b - a /\ pow2[a] \in Nat /\ pow2[b - a] \in Nat
      BY <2>1, Pow2Sum
    <3>2. pow2[a + (b - a)] = pow2[a] * pow2[b - a]
      BY <2>1, Pow2Sum
    <3> QED
      BY <2>1, <3>1, <3>2
  <2> QED
    BY <2>2, Products
<1> QED
  BY <1>1

\* A quotient by twice a number is half the quotient.
LEMMA HalfQuotient ==
  ASSUME NEW v \in Nat, NEW d \in Nat \ {0}
  PROVE  /\ v \div d \in Nat
         /\ v \div d = 2 * (v \div (2 * d)) + ((v \div d) % 2)
<1>1. PICK e \in Nat \ {0} : e = 2 * d
  OBVIOUS
<1> DEFINE q == v \div e
           r == v % e
<1>2. q \in Nat /\ r \in 0 .. 2 * d - 1 /\ v = q * (2 * d) + r
  <2>1. q \in Nat /\ r \in 0 .. e - 1 /\ v = q * e + r
    BY Division
  <2> QED
    BY <1>1, <2>1
<1> HIDE DEF q, r
<1>3. q * (2 * d) = (2 * q) * d
  BY <1>2
<1>4. CASE r < d
  <2>1. v = (2 * q) * d + r /\ 2 * q \in Int /\ r \in 0 .. d - 1
    BY <1>2, <1>3, <1>4
  <2>2. v \div d = 2 * q
    BY <2>1, DivModUnique
  <2> QED
    BY <1>1, <1>2, <2>2 DEF q
<1>5. CASE r >= d
  <2>1. v = (2 * q + 1) * d + (r - d) /\ 2 * q + 1 \in Int /\ r - d \in 0 .. d - 1
    BY <1>2, <1>3, <1>5
  <2>2. v \div d = 2 * q + 1
    BY <2>1, DivModUnique
  <2> QED
    BY <1>1, <1>2, <2>2 DEF q
<1> QED
  BY <1>2, <1>4, <1>5

-----------------------------------------------------------------------------
(* Bits *)

\* s lies in the stream behind its first p bits.
At(p, s) ==
  /\ p + Len(s) <= Len(stream)
  /\ \A i \in 1 .. Len(s) : stream[p + i] = s[i]

Binary == {0, 1}

\* The bits of the stream, also behind its end.
LEMMA BitType ==
  ASSUME stream \in Seq(Binary), NEW i \in Nat \ {0}
  PROVE  Bit(i) \in Binary
BY DEF Bit, Binary

\* The defining equations of Peek.
LEMMA PeekDef ==
  ASSUME stream \in Seq(Binary), NEW p \in Nat
  PROVE  /\ Peek(p, 0) = 0
         /\ \A n \in Nat : Peek(p, n) \in Nat /\ Peek(p, n + 1) = 2 * Peek(p, n) + Bit(p + (n + 1))
<1> DEFINE step == [n \in Nat |-> [x \in Nat |-> 2 * x + Bit(p + (n + 1))]]
           rec(f) == f = [i \in Nat |-> IF i = 0 THEN 0 ELSE 2 * f[i - 1] + Bit(p + i)]
           peek == CHOOSE f : rec(f)
<1>1. ASSUME NEW n \in Nat PROVE Bit(p + (n + 1)) \in Nat
  BY BitType DEF Binary
<1>2. step \in [Nat -> [Nat -> Nat]]
      /\ \A n \in Nat, x \in Nat : step[n][x] = 2 * x + Bit(p + (n + 1))
  <2>1. ASSUME NEW n \in Nat
        PROVE  [x \in Nat |-> 2 * x + Bit(p + (n + 1))] \in [Nat -> Nat]
    <3>1. Bit(p + (n + 1)) \in Nat
      BY <1>1
    <3> QED
      BY <3>1
  <2> QED
    BY <2>1
<1> HIDE DEF step
<1>3. PICK g : g \in [Nat -> Nat] /\ g[0] = 0 /\ \A n \in Nat : g[n + 1] = step[n][g[n]]
  <2>1. Stepping(Nat, step)
    BY <1>2 DEF Stepping
  <2>2. \E f : Recursive(f, Nat, 0, step)
    BY <2>1, Recursion
  <2> QED
    BY <2>2 DEF Recursive
<1>4. rec(g)
  <2>1. ASSUME NEW n \in Nat, n # 0 PROVE g[n] = 2 * g[n - 1] + Bit(p + n)
    <3>1. n - 1 \in Nat /\ n = (n - 1) + 1
      BY <2>1
    <3>2. g[n - 1] \in Nat /\ g[(n - 1) + 1] = step[n - 1][g[n - 1]]
      BY <1>3, <3>1
    <3>3. step[n - 1][g[n - 1]] = 2 * g[n - 1] + Bit(p + ((n - 1) + 1))
      BY <1>2, <3>1, <3>2
    <3> QED
      BY <3>1, <3>2, <3>3
  <2> QED
    BY <1>3, <2>1
<1>5. rec(peek)
  <2> HIDE DEF rec
  <2> QED
    BY <1>4
<1>6. \A n : Peek(p, n) = peek[n]
  BY DEF Peek
<1> HIDE DEF peek
<1>7. peek[0] = 0 /\ \A n \in Nat : peek[n + 1] = 2 * peek[n] + Bit(p + (n + 1))
  BY <1>5
<1> DEFINE T == {n \in Nat : peek[n] \in Nat}
<1>8. 0 \in T /\ \A n \in T : n + 1 \in T
  <2>1. ASSUME NEW n \in Nat, peek[n] \in Nat PROVE peek[n + 1] \in Nat
    <3>1. Bit(p + (n + 1)) \in Nat /\ peek[n + 1] = 2 * peek[n] + Bit(p + (n + 1))
      BY <1>1, <1>7
    <3> QED
      BY <2>1, <3>1
  <2>2. peek[0] \in Nat
    BY <1>7
  <2> QED
    BY <2>1, <2>2
<1>9. T = Nat
  <2> HIDE DEF T
  <2>1. T \in SUBSET Nat
    BY DEF T
  <2> QED
    BY <1>8, <2>1, Induction
<1>10. \A n \in Nat : peek[n] \in Nat
  BY <1>9
<1> HIDE DEF T
<1> QED
  BY <1>6, <1>7, <1>10

\* The n bits behind the first p are those of v.
Holds(p, n, v) == \A i \in 1 .. n : Bit(p + i) = (v \div pow2[n - i]) % 2

\* Peeking at the bits of a number returns it.
LEMMA PeekBits ==
  ASSUME stream \in Seq(Binary), NEW p \in Nat, NEW n \in Nat, NEW v \in Nat, v < pow2[n],
         Holds(p, n, v)
  PROVE  Peek(p, n) = v
<1> DEFINE T == {j \in Nat : j <= n => Peek(p, j) = v \div pow2[n - j]}
<1>1. \A j \in Nat : pow2[j] \in Nat \ {0}
  BY Pow2Positive
<1>2. 0 \in T
  <2>1. v \div pow2[n] = 0
    <3>1. v = 0 * pow2[n] + v /\ v \in 0 .. pow2[n] - 1 /\ pow2[n] \in Nat \ {0} /\ 0 \in Int
      <4>1. pow2[n] \in Nat \ {0}
        BY <1>1
      <4> QED
        BY <4>1
    <3> QED
      BY <3>1, DivModUnique
  <2>2. n - 0 = n
    OBVIOUS
  <2> QED
    BY <2>1, <2>2, PeekDef
<1>3. ASSUME NEW j \in T PROVE j + 1 \in T
  <2>1. SUFFICES ASSUME j + 1 <= n PROVE Peek(p, j + 1) = v \div pow2[n - (j + 1)]
    BY <1>3
  <2>2. j \in Nat /\ j + 1 \in 1 .. n /\ n - (j + 1) \in Nat /\ n - j = (n - (j + 1)) + 1
    BY <2>1
  <2>3. Peek(p, j) = v \div pow2[n - j]
    BY <2>1, <2>2
  <2>4. pow2[n - j] = 2 * pow2[n - (j + 1)]
    BY <2>2, Pow2Def
  <2>5. Bit(p + (j + 1)) = (v \div pow2[n - (j + 1)]) % 2
    BY <2>2 DEF Holds
  <2>6. pow2[n - (j + 1)] \in Nat \ {0}
    BY <1>1, <2>2
  <2>7. v \div pow2[n - (j + 1)] = 2 * (v \div pow2[n - j]) + ((v \div pow2[n - (j + 1)]) % 2)
    BY <2>4, <2>6, HalfQuotient
  <2>8. Peek(p, j + 1) = 2 * Peek(p, j) + Bit(p + (j + 1))
    BY <2>2, PeekDef
  <2> QED
    BY <2>3, <2>5, <2>7, <2>8
<1> HIDE DEF T
<1>4. n \in T
  <2>1. T \in SUBSET Nat
    BY DEF T
  <2> QED
    BY <1>2, <1>3, <2>1, Induction
<1>5. Peek(p, n) = v \div pow2[n - n] /\ n - n = 0
  BY <1>4 DEF T
<1> QED
  BY <1>5, Pow2Def

-----------------------------------------------------------------------------
(* Numbers as bits, and code words in the stream *)

\* put_n_bits32
LEMMA PutBitsType ==
  ASSUME NEW x \in Nat, NEW n \in Nat
  PROVE  /\ PutBits(x, n) \in Seq(Binary) /\ Len(PutBits(x, n)) = n
         /\ \A i \in 1 .. n : PutBits(x, n)[i] = (x \div pow2[n - i]) % 2
<1>1. ASSUME NEW i \in 1 .. n PROVE (x \div pow2[n - i]) % 2 \in Binary
  <2>1. n - i \in Nat
    OBVIOUS
  <2>2. pow2[n - i] \in Nat /\ pow2[n - i] > 0
    BY <2>1, Pow2Positive
  <2>3. x \div pow2[n - i] \in Nat
    BY <2>2, Division
  <2> QED
    BY <2>3 DEF Binary
<1> QED
  BY <1>1 DEF PutBits

\* A code word: u ones, a zero, and the n bits of v.
CodeShape(s, u, n, v) ==
  /\ s \in Seq(Binary) /\ Len(s) = u + 1 + n
  /\ \A i \in 1 .. u : s[i] = 1
  /\ s[u + 1] = 0
  /\ \A j \in 1 .. n : s[u + 1 + j] = (v \div pow2[n - j]) % 2

\* The bits that are put for a code word with u ones and the rest v.
LEMMA Shape ==
  ASSUME NEW u \in Nat, NEW n \in Nat, NEW v \in Nat, v < pow2[n]
  PROVE  /\ (pow2[u] - 1) * pow2[n + 1] + v \in Nat
         /\ CodeShape(PutBits((pow2[u] - 1) * pow2[n + 1] + v, u + 1 + n), u, n, v)
<1>1. PICK U \in Nat : U = pow2[u] - 1
  BY Pow2Positive
<1>2. pow2[n + 1] = 2 * pow2[n] /\ pow2[n] \in Nat /\ pow2[n] > 0
  BY Pow2Def, Pow2Positive
<1>3. PICK cw \in Nat : cw = U * pow2[n + 1] + v
  BY <1>2
<1>4. PICK len \in Nat : len = u + 1 + n
  OBVIOUS
<1> DEFINE s == PutBits(cw, len)
<1>5. s \in Seq(Binary) /\ Len(s) = len /\ \A i \in 1 .. len : s[i] = (cw \div pow2[len - i]) % 2
  BY PutBitsType
<1> HIDE DEF s
<1>6. ASSUME NEW i \in 1 .. u PROVE s[i] = 1
  <2>1. PICK e \in Nat : e = u - i
    OBVIOUS
  <2>2. PICK f \in Nat : f = i - 1
    OBVIOUS
  <2>3. len - i = e + (n + 1) /\ u = e + i /\ i = f + 1 /\ i \in Nat
    BY <1>4, <2>1, <2>2
  <2>4. /\ pow2[len - i] = pow2[e] * pow2[n + 1] /\ pow2[u] = pow2[e] * pow2[i]
        /\ pow2[i] = 2 * pow2[f]
    <3>1. pow2[e + (n + 1)] = pow2[e] * pow2[n + 1] /\ pow2[e + i] = pow2[e] * pow2[i]
      BY <2>3, Pow2Sum, n + 1 \in Nat
    <3> QED
      BY <2>3, <3>1, Pow2Def
  <2>5. PICK E \in Nat \ {0} : E = pow2[e]
    BY Pow2Positive
  <2>6. PICK N \in Nat \ {0} : N = pow2[n + 1] /\ v < N
    BY <1>2
  <2>7. PICK F \in Nat \ {0} : F = pow2[f]
    BY Pow2Positive
  <2>8. U = E * (2 * F) - 1 /\ cw = U * N + v /\ pow2[len - i] = E * N
    BY <1>1, <1>3, <2>4, <2>5, <2>6, <2>7
  <2>9. cw = (2 * F - 1) * (E * N) + ((E - 1) * N + v)
    <3>1. (E * (2 * F) - 1) * N = (2 * F - 1) * (E * N) + (E - 1) * N
      OBVIOUS
    <3> QED
      BY <2>8, <3>1
  <2>10. (E - 1) * N + v \in 0 .. E * N - 1 /\ E * N \in Nat \ {0}
    <3>1. (E - 1) * N \in Nat /\ (E - 1) * N = E * N - N /\ E * N \in Nat
      OBVIOUS
    <3> QED
      BY <2>6, <3>1
  <2>11. PICK D \in Nat \ {0} : D = E * N
    BY <2>10
  <2>12. PICK R \in 0 .. D - 1 : R = (E - 1) * N + v
    BY <2>10, <2>11
  <2>13. cw \div D = 2 * F - 1
    <3>1. cw = (2 * F - 1) * D + R /\ 2 * F - 1 \in Int
      BY <2>9, <2>11, <2>12
    <3> QED
      BY <3>1, DivModUnique
  <2>14. s[i] = (2 * F - 1) % 2
    <3>1. i \in 1 .. len
      BY <1>4
    <3> QED
      BY <1>5, <2>8, <2>11, <2>13, <3>1
  <2> QED
    BY <2>14
<1>7. s[u + 1] = 0
  <2>1. u + 1 \in 1 .. len /\ len - (u + 1) = n
    BY <1>4
  <2>2. cw \div pow2[n] = 2 * U
    <3>1. PICK N \in Nat \ {0} : N = pow2[n] /\ v < N
      BY <1>2
    <3>2. U * (2 * N) = (2 * U) * N
      OBVIOUS
    <3>3. cw = (2 * U) * N + v /\ v \in 0 .. N - 1 /\ 2 * U \in Int
      BY <1>2, <1>3, <3>1, <3>2
    <3>4. cw \div N = 2 * U
      BY <3>3, DivModUnique
    <3> QED
      BY <3>1, <3>4
  <2> QED
    BY <1>5, <2>1, <2>2
<1>8. ASSUME NEW j \in 1 .. n PROVE s[u + 1 + j] = (v \div pow2[n - j]) % 2
  <2>1. u + 1 + j \in 1 .. len /\ len - (u + 1 + j) = n - j /\ n - j \in Nat /\ j \in Nat
        /\ n = (n - j) + j
    BY <1>4
  <2>2. PICK J \in Nat \ {0} : J = pow2[j]
    BY <2>1, Pow2Positive
  <2>3. PICK N \in Nat \ {0} : N = pow2[n - j]
    BY <2>1, Pow2Positive
  <2>4. pow2[n] = N * J
    BY <2>1, <2>2, <2>3, Pow2Sum
  <2>5. cw = (U * (2 * J)) * N + v
    <3>1. U * (2 * (N * J)) = (U * (2 * J)) * N
      OBVIOUS
    <3> QED
      BY <1>2, <1>3, <2>4, <3>1
  <2>6. PICK q \in Nat : q = v \div N
    BY Division
  <2>7. PICK r \in 0 .. N - 1 : v = q * N + r
    <3>1. v % N \in 0 .. N - 1 /\ v = (v \div N) * N + (v % N)
      BY Division
    <3> QED
      BY <2>6, <3>1
  <2>8. PICK K \in Nat : K = U * J
    OBVIOUS
  <2>9. U * (2 * J) = 2 * K
    BY <2>8
  <2>10. cw = (2 * K + q) * N + r /\ 2 * K + q \in Int
    <3>1. (2 * K + q) * N = (2 * K) * N + q * N
      OBVIOUS
    <3> QED
      BY <2>5, <2>7, <2>9, <3>1
  <2>11. cw \div N = 2 * K + q
    BY <2>10, DivModUnique
  <2>12. s[u + 1 + j] = (2 * K + q) % 2
    BY <1>5, <2>1, <2>3, <2>11
  <2>13. (2 * K + q) % 2 = q % 2
    OBVIOUS
  <2> QED
    BY <2>3, <2>6, <2>12, <2>13
<1>9. CodeShape(s, u, n, v)
  BY <1>4, <1>5, <1>6, <1>7, <1>8 DEF CodeShape
<1> QED
  BY <1>1, <1>3, <1>4, <1>9 DEF s

\* bit_peek_leading_ones, and the bits behind them.
LEMMA Decodes ==
  ASSUME stream \in Seq(Binary), NEW p \in Nat, NEW u \in Nat, NEW n \in Nat, NEW v \in Nat,
         v < pow2[n], NEW s, CodeShape(s, u, n, v), At(p, s)
  PROVE  /\ LeadingOnes(p) = u
         /\ Peek(p + u + 1, n) = v
         /\ p + u + 1 + n <= Len(stream)
<1>1. Len(s) = u + 1 + n /\ Len(s) \in Nat /\ p + Len(s) <= Len(stream) /\ Len(stream) \in Nat
  BY DEF CodeShape, At
<1>2. \A i \in 1 .. Len(s) : Bit(p + i) = s[i]
  BY <1>1 DEF At, Bit
<1>3. LeadingOnes(p) = u
  <2> DEFINE Ones(m) == /\ Bit(p + m + 1) = 0
                        /\ \A i \in 1 .. m : Bit(p + i) = 1
  <2>1. u \in 0 .. Len(stream)
    BY <1>1
  <2>2. Ones(u)
    <3>1. u + 1 \in 1 .. Len(s) /\ p + u + 1 = p + (u + 1)
      BY <1>1
    <3>2. Bit(p + u + 1) = 0
      BY <1>2, <3>1 DEF CodeShape
    <3>3. ASSUME NEW i \in 1 .. u PROVE Bit(p + i) = 1
      <4>1. i \in 1 .. Len(s)
        BY <1>1
      <4> QED
        BY <1>2, <4>1 DEF CodeShape
    <3> QED
      BY <3>2, <3>3
  <2>3. ASSUME NEW m \in 0 .. Len(stream), Ones(m) PROVE m = u
    <3>1. CASE m < u
      <4>1. m + 1 \in 1 .. u /\ p + m + 1 = p + (m + 1)
        BY <3>1
      <4>2. Bit(p + (m + 1)) = 1
        BY <2>2, <4>1
      <4> QED
        BY <2>3, <4>1, <4>2
    <3>2. CASE u < m
      <4>1. u + 1 \in 1 .. m /\ p + u + 1 = p + (u + 1)
        BY <3>2
      <4>2. Bit(p + (u + 1)) = 1
        BY <2>3, <4>1
      <4> QED
        BY <2>2, <4>1, <4>2
    <3> QED
      BY <1>1, <3>1, <3>2
  <2>4. LeadingOnes(p) = CHOOSE m \in 0 .. Len(stream) : Ones(m)
    BY DEF LeadingOnes
  <2> HIDE DEF Ones
  <2> QED
    BY <2>1, <2>2, <2>3, <2>4
<1>4. Holds(p + u + 1, n, v)
  <2>1. SUFFICES ASSUME NEW j \in 1 .. n PROVE Bit(p + u + 1 + j) = (v \div pow2[n - j]) % 2
    BY DEF Holds
  <2>2. u + 1 + j \in 1 .. Len(s) /\ p + u + 1 + j = p + (u + 1 + j)
    BY <1>1
  <2>3. s[u + 1 + j] = (v \div pow2[n - j]) % 2
    BY DEF CodeShape
  <2> QED
    BY <1>2, <2>2, <2>3
<1>5. Peek(p + u + 1, n) = v
  BY <1>4, PeekBits, p + u + 1 \in Nat
<1> QED
  BY <1>1, <1>3, <1>5

\* Bits that are not part of a code word: the lower n bits of v <= 2^n.
LEMMA RawBits ==
  ASSUME stream \in Seq(Binary), NEW p \in Nat, NEW n \in Nat, NEW v \in Nat, v < pow2[n],
         At(p, PutBits(v, n))
  PROVE  Peek(p, n) = v /\ p + n <= Len(stream)
<1>1. /\ Len(PutBits(v, n)) = n
      /\ \A i \in 1 .. n : PutBits(v, n)[i] = (v \div pow2[n - i]) % 2
  BY PutBitsType
<1>2. p + n <= Len(stream)
  BY <1>1 DEF At
<1>3. Holds(p, n, v)
  <2>1. SUFFICES ASSUME NEW i \in 1 .. n PROVE Bit(p + i) = (v \div pow2[n - i]) % 2
    BY DEF Holds
  <2>2. stream[p + i] = (v \div pow2[n - i]) % 2
    BY <1>1 DEF At
  <2>3. p + i <= Len(stream)
    BY <1>2
  <2> QED
    BY <2>2, <2>3 DEF Bit
<1> QED
  BY <1>2, <1>3, PeekBits

-----------------------------------------------------------------------------
(* Code words *)

\* The parameters of a collection.
CfgType ==
  /\ Reg \in Nat /\ Reg >= 4 /\ Reg % 2 = 0
  /\ cfg.zero \in BOOLEAN /\ cfg.model_mode \in BOOLEAN
  /\ cfg.par \in Nat /\ cfg.par > 0 /\ cfg.par < pow2[Reg \div 2]
  /\ cfg.spill \in Nat /\ Valid(cfg)
  /\ cfg.bits \in Nat /\ cfg.bits > 0 /\ cfg.bits <= Reg
  /\ cfg.round \in Nat /\ cfg.round < cfg.bits
  /\ cfg.weight \in 0 .. MAX_MODEL_VALUE

\* ilog_2 is the number of the highest bit.
LEMMA Log ==
  ASSUME CfgType, NEW x \in Nat, x > 0, x < pow2[Reg]
  PROVE  /\ ilog_2(x) \in 0 .. Reg - 1
         /\ pow2[ilog_2(x)] <= x /\ x < pow2[ilog_2(x) + 1]
<1> DEFINE T == {n \in Nat : x < pow2[n]}
<1>1. Reg \in T /\ T \in SUBSET Nat
  BY DEF CfgType
<1>2. PICK n \in T : \A m \in T : n <= m
  BY <1>1, LeastElement
<1>3. n # 0
  BY <1>2, Pow2Def
<1>4. PICK l \in Nat : n = l + 1
  BY <1>2, <1>3, n - 1 \in Nat
<1>5. l \in 0 .. Reg - 1 /\ ~ (l \in T)
  BY <1>1, <1>2, <1>4 DEF CfgType
<1>6. pow2[l] <= x /\ x < pow2[l + 1]
  BY <1>2, <1>4, <1>5, Pow2Positive
<1> HIDE DEF T
<1> QED
  BY <1>5, <1>6 DEF ilog_2

\* The Golomb parameter, its logarithm and the cutoff.
LEMMA Golomb ==
  ASSUME CfgType
  PROVE  \E l \in 0 .. Reg - 1, N \in Nat :
           /\ l = ilog_2(cfg.par) /\ N = pow2[l] /\ N > 0 /\ pow2[l + 1] = 2 * N
           /\ N <= cfg.par /\ cfg.par < 2 * N
           /\ Cutoff(cfg.par) = 2 * N - cfg.par
<1>1. PICK l : l = ilog_2(cfg.par)
  OBVIOUS
<1>2. cfg.par \in Nat /\ cfg.par > 0 /\ cfg.par < pow2[Reg]
  <2>1. Reg \in Nat /\ Reg \div 2 \in Nat /\ Reg \div 2 <= Reg
    BY DEF CfgType
  <2>2. pow2[Reg \div 2] <= pow2[Reg] /\ pow2[Reg \div 2] \in Nat /\ pow2[Reg] \in Nat
    BY <2>1, Pow2Monotone, Pow2Positive
  <2> QED
    BY <2>2 DEF CfgType
<1>3. l \in 0 .. Reg - 1 /\ pow2[l] <= cfg.par /\ cfg.par < pow2[l + 1]
  BY <1>1, <1>2, Log
<1>4. l \in Nat
  BY <1>3
<1>5. pow2[l] \in Nat /\ pow2[l] > 0 /\ pow2[l + 1] = 2 * pow2[l]
  BY <1>4, Pow2Def, Pow2Positive
<1>6. Cutoff(cfg.par) = 2 * pow2[l] - cfg.par
  BY <1>1, <1>5 DEF Cutoff
<1> QED
  BY <1>1, <1>3, <1>5, <1>6

\* The values whose code words have at most Reg bits.
Fits(x) == x <= (Reg - 1 - ilog_2(cfg.par)) * cfg.par + Cutoff(cfg.par) - 1

\* The decoder finds x where the stream holds u ones, a zero and the n bits of v.
Means(x, u, n, v) ==
  \A p \in Nat : LeadingOnes(p) = u /\ Peek(p + u + 1, n) = v =>
    DecodeCodeWord(p) = [value |-> x, pos |-> p + u + 1 + n]

IsCode(c, x, u, n, v) ==
  /\ u \in Nat /\ n \in Nat /\ v \in Nat /\ v < pow2[n]
  /\ c.cw = (pow2[u] - 1) * pow2[n + 1] + v /\ c.len = u + 1 + n
  /\ c.len <= Reg
  /\ Means(x, u, n, v)

\* Rice codes, which for the parameter 1 are unary codes.
LEMMA RiceCode ==
  ASSUME CfgType, stream \in Seq(Binary), NEW x \in Nat, Fits(x), is_a_pow_of_2(cfg.par)
  PROVE  \E u, n, v : IsCode(CodeWord(x), x, u, n, v)
<1>1. PICK m \in Nat : m = cfg.par /\ m > 0
  BY DEF CfgType
<1>2. PICK l \in 0 .. Reg - 1, N \in Nat :
           /\ l = ilog_2(m) /\ N = pow2[l] /\ N > 0 /\ pow2[l + 1] = 2 * N
           /\ Cutoff(m) = 2 * N - m
  BY <1>1, Golomb
<1>3. m = N /\ l \in Nat /\ Reg \in Nat
  BY <1>1, <1>2 DEF is_a_pow_of_2, CfgType
<1>4. PICK q \in Nat, r \in 0 .. m - 1 : q = x \div m /\ r = x % m /\ x = q * m + r
  <2>1. x \div m \in Nat /\ x % m \in 0 .. m - 1 /\ x = (x \div m) * m + (x % m)
    BY <1>1, Division
  <2> QED
    BY <2>1
<1>5. CodeWord(x) = [cw |-> (pow2[q] - 1) * pow2[l + 1] + r, len |-> l + 1 + q]
  BY <1>1, <1>2, <1>4 DEF CodeWord, rice_encoder
<1>6. l + 1 + q <= Reg
  <2>1. x <= (Reg - 1 - l) * m + m - 1
    BY <1>1, <1>2, <1>3 DEF Fits
  <2>2. PICK k \in Nat : k = Reg - 1 - l
    BY <1>3
  <2>3. q * m < (k + 1) * m
    <3>1. (k + 1) * m = k * m + m /\ k * m \in Nat /\ q * m \in Nat
      OBVIOUS
    <3> QED
      BY <1>4, <2>1, <2>2, <3>1
  <2>4. q < k + 1
    BY <1>1, <2>3, Products, k + 1 \in Nat
  <2> QED
    BY <1>3, <2>2, <2>4
<1>7. Means(x, q, l, r)
  <2>1. SUFFICES ASSUME NEW p \in Nat, LeadingOnes(p) = q, Peek(p + q + 1, l) = r
                 PROVE  DecodeCodeWord(p) = [value |-> x, pos |-> p + q + 1 + l]
    BY DEF Means
  <2>2. CASE m = 1
    <3>1. l = 0
      BY <1>2, <1>3, <2>2, Pow2Positive
    <3>2. x = q
      BY <1>4, <2>2
    <3> QED
      BY <1>1, <2>1, <2>2, <3>1, <3>2 DEF DecodeCodeWord, unary_decoder
  <2>3. CASE m # 1
    BY <1>1, <1>2, <1>3, <1>4, <2>1, <2>3 DEF DecodeCodeWord, rice_decoder, unary_decoder
  <2> QED
    BY <2>2, <2>3
<1>8. IsCode(CodeWord(x), x, q, l, r)
  <2>1. r \in Nat /\ r < pow2[l] /\ q + 1 + l = l + 1 + q /\ q \in Nat
    <3>1. r \in Nat /\ r < m /\ q \in Nat
      BY <1>1
    <3>2. m = pow2[l]
      BY <1>2, <1>3
    <3> QED
      BY <1>3, <3>1, <3>2
  <2> QED
    BY <1>3, <1>5, <1>6, <1>7, <2>1 DEF IsCode
<1> QED
  BY <1>8

\* Golomb codes: the values below the cutoff, and then groups of par values,
\* whose first par - Cutoff(par) members have the shorter code words.
LEMMA GolombCode ==
  ASSUME CfgType, stream \in Seq(Binary), NEW x \in Nat, Fits(x), ~ is_a_pow_of_2(cfg.par)
  PROVE  \E u, n, v : IsCode(CodeWord(x), x, u, n, v)
<1>1. PICK m \in Nat : m = cfg.par /\ m > 0
  BY DEF CfgType
<1>2. PICK l \in 0 .. Reg - 1, N \in Nat :
           /\ l = ilog_2(m) /\ N = pow2[l] /\ N > 0 /\ pow2[l + 1] = 2 * N
           /\ N <= m /\ m < 2 * N
           /\ Cutoff(m) = 2 * N - m
  BY <1>1, Golomb
<1>3. N < m /\ l \in Nat /\ Reg \in Nat /\ m # 1
  <2>1. m # N
    BY <1>1, <1>2 DEF is_a_pow_of_2
  <2>2. Reg \in Nat
    BY DEF CfgType
  <2> QED
    BY <1>1, <1>2, <2>1, <2>2
<1>4. PICK c \in Nat : c = Cutoff(m) /\ c = 2 * N - m /\ c < N /\ c > 0
  BY <1>2, <1>3
<1>5. CodeWord(x) = golomb_encoder(x, m, l)
  BY <1>1, <1>2 DEF CodeWord
<1>6. pow2[l + 2] = 4 * N
  <2>1. PICK k \in Nat : k = l + 1
    BY <1>3
  <2>2. l + 2 = k + 1 /\ pow2[k + 1] = 2 * pow2[k]
    BY <1>3, <2>1, Pow2Def
  <2> QED
    BY <1>2, <2>1, <2>2
<1>7. \A p \in Nat : DecodeCodeWord(p) = golomb_decoder(p, m, l)
  BY <1>1, <1>2, <1>3 DEF DecodeCodeWord
<1>8. CASE x < c
  <2>1. golomb_encoder(x, m, l) = [cw |-> x, len |-> l + 1]
    BY <1>4, <1>8 DEF golomb_encoder
  <2>2. Means(x, 0, l, x)
    <3>1. SUFFICES ASSUME NEW p \in Nat, LeadingOnes(p) = 0, Peek(p + 0 + 1, l) = x
                   PROVE  DecodeCodeWord(p) = [value |-> x, pos |-> p + 0 + 1 + l]
      BY DEF Means
    <3>2. Peek(p + 1, l + 1) \div 2 = x
      <4>1. p + 0 + 1 = p + 1 /\ p + 1 \in Nat /\ (p + 1) + (l + 1) \in Nat \ {0}
        BY <1>3
      <4>2. Peek(p + 1, l + 1) = 2 * Peek(p + 1, l) + Bit((p + 1) + (l + 1))
        BY <1>3, <4>1, PeekDef
      <4>3. Bit((p + 1) + (l + 1)) \in Binary
        BY <4>1, BitType
      <4> QED
        BY <3>1, <4>1, <4>2, <4>3 DEF Binary
    <3>3. golomb_decoder(p, m, l) = [value |-> 0 * m + x, pos |-> p + 0 + 1 + l]
      BY <1>4, <1>8, <3>1, <3>2 DEF golomb_decoder, unary_decoder
    <3> QED
      BY <1>7, <3>3
  <2>3. IsCode(CodeWord(x), x, 0, l, x)
    <3>1. (pow2[0] - 1) * pow2[l + 1] + x = x
      BY <1>2, Pow2Def
    <3>2. x < pow2[l] /\ l + 1 <= Reg
      BY <1>2, <1>3, <1>4, <1>8
    <3> QED
      BY <1>3, <1>5, <2>1, <2>2, <3>1, <3>2 DEF IsCode
  <2> QED
    BY <2>3
<1>9. CASE x >= c
  <2>1. PICK g \in Nat, r \in 0 .. m - 1 : g = (x - c) \div m /\ r = (x - c) % m /\ x = g * m + r + c
    <3>1. PICK y \in Nat : y = x - c
      BY <1>9
    <3>2. y \div m \in Nat /\ y % m \in 0 .. m - 1 /\ y = (y \div m) * m + (y % m)
      BY <1>1, Division
    <3> QED
      BY <3>1, <3>2
  <2>2. golomb_encoder(x, m, l)
          = [cw |-> (pow2[g] - 1) * pow2[l + 2] + 2 * c + r, len |-> l + 2 + g]
    BY <1>4, <1>9, <2>1 DEF golomb_encoder
  <2>3. l + 2 + g <= Reg
    <3>1. x <= (Reg - 1 - l) * m + c - 1
      BY <1>1, <1>2, <1>4 DEF Fits
    <3>2. PICK k \in Nat : k = Reg - 1 - l
      BY <1>3
    <3>3. g * m < k * m
      <4>1. k * m \in Nat /\ g * m \in Nat
        OBVIOUS
      <4> QED
        BY <2>1, <3>1, <3>2, <4>1
    <3>4. g < k
      BY <1>1, <3>3, Products
    <3> QED
      BY <1>3, <3>2, <3>4
  <2>4. PICK G \in Nat : G = pow2[g] /\ pow2[g + 1] = 2 * G
    BY Pow2Positive, Pow2Def
  <2>5. CASE r < m - c
    <3>1. PICK v \in Nat : v = 2 * c + r
      OBVIOUS
    <3>2. v < pow2[l + 1]
      <4>1. r \in Nat /\ r < m
        BY <1>1
      <4>2. v < 2 * N
        BY <1>4, <2>5, <3>1, <4>1
      <4> QED
        BY <1>2, <4>2
    <3>3. Means(x, g, l + 1, v)
      <4>1. SUFFICES ASSUME NEW p \in Nat, LeadingOnes(p) = g, Peek(p + g + 1, l + 1) = v
                     PROVE  DecodeCodeWord(p) = [value |-> x, pos |-> p + g + 1 + (l + 1)]
        BY DEF Means
      <4>2. ~ (v \div 2 < c)
        BY <3>1
      <4>3. golomb_decoder(p, m, l) = [value |-> g * m + v - c, pos |-> p + g + 1 + l + 1]
        BY <1>4, <4>1, <4>2 DEF golomb_decoder, unary_decoder
      <4>4. g * m + v - c = x
        <5>1. g * m \in Nat
          OBVIOUS
        <5> QED
          BY <2>1, <3>1, <5>1
      <4>5. p + g + 1 + l + 1 = p + g + 1 + (l + 1)
        BY <1>3
      <4> QED
        BY <1>7, <4>3, <4>4, <4>5
    <3>4. IsCode(CodeWord(x), x, g, l + 1, v)
      <4>1. l + 1 \in Nat /\ (l + 1) + 1 = l + 2 /\ g + 1 + (l + 1) = l + 2 + g
        BY <1>3
      <4>2. (pow2[g] - 1) * pow2[l + 2] + 2 * c + r = (pow2[g] - 1) * pow2[l + 2] + v
        <5>1. (G - 1) * (4 * N) \in Int
          OBVIOUS
        <5> QED
          BY <1>6, <2>4, <3>1, <5>1
      <4> QED
        BY <1>5, <2>2, <2>3, <3>2, <3>3, <4>1, <4>2 DEF IsCode
    <3> QED
      BY <3>4
  <2>6. CASE r >= m - c
    <3>1. PICK v \in Nat : v = c + r - m
      BY <2>6
    <3>2. v < c /\ v < pow2[l]
      <4>1. r \in Nat /\ r < m
        BY <1>1
      <4>2. v < c
        BY <1>4, <3>1, <4>1
      <4> QED
        BY <1>2, <1>4, <4>2
    <3>3. Means(x, g + 1, l, v)
      <4>1. SUFFICES ASSUME NEW p \in Nat, LeadingOnes(p) = g + 1, Peek(p + (g + 1) + 1, l) = v
                     PROVE  DecodeCodeWord(p) = [value |-> x, pos |-> p + (g + 1) + 1 + l]
        BY DEF Means
      <4>2. PICK a \in Nat : a = p + (g + 1) + 1
        OBVIOUS
      <4>3. Peek(a, l + 1) \div 2 = v
        <5>1. Peek(a, l + 1) = 2 * Peek(a, l) + Bit(a + (l + 1))
          BY <1>3, PeekDef
        <5>2. Bit(a + (l + 1)) \in Binary
          BY <1>3, BitType, a + (l + 1) \in Nat \ {0}
        <5> QED
          BY <4>1, <4>2, <5>1, <5>2 DEF Binary
      <4>4. golomb_decoder(p, m, l) = [value |-> (g + 1) * m + v, pos |-> p + (g + 1) + 1 + l]
        BY <1>4, <3>2, <4>1, <4>2, <4>3 DEF golomb_decoder, unary_decoder
      <4>5. (g + 1) * m + v = x
        <5>1. (g + 1) * m = g * m + m /\ g * m \in Nat
          OBVIOUS
        <5> QED
          BY <2>1, <3>1, <5>1
      <4> QED
        BY <1>7, <4>4, <4>5
    <3>4. IsCode(CodeWord(x), x, g + 1, l, v)
      <4>1. g + 1 \in Nat /\ (g + 1) + 1 + l = l + 2 + g
        BY <1>3
      <4>2. (pow2[g] - 1) * pow2[l + 2] + 2 * c + r = (pow2[g + 1] - 1) * pow2[l + 1] + v
        <5>1. (G - 1) * (4 * N) = 4 * (G * N) - 4 * N
          OBVIOUS
        <5>2. (2 * G - 1) * (2 * N) = 4 * (G * N) - 2 * N
          OBVIOUS
        <5>3. PICK M \in Nat : M = G * N
          OBVIOUS
        <5>4. (pow2[g] - 1) * pow2[l + 2] = 4 * M - 4 * N
          BY <1>6, <2>4, <5>1, <5>3
        <5>5. (pow2[g + 1] - 1) * pow2[l + 1] = 4 * M - 2 * N
          BY <1>2, <2>4, <5>2, <5>3
        <5>6. r \in Nat
          BY <1>1
        <5> QED
          BY <1>4, <3>1, <5>4, <5>5, <5>6
      <4> QED
        BY <1>3, <1>5, <2>2, <2>3, <3>2, <3>3, <4>1, <4>2 DEF IsCode
    <3> QED
      BY <3>4
  <2> QED
    BY <1>4, <2>5, <2>6
<1> QED
  BY <1>4, <1>8, <1>9

\* Every code word that fits is decoded to its value, wherever it lies.
LEMMA SymbolDecodes ==
  ASSUME CfgType, stream \in Seq(Binary), NEW x \in Nat, Fits(x), NEW raw \in Seq(Binary)
  PROVE  \E len \in Nat :
           /\ Symbol(x, raw).len = len /\ len <= Reg
           /\ Symbol(x, raw).bits \in Seq(Binary)
           /\ Len(Symbol(x, raw).bits) = len + Len(raw)
           /\ \A p \in Nat : At(p, Symbol(x, raw).bits) =>
                /\ DecodeCodeWord(p) = [value |-> x, pos |-> p + len]
                /\ At(p + len, raw) /\ p + len <= Len(stream)
<1>1. PICK u, n, v : IsCode(CodeWord(x), x, u, n, v)
  BY RiceCode, GolombCode
<1>2. PICK len \in Nat : len = u + 1 + n
  BY <1>1 DEF IsCode
<1>3. u \in Nat /\ n \in Nat /\ v \in Nat /\ v < pow2[n] /\ CodeWord(x).len = len /\ len <= Reg
  BY <1>1, <1>2 DEF IsCode
<1> DEFINE s == PutBits(CodeWord(x).cw, len)
<1>4. CodeShape(s, u, n, v)
  BY <1>1, <1>2, <1>3, Shape DEF IsCode
<1>5. s \in Seq(Binary) /\ Len(s) = len
  BY <1>2, <1>4 DEF CodeShape
<1>6. Symbol(x, raw).len = len /\ Symbol(x, raw).bits = s \o raw
  BY <1>3 DEF Symbol
<1> HIDE DEF s
<1>7. PICK r \in Seq(Binary), t \in Seq(Binary) : r = s /\ t = r \o raw
  <2>1. s \o raw \in Seq(Binary)
    BY <1>5
  <2> QED
    BY <1>5, <2>1
<1>8. /\ t \in Seq(Binary) /\ Len(t) = len + Len(raw) /\ Len(raw) \in Nat
      /\ \A i \in 1 .. len : t[i] = s[i]
      /\ \A i \in 1 .. Len(raw) : t[len + i] = raw[i]
  <2>1. t \in Seq(Binary) /\ Len(t) = Len(r) + Len(raw) /\ Len(raw) \in Nat
    BY <1>7
  <2>2. \A i \in 1 .. Len(r) : t[i] = r[i]
    BY <1>7
  <2>3. ASSUME NEW i \in 1 .. Len(raw) PROVE t[Len(r) + i] = raw[i]
    BY <1>7
  <2> QED
    BY <1>5, <1>7, <2>1, <2>2, <2>3
<1>9. ASSUME NEW p \in Nat, At(p, t)
      PROVE  /\ DecodeCodeWord(p) = [value |-> x, pos |-> p + len]
             /\ At(p + len, raw) /\ p + len <= Len(stream)
  <2>1. Len(stream) \in Nat /\ p + (len + Len(raw)) <= Len(stream)
    BY <1>8, <1>9 DEF At
  <2>2. At(p, s)
    BY <1>5, <1>8, <1>9, <2>1 DEF At
  <2>3. At(p + len, raw)
    <3>1. ASSUME NEW i \in 1 .. Len(raw) PROVE stream[p + len + i] = raw[i]
      <4>1. len + i \in 1 .. Len(t) /\ p + (len + i) = p + len + i
        BY <1>8
      <4> QED
        BY <1>8, <1>9, <4>1 DEF At
    <3> QED
      BY <1>8, <2>1, <3>1 DEF At
  <2>4. LeadingOnes(p) = u /\ Peek(p + u + 1, n) = v
    BY <1>3, <1>4, <2>2, Decodes
  <2>5. DecodeCodeWord(p) = [value |-> x, pos |-> p + u + 1 + n]
    BY <1>1, <2>4 DEF IsCode, Means
  <2>6. p + u + 1 + n = p + len
    BY <1>2, <1>3
  <2> QED
    BY <1>8, <2>1, <2>3, <2>5, <2>6
<1> QED
  BY <1>3, <1>6, <1>7, <1>8, <1>9

\* cmp_icu_max_spill leaves room for the escape symbols.
LEMMA SpillFits ==
  ASSUME CfgType, NEW x \in Nat, x <= cfg.spill + (Reg \div 2) - 1
  PROVE  Fits(x)
<1>1. PICK l \in 0 .. Reg - 1, c \in Int : l = ilog_2(cfg.par) /\ c = Cutoff(cfg.par)
  <2>1. PICK l \in 0 .. Reg - 1, N \in Nat :
           l = ilog_2(cfg.par) /\ Cutoff(cfg.par) = 2 * N - cfg.par
    BY Golomb
  <2> QED
    BY <2>1 DEF CfgType
<1>2. PICK y \in Int : y = (Reg - 1 - l) * cfg.par
  BY <1>1 DEF CfgType
<1>3. cfg.spill <= y + c - ((Reg \div 2) - 1) - 1
  BY <1>1, <1>2 DEF CfgType, Valid, MaxSpill
<1>4. Reg \div 2 \in Nat /\ cfg.spill \in Nat
  BY DEF CfgType
<1> QED
  BY <1>1, <1>2, <1>3, <1>4 DEF Fits

-----------------------------------------------------------------------------
(* Values and the escape mechanisms *)

\* The bits of 2^n are those of 0.
LEMMA PutWhole ==
  ASSUME NEW n \in Nat
  PROVE  PutBits(pow2[n], n) = PutBits(0, n)
<1>1. ASSUME NEW i \in 1 .. n
      PROVE  (pow2[n] \div pow2[n - i]) % 2 = (0 \div pow2[n - i]) % 2
  <2>1. PICK a \in Nat, b \in Nat : a = n - i /\ b = i - 1 /\ n = a + i /\ i = b + 1
    OBVIOUS
  <2>2. pow2[n] = pow2[a] * pow2[i] /\ pow2[i] = 2 * pow2[b]
    <3>1. i \in Nat
      OBVIOUS
    <3>2. pow2[a + i] = pow2[a] * pow2[i]
      BY <3>1, Pow2Sum
    <3>3. pow2[b + 1] = 2 * pow2[b]
      BY Pow2Def
    <3> QED
      BY <2>1, <3>2, <3>3
  <2>3. PICK A \in Nat \ {0}, B \in Nat : A = pow2[a] /\ B = pow2[b]
    BY Pow2Positive
  <2>4. pow2[n] = (2 * B) * A + 0 /\ 0 = 0 * A + 0
    BY <2>2, <2>3
  <2>5. ((2 * B) * A + 0) \div A = 2 * B /\ (0 * A + 0) \div A = 0
    BY <2>3, DivModUnique, 2 * B \in Int, 0 \in Int, 0 \in 0 .. A - 1
  <2>6. (2 * B) % 2 = 0
    BY <2>3
  <2> QED
    BY <2>1, <2>3, <2>4, <2>5, <2>6
<1> QED
  BY <1>1 DEF PutBits

\* A remainder of a smaller number is the number.
LEMMA Small ==
  ASSUME NEW d \in Nat, NEW x \in Nat, x < d
  PROVE  x % d = x /\ x \div d = 0
<1>1. d \in Nat \ {0} /\ x = 0 * d + x /\ x \in 0 .. d - 1 /\ 0 \in Int
  OBVIOUS
<1> QED
  BY <1>1, DivModUnique

\* The value comes out of a symbol of the encoder, which is at most Reg bits long
\* but for the unencoded part.
Recovers(sym, x, decode) ==
  /\ sym.bits \in Seq(Binary) /\ sym.len \in Nat /\ sym.len <= Reg
  /\ At(pos, sym.bits) =>
       /\ pos + Len(sym.bits) <= Len(stream)
       /\ decode = [value |-> x, pos |-> pos + Len(sym.bits), err |-> FALSE]

\* What is decoded inside the stream is no overflow.
LEMMA NoOverflow ==
  ASSUME stream \in Seq(Binary), NEW v, NEW p \in Nat, p <= Len(stream)
  PROVE  Decoded(v, p) = [value |-> v, pos |-> p, err |-> FALSE]
<1>1. (p > Len(stream)) = FALSE
  <2>1. Len(stream) \in Nat
    OBVIOUS
  <2> QED
    BY <2>1
<1> QED
  BY <1>1, Zenon DEF Decoded

\* Zero escape mechanism.
LEMMA ZeroRecovers ==
  ASSUME CfgType, stream \in Seq(Binary), pos \in Nat, NEW x \in Nat, x < pow2[cfg.bits]
  PROVE  Recovers(encode_value_zero(x), x, decode_zero)
<1>1. /\ Reg \in Nat /\ Reg >= 4 /\ cfg.spill \in Nat /\ cfg.spill >= 2 /\ Reg \div 2 \in Nat
      /\ cfg.bits \in Nat /\ cfg.bits <= Reg /\ Reg \div 2 >= 1
  BY DEF CfgType, Valid, MIN_NON_IMA_SPILL
<1>2. PICK P \in Nat : P = pow2[cfg.bits] /\ P > 0 /\ x < P /\ P <= pow2[Reg] /\ pow2[Reg] \in Nat
  <2>1. pow2[cfg.bits] \in Nat /\ pow2[cfg.bits] > 0 /\ pow2[Reg] \in Nat
    BY <1>1, Pow2Positive
  <2>2. pow2[cfg.bits] <= pow2[Reg]
    BY <1>1, Pow2Monotone
  <2> QED
    BY <2>1, <2>2
<1>3. Len(stream) \in Nat
  OBVIOUS
<1>4. CASE x < cfg.spill - 1
  <2>1. Fits(x + 1) /\ <<>> \in Seq(Binary) /\ Len(<<>>) = 0
    BY <1>1, <1>4, SpillFits, x + 1 \in Nat
  <2>2. PICK sym : sym = Symbol(x + 1, <<>>)
    OBVIOUS
  <2>3. PICK len \in Nat :
           /\ sym.len = len /\ len <= Reg /\ sym.bits \in Seq(Binary)
           /\ Len(sym.bits) = len + 0
           /\ At(pos, sym.bits) =>
                /\ DecodeCodeWord(pos) = [value |-> x + 1, pos |-> pos + len]
                /\ pos + len <= Len(stream)
    BY <2>1, <2>2, SymbolDecodes, x + 1 \in Nat
  <2>4. encode_value_zero(x) = sym
    BY <1>4, <2>2 DEF encode_value_zero
  <2>5. ASSUME At(pos, sym.bits)
        PROVE  decode_zero = [value |-> x, pos |-> pos + Len(sym.bits), err |-> FALSE]
    <3>1. DecodeCodeWord(pos).value = x + 1 /\ DecodeCodeWord(pos).pos = pos + len
      BY <2>3, <2>5
    <3>2. x + 1 # 0 /\ ~ (x + 1 >= cfg.spill) /\ x + 1 - 1 = x
      BY <1>1, <1>4
    <3>3. ~ (pos + len > Len(stream))
      BY <1>3, <2>3, <2>5
    <3>4. decode_zero = Decoded(DecodeCodeWord(pos).value - 1, DecodeCodeWord(pos).pos)
      BY <3>1, <3>2 DEF decode_zero
    <3>5. decode_zero = [value |-> x, pos |-> pos + len, err |-> FALSE]
      <4>1. PICK e \in Nat : e = pos + len
        OBVIOUS
      <4>2. decode_zero = Decoded(x, e)
        BY <3>1, <3>2, <3>4, <4>1
      <4>3. Decoded(x, e) = [value |-> x, pos |-> e, err |-> FALSE]
        <5>1. e <= Len(stream)
          BY <1>3, <3>3, <4>1
        <5> QED
          BY <5>1, NoOverflow, Zenon
      <4> QED
        BY <4>1, <4>2, <4>3
    <3> QED
      BY <2>3, <3>5
  <2>6. At(pos, sym.bits) => pos + Len(sym.bits) <= Len(stream)
    BY <2>3
  <2> QED
    BY <2>3, <2>4, <2>5, <2>6 DEF Recovers
<1>5. CASE x >= cfg.spill - 1
  <2> DEFINE y == x + 1
             R == pow2[Reg]
  <2>1. PICK v \in Nat : v = y % R
    <3>1. y \in Nat /\ R \in Nat /\ R > 0
      BY <1>2
    <3> HIDE DEF y, R
    <3> QED
      BY <3>1, Division
  <2>2. PICK w \in Nat : w < P /\ PutBits(v, cfg.bits) = PutBits(w, cfg.bits) /\ (w - 1) % P = x
    <3>1. CASE x + 1 < P
      <4>1. v = x + 1
        <5>1. y \in Nat /\ R \in Nat /\ y < R
          BY <1>2, <3>1
        <5>2. v = y
          <6> HIDE DEF y, R
          <6> QED
            BY <2>1, <5>1, Small
        <5> QED
          BY <5>2
      <4>2. (v - 1) % P = x
        BY <1>2, <4>1, Small
      <4> QED
        BY <3>1, <4>1, <4>2
    <3>2. CASE x + 1 = P
      <4>1. v = P \/ v = 0
        <5>1. CASE P < pow2[Reg]
          BY <1>2, <2>1, <3>2, <5>1, Small
        <5>2. CASE P = pow2[Reg]
          <6>1. P = 1 * P + 0 /\ P \in Nat \ {0} /\ 0 \in 0 .. P - 1 /\ 1 \in Int
            BY <1>2
          <6>2. P % P = 0
            BY <6>1, DivModUnique
          <6> QED
            BY <2>1, <3>2, <5>2, <6>2
        <5> QED
          BY <1>2, <5>1, <5>2
      <4>2. PutBits(v, cfg.bits) = PutBits(0, cfg.bits)
        BY <1>1, <1>2, <4>1, PutWhole
      <4>3. (0 - 1) % P = x
        <5>1. PICK q \in Int, p \in 0 .. P - 1 : q = 0 - 1 /\ p = P - 1
          BY <1>2
        <5>2. q * P + p = 0 - 1
          BY <1>2, <5>1
        <5>3. (q * P + p) % P = p
          <6>1. P \in Nat \ {0}
            BY <1>2
          <6> QED
            BY <6>1, DivModUnique
        <5> QED
          BY <1>2, <3>2, <5>1, <5>2, <5>3
      <4> QED
        BY <1>2, <4>2, <4>3
    <3>3. x + 1 < P \/ x + 1 = P
      BY <1>2
    <3> QED
      BY <3>1, <3>2, <3>3, Zenon
  <2>3. PICK raw : raw = PutBits(w, cfg.bits)
    OBVIOUS
  <2>4. raw \in Seq(Binary) /\ Len(raw) = cfg.bits
    BY <1>1, <2>3, PutBitsType
  <2>5. Fits(0)
    BY <1>1, SpillFits, 0 \in Nat
  <2>6. PICK sym : sym = Symbol(0, raw)
    OBVIOUS
  <2>7. PICK len \in Nat :
           /\ sym.len = len /\ len <= Reg /\ sym.bits \in Seq(Binary)
           /\ Len(sym.bits) = len + Len(raw)
           /\ At(pos, sym.bits) =>
                /\ DecodeCodeWord(pos) = [value |-> 0, pos |-> pos + len]
                /\ At(pos + len, raw)
    BY <2>4, <2>5, <2>6, SymbolDecodes, 0 \in Nat
  <2>8. encode_value_zero(x) = sym
    <3>1. ~ (x < cfg.spill - 1)
      BY <1>1, <1>5
    <3> QED
      BY <2>1, <2>2, <2>3, <2>6, <3>1 DEF encode_value_zero
  <2>9. ASSUME At(pos, sym.bits)
        PROVE  /\ decode_zero = [value |-> x, pos |-> pos + Len(sym.bits), err |-> FALSE]
               /\ pos + Len(sym.bits) <= Len(stream)
    <3>1. DecodeCodeWord(pos).value = 0 /\ DecodeCodeWord(pos).pos = pos + len
      BY <2>7, <2>9
    <3>2. Peek(pos + len, cfg.bits) = w /\ pos + len + cfg.bits <= Len(stream)
      BY <1>1, <1>2, <2>2, <2>3, <2>7, <2>9, RawBits, pos + len \in Nat
    <3>3. (Peek(pos + len, cfg.bits) - 1) % pow2[cfg.bits] = x /\ ~ (x < cfg.spill - 1)
      BY <1>1, <1>2, <1>5, <2>2, <3>2
    <3>4. ~ (pos + len + cfg.bits > Len(stream))
      BY <1>1, <1>3, <3>2
    <3>5. decode_zero = Decoded((Peek(pos + len, cfg.bits) - 1) % pow2[cfg.bits],
                               pos + len + cfg.bits)
      BY <3>1, <3>3 DEF decode_zero
    <3>7. decode_zero = [value |-> x, pos |-> pos + len + cfg.bits, err |-> FALSE]
      <4>1. PICK e \in Nat : e = pos + len + cfg.bits
        BY <1>1
      <4>2. decode_zero = Decoded(x, e)
        BY <3>3, <3>5, <4>1
      <4>3. Decoded(x, e) = [value |-> x, pos |-> e, err |-> FALSE]
        <5>1. e <= Len(stream)
          BY <1>3, <3>4, <4>1
        <5> QED
          BY <5>1, NoOverflow, Zenon
      <4> QED
        BY <4>1, <4>2, <4>3
    <3>6. pos + Len(sym.bits) = pos + len + cfg.bits
      BY <1>1, <2>4, <2>7
    <3> QED
      BY <3>2, <3>6, <3>7
  <2> QED
    BY <2>7, <2>8, <2>9 DEF Recovers
<1> QED
  BY <1>1, <1>4, <1>5

\* The escape symbol for a value tells how many bits hold it.
LEMMA Escape ==
  ASSUME CfgType, NEW rest \in Nat, rest < pow2[cfg.bits], NEW o,
         o = IF rest = 0 THEN 0 ELSE ilog_2(rest) \div 2
  PROVE  /\ o \in Nat /\ rest < pow2[2 * (o + 1)]
         /\ o <= (Reg \div 2) - 1
         /\ 2 * (o + 1) <= 2 * ((cfg.bits + 1) \div 2)
         /\ o > 0 => pow2[2 * o] <= rest
<1>1. /\ Reg \in Nat /\ Reg >= 4 /\ Reg % 2 = 0
      /\ cfg.bits \in Nat /\ cfg.bits > 0 /\ cfg.bits <= Reg
  BY DEF CfgType
<1>2. pow2[cfg.bits] <= pow2[Reg] /\ pow2[cfg.bits] \in Nat /\ pow2[Reg] \in Nat
  BY <1>1, Pow2Positive, Pow2Monotone
<1>3. CASE rest = 0
  <2>1. 2 * (0 + 1) \in Nat /\ pow2[2 * (0 + 1)] \in Nat \ {0}
    BY Pow2Positive
  <2> QED
    BY <1>1, <1>3, <2>1
<1>4. CASE rest > 0
  <2>1. rest < pow2[Reg]
    BY <1>2
  <2>2. PICK l \in 0 .. Reg - 1 : l = ilog_2(rest) /\ pow2[l] <= rest /\ rest < pow2[l + 1]
    BY <1>4, <2>1, Log
  <2>3. l \in Nat /\ l < cfg.bits
    <3>1. l \in Nat
      BY <1>1
    <3>2. SUFFICES ASSUME cfg.bits <= l PROVE FALSE
      BY <1>1, <3>1
    <3>3. pow2[cfg.bits] <= pow2[l] /\ pow2[l] \in Nat
      BY <1>1, <3>1, <3>2, Pow2Monotone, Pow2Positive
    <3> QED
      BY <1>2, <2>2, <3>3
  <2>4. o = l \div 2 /\ o \in Nat /\ 2 * o <= l /\ l + 1 <= 2 * (o + 1)
    BY <1>4, <2>2, <2>3
  <2>5. PICK a \in Nat, b \in Nat, d \in Nat : a = 2 * o /\ b = 2 * (o + 1) /\ d = l + 1
    BY <2>3, <2>4
  <2>6. pow2[a] <= pow2[l] /\ pow2[d] <= pow2[b]
    BY <2>3, <2>4, <2>5, Pow2Monotone
  <2>7. /\ pow2[a] \in Nat /\ pow2[b] \in Nat /\ pow2[d] \in Nat /\ pow2[l] \in Nat
    BY <2>3, <2>5, Pow2Positive
  <2>8. pow2[a] <= rest /\ rest < pow2[b]
    BY <2>2, <2>5, <2>6, <2>7
  <2>9. o <= (Reg \div 2) - 1 /\ 2 * (o + 1) <= 2 * ((cfg.bits + 1) \div 2)
    BY <1>1, <2>3, <2>4
  <2> QED
    BY <2>4, <2>5, <2>8, <2>9
<1> QED
  BY <1>3, <1>4

\* Multi escape mechanism.
LEMMA MultiRecovers ==
  ASSUME CfgType, stream \in Seq(Binary), pos \in Nat, NEW x \in Nat, x < pow2[cfg.bits]
  PROVE  Recovers(encode_value_multi(x), x, decode_multi)
<1>1. /\ Reg \in Nat /\ Reg >= 4 /\ cfg.spill \in Nat /\ Reg \div 2 \in Nat
      /\ cfg.bits \in Nat /\ cfg.bits <= Reg /\ Reg \div 2 >= 1
  BY DEF CfgType, Valid, MIN_NON_IMA_SPILL
<1>2. pow2[cfg.bits] \in Nat /\ pow2[Reg] \in Nat /\ pow2[cfg.bits] <= pow2[Reg]
  BY <1>1, Pow2Positive, Pow2Monotone
<1>3. Len(stream) \in Nat
  OBVIOUS
<1>4. CASE x < cfg.spill
  <2>1. Fits(x) /\ <<>> \in Seq(Binary) /\ Len(<<>>) = 0
    BY <1>1, <1>4, SpillFits
  <2>2. PICK sym : sym = Symbol(x, <<>>)
    OBVIOUS
  <2>3. PICK len \in Nat :
           /\ sym.len = len /\ len <= Reg /\ sym.bits \in Seq(Binary)
           /\ Len(sym.bits) = len + 0
           /\ At(pos, sym.bits) =>
                /\ DecodeCodeWord(pos) = [value |-> x, pos |-> pos + len]
                /\ pos + len <= Len(stream)
    BY <2>1, <2>2, SymbolDecodes
  <2>4. encode_value_multi(x) = sym
    BY <1>4, <2>2 DEF encode_value_multi
  <2>5. ASSUME At(pos, sym.bits)
        PROVE  decode_multi = [value |-> x, pos |-> pos + Len(sym.bits), err |-> FALSE]
    <3>1. DecodeCodeWord(pos).value = x /\ DecodeCodeWord(pos).pos = pos + len
      BY <2>3, <2>5
    <3>2. PICK e \in Nat : e = pos + len
      OBVIOUS
    <3>3. e <= Len(stream)
      BY <2>3, <2>5, <3>2
    <3>4. decode_multi = Decoded(x, e)
      BY <1>4, <3>1, <3>2 DEF decode_multi
    <3>5. Decoded(x, e) = [value |-> x, pos |-> e, err |-> FALSE]
      BY <3>3, NoOverflow, Zenon
    <3> QED
      BY <2>3, <3>2, <3>4, <3>5
  <2>6. At(pos, sym.bits) => pos + Len(sym.bits) <= Len(stream)
    BY <2>3
  <2> QED
    BY <2>3, <2>4, <2>5, <2>6 DEF Recovers
<1>5. CASE x >= cfg.spill
  <2>1. PICK rest \in Nat : rest = x - cfg.spill /\ rest < pow2[cfg.bits]
    BY <1>1, <1>2, <1>5
  <2>2. PICK o : o = IF rest = 0 THEN 0 ELSE ilog_2(rest) \div 2
    OBVIOUS
  <2>3. /\ o \in Nat /\ rest < pow2[2 * (o + 1)]
        /\ o <= (Reg \div 2) - 1
        /\ 2 * (o + 1) <= 2 * ((cfg.bits + 1) \div 2)
        /\ o > 0 => pow2[2 * o] <= rest
    BY <2>1, <2>2, Escape
  <2>4. PICK n \in Nat : n = 2 * (o + 1) /\ rest < pow2[n]
    BY <2>3
  <2>5. PICK esc \in Nat : esc = cfg.spill + o
    BY <1>1, <2>3
  <2>6. Fits(esc)
    BY <1>1, <2>3, <2>5, SpillFits
  <2>7. PICK raw : raw = PutBits(rest, n)
    OBVIOUS
  <2>8. raw \in Seq(Binary) /\ Len(raw) = n
    BY <2>7, PutBitsType
  <2>9. PICK sym : sym = Symbol(esc, raw)
    OBVIOUS
  <2>10. PICK len \in Nat :
           /\ sym.len = len /\ len <= Reg /\ sym.bits \in Seq(Binary)
           /\ Len(sym.bits) = len + Len(raw)
           /\ At(pos, sym.bits) =>
                /\ DecodeCodeWord(pos) = [value |-> esc, pos |-> pos + len]
                /\ At(pos + len, raw)
    BY <2>6, <2>8, <2>9, SymbolDecodes
  <2>11. encode_value_multi(x) = sym
    <3>1. ~ (x < cfg.spill)
      BY <1>1, <1>5
    <3> QED
      BY <2>1, <2>2, <2>4, <2>5, <2>7, <2>9, <3>1 DEF encode_value_multi
  <2>12. ASSUME At(pos, sym.bits)
         PROVE  /\ decode_multi = [value |-> x, pos |-> pos + Len(sym.bits), err |-> FALSE]
                /\ pos + Len(sym.bits) <= Len(stream)
    <3>1. DecodeCodeWord(pos).value = esc /\ DecodeCodeWord(pos).pos = pos + len
      BY <2>10, <2>12
    <3>2. Peek(pos + len, n) = rest /\ pos + len + n <= Len(stream)
      BY <2>4, <2>7, <2>10, <2>12, RawBits, pos + len \in Nat
    <3>3. ~ (esc < cfg.spill) /\ 2 * (esc - cfg.spill + 1) = n
      BY <1>1, <2>3, <2>4, <2>5
    <3>4. ~ (n > 2 * ((cfg.bits + 1) \div 2))
      BY <1>1, <2>3, <2>4
    <3>5. ~ (n > 2 /\ rest \div pow2[n - 2] = 0)
      <4>1. SUFFICES ASSUME n > 2 PROVE rest \div pow2[n - 2] # 0
        OBVIOUS
      <4>2. n - 2 = 2 * o /\ o > 0 /\ n - 2 \in Nat
        BY <2>3, <2>4, <4>1
      <4>3. PICK D \in Nat \ {0} : D = pow2[n - 2] /\ D <= rest
        BY <2>3, <4>2, Pow2Positive
      <4>4. rest \div D \in Nat /\ rest % D \in 0 .. D - 1 /\ rest = (rest \div D) * D + (rest % D)
        <5>1. D > 0
          OBVIOUS
        <5> QED
          BY <5>1, Division
      <4>5. rest \div D # 0
        BY <4>3, <4>4
      <4> QED
        BY <4>3, <4>5
    <3>6. rest + cfg.spill = x /\ x % pow2[Reg] = x /\ x % pow2[cfg.bits] = x
      <4>1. PICK P \in Nat, R \in Nat : P = pow2[cfg.bits] /\ R = pow2[Reg] /\ x < P /\ x < R
        BY <1>2
      <4>2. x % P = x /\ x % R = x
        BY <4>1, Small
      <4>3. rest + cfg.spill = x
        BY <1>1, <2>1
      <4> QED
        BY <4>1, <4>2, <4>3, Zenon
    <3>7. ~ (x < cfg.spill)
      BY <1>1, <1>5
    <3>8. PICK e \in Nat : e = pos + len + n
      OBVIOUS
    <3>9. decode_multi = Decoded(x, e)
      BY <3>1, <3>2, <3>3, <3>4, <3>5, <3>6, <3>7, <3>8 DEF decode_multi
    <3>10. e <= Len(stream)
      BY <3>2, <3>8
    <3>11. Decoded(x, e) = [value |-> x, pos |-> e, err |-> FALSE]
      BY <3>10, NoOverflow, Zenon
    <3>12. pos + Len(sym.bits) = e
      BY <2>8, <2>10, <3>8
    <3> QED
      BY <3>9, <3>10, <3>11, <3>12
  <2> QED
    BY <2>10, <2>11, <2>12 DEF Recovers
<1> QED
  BY <1>1, <1>4, <1>5

-----------------------------------------------------------------------------
(* Residuals and rounding *)

\* A quotient of a number with itself as a factor.
LEMMA RoundAgain ==
  ASSUME CfgType, NEW d \in Nat
  PROVE  /\ RoundFwd(d) \in Nat /\ RoundFwd(d) <= d
         /\ RoundInv(RoundFwd(d)) \in Nat /\ RoundInv(RoundFwd(d)) <= d
         /\ RoundFwd(RoundInv(RoundFwd(d))) = RoundFwd(d)
<1>1. PICK R \in Nat \ {0} : R = pow2[cfg.round]
  <2>1. cfg.round \in Nat
    BY DEF CfgType
  <2> QED
    BY <2>1, Pow2Positive
<1>2. PICK q \in Nat : q = d \div R
  BY Division
<1>3. PICK r \in 0 .. R - 1 : d = q * R + r
  <2>1. d % R \in 0 .. R - 1 /\ d = (d \div R) * R + (d % R)
    BY Division
  <2> QED
    BY <1>2, <2>1
<1>4. q * R \in Nat /\ q * R <= d /\ q <= q * R
  <2>1. q * R \in Nat /\ q <= q * R
    BY Products
  <2>2. r \in Nat
    OBVIOUS
  <2> QED
    BY <1>3, <2>1, <2>2
<1>5. (q * R) \div R = q
  <2>1. q * R = q * R + 0 /\ 0 \in 0 .. R - 1
    BY <1>4
  <2> QED
    BY <2>1, DivModUnique
<1>6. RoundFwd(d) = q /\ RoundInv(q) = q * R /\ RoundFwd(q * R) = q
  BY <1>1, <1>2, <1>5 DEF RoundFwd, RoundInv
<1> QED
  BY <1>4, <1>6

\* The residual leads back to the value, modulo 2^bits.
LEMMA Residual ==
  ASSUME CfgType, NEW d \in Nat, NEW m \in Nat, d < pow2[cfg.bits]
  PROVE  /\ MapToPos(d - m) \in Nat /\ MapToPos(d - m) < pow2[cfg.bits]
         /\ (re_map_to_pos(MapToPos(d - m)) + m) % pow2[cfg.bits] = d
<1>1. PICK H \in Nat \ {0}, P \in Nat \ {0} :
        H = pow2[cfg.bits - 1] /\ P = pow2[cfg.bits] /\ P = 2 * H
  <2>1. PICK b \in Nat : b = cfg.bits - 1 /\ cfg.bits = b + 1
    BY DEF CfgType
  <2> QED
    BY <2>1, Pow2Def, Pow2Positive
<1>2. PICK x \in Int : x = d - m
  OBVIOUS
<1>3. PICK u \in 0 .. P - 1 : u = x % P
  BY DivMod
<1>4. PICK k \in Int : x = k * P + u
  BY <1>3, DivMod
<1>5. MapToPos(d - m) = IF u >= H THEN (P - u) * 2 - 1 ELSE u * 2
  BY <1>1, <1>2, <1>3 DEF MapToPos
<1>6. PICK y \in Nat : y = MapToPos(d - m) /\ y < P
  BY <1>1, <1>5
<1>7. re_map_to_pos(y) = u \/ re_map_to_pos(y) = u - P
  <2>1. CASE u >= H
    <3>1. y = (P - u) * 2 - 1
      BY <1>5, <1>6, <2>1
    <3>2. y % 2 = 1 /\ (y + 1) \div 2 = P - u
      BY <3>1
    <3> QED
      BY <3>2 DEF re_map_to_pos
  <2>2. CASE u < H
    <3>1. y = u * 2
      BY <1>5, <1>6, <2>2
    <3>2. y % 2 = 0 /\ y \div 2 = u
      BY <3>1
    <3> QED
      BY <3>2 DEF re_map_to_pos
  <2> QED
    BY <2>1, <2>2
<1>8. PICK j \in Int : re_map_to_pos(y) + m = j * P + d
  <2>1. PICK a \in Int, b \in Int : a = - k /\ b = - k - 1
    OBVIOUS
  <2>4. k * P = x - u /\ a * P = - (k * P) /\ b * P = - (k * P) - P
    BY <1>4, <2>1
  <2>2. CASE re_map_to_pos(y) = u
    <3>1. u + m = a * P + d
      BY <1>2, <2>4
    <3> QED
      BY <2>2, <3>1
  <2>3. CASE re_map_to_pos(y) = u - P
    <3>1. u - P + m = b * P + d
      BY <1>2, <2>4
    <3> QED
      BY <2>3, <3>1
  <2> QED
    BY <1>7, <2>2, <2>3
<1>9. d \in 0 .. P - 1
  BY <1>1
<1>10. (j * P + d) % P = d
  BY <1>9, DivModUnique
<1> QED
  BY <1>1, <1>6, <1>8, <1>10

-----------------------------------------------------------------------------
(* The inductive invariant: the symbols of the samples lie in the stream    *)
(* one behind the other, and the decoder is between two of them.            *)

SymbolOf(x) == IF cfg.zero THEN encode_value_zero(x) ELSE encode_value_multi(x)
NearModel(i) == IF cfg.model_mode THEN model[i] ELSE IF i = 1 THEN 0 ELSE data[i - 1]
Value(i) == MapToPos(RoundFwd(data[i]) - RoundFwd(NearModel(i)))
Begin(i) == IF i = 1 THEN 0 ELSE ends[i - 1]

\* Sample i is encoded behind the sample before it.
Encoded(i) ==
  /\ At(Begin(i), SymbolOf(Value(i)).bits)
  /\ ends[i] = Begin(i) + Len(SymbolOf(Value(i)).bits)
  /\ cws[i] <= Reg
  /\ cfg.model_mode => up[i] = UpModel(data[i], model[i])

EncoderType ==
  /\ data \in Seq(0 .. pow2[cfg.bits] - 1) /\ Len(data) <= Samples
  /\ stream \in Seq(Binary) /\ ends \in Seq(Nat) /\ cws \in Seq(Nat)
  /\ Len(ends) = Len(data) /\ Len(cws) = Len(data)
  /\ model \in Seq(Nat) /\ up \in Seq(Nat)
  /\ Len(model) = IF cfg.model_mode THEN Len(data) ELSE 0
  /\ Len(up) = Len(model)

DecoderType ==
  /\ pos \in Nat /\ got \in Seq(Nat) /\ got_up \in Seq(Nat)
  /\ Len(got) <= Samples
  /\ Len(got_up) = IF cfg.model_mode THEN Len(got) ELSE 0
  /\ pc \in {"encode", "decode", "done"}

EncoderInv ==
  /\ \A i \in 1 .. Len(data) : Encoded(i)
  /\ pc = "encode" => Len(stream) = Begin(Len(data) + 1) /\ got = <<>>
  /\ pc # "encode" => Len(data) = Samples

DecoderInv ==
  /\ Len(got) <= Len(data)
  /\ pos = Begin(Len(got) + 1)
  /\ \A i \in 1 .. Len(got) : /\ got[i] = RoundInv(RoundFwd(data[i]))
                              /\ cfg.model_mode => got_up[i] = up[i]

CodecInv == CfgType /\ EncoderType /\ DecoderType /\ EncoderInv /\ DecoderInv

\* What is computed depends on the parameters only.
LEMMA CfgKept ==
  ASSUME cfg' = cfg
  PROVE  /\ CfgType' = CfgType
         /\ \A x : RoundFwd(x)' = RoundFwd(x) /\ RoundInv(x)' = RoundInv(x)
         /\ \A x : MapToPos(x)' = MapToPos(x) /\ SymbolOf(x)' = SymbolOf(x)
         /\ \A x, y : UpModel(x, y)' = UpModel(x, y)
<1>1. \A x : ilog_2(x)' = ilog_2(x)
  BY DEF ilog_2, Reg
<1>2. \A x : CodeWord(x)' = CodeWord(x)
  BY <1>1 DEF CodeWord, is_a_pow_of_2, rice_encoder, golomb_encoder, Cutoff
<1>3. \A x : SymbolOf(x)' = SymbolOf(x)
  <2>1. \A x, raw : Symbol(x, raw)' = Symbol(x, raw)
    BY <1>2 DEF Symbol
  <2>2. \A x : encode_value_zero(x)' = encode_value_zero(x)
    BY <2>1 DEF encode_value_zero, Reg
  <2>3. ASSUME NEW x PROVE encode_value_multi(x)' = encode_value_multi(x)
    BY <1>1, <2>1 DEF encode_value_multi
  <2> QED
    BY <2>2, <2>3 DEF SymbolOf
<1>4. CfgType' = CfgType
  BY <1>1 DEF CfgType, Valid, MaxSpill, Cutoff, Reg
<1> QED
  BY <1>3, <1>4 DEF RoundFwd, RoundInv, MapToPos, UpModel

\* Either escape mechanism.
LEMMA SymbolRecovers ==
  ASSUME CfgType, stream \in Seq(Binary), pos \in Nat, NEW x \in Nat, x < pow2[cfg.bits]
  PROVE  Recovers(SymbolOf(x), x, IF cfg.zero THEN decode_zero ELSE decode_multi)
BY ZeroRecovers, MultiRecovers DEF SymbolOf

\* The updated model, and that the decoder gets the same.
LEMMA UpModelFacts ==
  ASSUME CfgType, NEW d \in Nat, NEW m \in Nat
  PROVE  UpModel(d, m) \in Nat /\ UpModel(RoundInv(RoundFwd(d)), m) = UpModel(d, m)
<1>1. PICK w \in 0 .. 16 : w = cfg.weight
  BY DEF CfgType, MAX_MODEL_VALUE
<1>2. PICK r \in Nat : r = RoundInv(RoundFwd(d)) /\ RoundInv(RoundFwd(r)) = r
  BY RoundAgain
<1>3. UpModel(d, m) = (m * w + r * (16 - w)) \div 16
  BY <1>1, <1>2 DEF UpModel, MAX_MODEL_VALUE
<1>4. PICK a \in Nat, b \in Nat : a = m * w /\ b = r * (16 - w)
  BY <1>1, Products, 16 - w \in Nat
<1>5. (a + b) \div 16 \in Nat
  OBVIOUS
<1> QED
  BY <1>1, <1>2, <1>3, <1>4, <1>5 DEF UpModel, MAX_MODEL_VALUE

\* The symbols of the samples are bits, and short enough.
LEMMA SymbolType ==
  ASSUME CfgType, stream \in Seq(Binary), pos \in Nat, NEW d \in Nat, NEW m \in Nat,
         d < pow2[cfg.bits]
  PROVE  LET s == SymbolOf(MapToPos(RoundFwd(d) - RoundFwd(m)))
         IN  s.bits \in Seq(Binary) /\ s.len \in Nat /\ s.len <= Reg
<1>1. PICK f \in Nat, g \in Nat : f = RoundFwd(d) /\ g = RoundFwd(m) /\ f < pow2[cfg.bits]
  <2>1. pow2[cfg.bits] \in Nat
    BY Pow2Positive DEF CfgType
  <2>2. RoundFwd(d) \in Nat /\ RoundFwd(d) <= d
    BY RoundAgain
  <2>3. RoundFwd(m) \in Nat
    BY RoundAgain
  <2> QED
    BY <2>1, <2>2, <2>3
<1>2. PICK x \in Nat : x = MapToPos(f - g) /\ x < pow2[cfg.bits]
  BY <1>1, Residual
<1> QED
  BY <1>1, <1>2, SymbolRecovers DEF Recovers

\* Nothing is encoded yet.
LEMMA InitCodec == Init => CodecInv
<1> SUFFICES ASSUME Init PROVE CodecInv
  OBVIOUS
<1>1. PICK n \in Regs, m \in Par :
       cfg \in [reg : {n}, zero : BOOLEAN, model_mode : BOOLEAN, par : {m},
                spill : MIN_NON_IMA_SPILL .. n * m, bits : Bits, round : Round,
                weight : Weight]
  BY DEF Init
<1>2. n \in Nat /\ n >= 4 /\ n % 2 = 0 /\ m \in Nat /\ m > 0
  BY RegAssumption, RangeAssumption
<1>3. n * m \in Nat
  BY <1>2
<1>4. CfgType
  <2>1. cfg.reg = n /\ cfg.par = m /\ cfg.zero \in BOOLEAN /\ cfg.model_mode \in BOOLEAN
    BY <1>1
  <2>2. cfg.spill \in Nat
    BY <1>1, <1>3 DEF MIN_NON_IMA_SPILL
  <2>3. cfg.bits \in Nat /\ cfg.bits > 0 /\ cfg.round \in Nat /\ cfg.weight \in 0 .. MAX_MODEL_VALUE
    <3>1. cfg.bits \in Bits /\ cfg.round \in Round /\ cfg.weight \in Weight
      BY <1>1
    <3> QED
      <4>1. cfg.bits \in Nat \ {0}
        BY <3>1, RangeAssumption
      <4>2. cfg.round \in Nat
        BY <3>1, RangeAssumption
      <4>3. cfg.weight \in 0 .. MAX_MODEL_VALUE
        BY <3>1, RangeAssumption
      <4> QED
        BY <4>1, <4>2, <4>3
  <2> QED
    BY <1>2, <2>1, <2>2, <2>3 DEF Init, CfgType, Reg
<1>5. /\ data = <<>> /\ model = <<>> /\ stream = <<>> /\ ends = <<>> /\ cws = <<>>
      /\ up = <<>> /\ pos = 0 /\ got = <<>> /\ got_up = <<>> /\ pc = "encode"
  BY DEF Init
<1>6. \A S : <<>> \in Seq(S)
  OBVIOUS
<1>7. Samples \in Nat
  BY RangeAssumption
<1>8. EncoderType
  BY <1>4, <1>5, <1>6, <1>7 DEF EncoderType
<1>9. DecoderType
  BY <1>4, <1>5, <1>6, <1>7 DEF DecoderType
<1>10. EncoderInv /\ DecoderInv
  BY <1>5 DEF EncoderInv, DecoderInv, Begin
<1> QED
  BY <1>4, <1>8, <1>9, <1>10 DEF CodecInv

\* What lies in the stream stays there when bits follow.
LEMMA Behind ==
  ASSUME NEW p \in Nat, NEW more \in Seq(Binary), stream \in Seq(Binary),
         stream' = stream \o more
  PROVE  /\ stream' \in Seq(Binary) /\ Len(stream') = Len(stream) + Len(more)
         /\ \A s \in Seq(Binary) : /\ At(p, s) => At(p, s)'
                                   /\ p = Len(stream) /\ s = more => At(p, s)'
BY DEF At

\* A step that leaves the samples encoded so far alone.
Kept == /\ cfg' = cfg
        /\ \A i \in 1 .. Len(data) : /\ data'[i] = data[i] /\ ends'[i] = ends[i] /\ cws'[i] = cws[i]
                                     /\ cfg.model_mode => model'[i] = model[i] /\ up'[i] = up[i]

\* What is true of an encoded sample remains true.
LEMMA EncodedKept ==
  ASSUME CodecInv, Kept, NEW more \in Seq(Binary), stream' = stream \o more,
         NEW i \in 1 .. Len(data)
  PROVE  Encoded(i)' /\ Begin(i)' = Begin(i) /\ Begin(i + 1)' = Begin(i + 1)
<1>1. data \in Seq(0 .. pow2[cfg.bits] - 1) /\ ends \in Seq(Nat) /\ Len(ends) = Len(data)
      /\ stream \in Seq(Binary) /\ Encoded(i)
  BY DEF CodecInv, EncoderType, EncoderInv
<1>2. PICK n \in Nat : n = Len(data)
  BY <1>1
<1>3. i \in 1 .. n /\ (i = 1 \/ i - 1 \in 1 .. n)
  BY <1>2
<1>4. PICK b \in Nat : Begin(i) = b /\ Begin(i)' = b
  <2>1. CASE i = 1
    BY <2>1 DEF Begin
  <2>2. CASE i # 1
    <3>1. i - 1 \in 1 .. Len(data) /\ ends[i - 1] \in Nat
      BY <1>1, <1>2, <1>3, <2>2
    <3> QED
      BY <2>2, <3>1 DEF Begin, Kept
  <2> QED
    BY <2>1, <2>2
<1>5. NearModel(i)' = NearModel(i)
  <2>1. CASE cfg.model_mode
    BY <2>1 DEF NearModel, Kept
  <2>2. CASE ~ cfg.model_mode
    BY <1>2, <1>3, <2>2 DEF NearModel, Kept
  <2> QED
    BY <2>1, <2>2
<1>6. PICK v : Value(i) = v /\ Value(i)' = v
  BY <1>5 DEF Value, MapToPos, RoundFwd, Kept
<1>7. PICK sym : sym = SymbolOf(v) /\ sym = SymbolOf(v)'
  BY CfgKept DEF Kept
<1>8. At(b, sym.bits) => At(b, sym.bits)'
  BY <1>1, <1>7 DEF At
<1>9. At(Begin(i), SymbolOf(Value(i)).bits) => At(Begin(i), SymbolOf(Value(i)).bits)'
  BY <1>4, <1>6, <1>7, <1>8
<1>10. (ends[i] = Begin(i) + Len(SymbolOf(Value(i)).bits))
          => (ends[i] = Begin(i) + Len(SymbolOf(Value(i)).bits))'
  BY <1>4, <1>6, <1>7 DEF Kept
<1>11. (cws[i] <= Reg)' = (cws[i] <= Reg)
  BY DEF Reg, Kept
<1>12. (cfg.model_mode => up[i] = UpModel(data[i], model[i]))
          => (cfg.model_mode => up[i] = UpModel(data[i], model[i]))'
  BY DEF UpModel, RoundFwd, RoundInv, Kept
<1>13. Encoded(i)'
  BY <1>1, <1>9, <1>10, <1>11, <1>12 DEF Encoded
<1>14. Begin(i + 1)' = Begin(i + 1)
  BY <1>2, <1>3 DEF Begin, Kept
<1> QED
  BY <1>4, <1>13, <1>14

\* One more element.
LEMMA Appended ==
  ASSUME NEW S, NEW q \in Seq(S), NEW e, NEW r, r = Append(q, e)
  PROVE  /\ Len(q) \in Nat /\ Len(r) = Len(q) + 1 /\ r[Len(q) + 1] = e
         /\ \A i \in 1 .. Len(q) : r[i] = q[i] /\ q[i] \in S
OBVIOUS

\* compress_imagette puts the symbol of the next sample behind the others.
LEMMA EncodeStep ==
  ASSUME CodecInv, NEW d \in 0 .. pow2[cfg.bits] - 1, NEW m \in Nat, Encode(d, m)
  PROVE  CodecInv'
<1> DEFINE n == Len(data)
           near == NextModel(m, data)
<1>1. /\ CfgType /\ EncoderType /\ DecoderType /\ EncoderInv /\ DecoderInv
      /\ pc = "encode" /\ n < Samples
  BY DEF CodecInv, Encode
<1>2. /\ data \in Seq(0 .. pow2[cfg.bits] - 1) /\ n \in Nat
      /\ stream \in Seq(Binary) /\ ends \in Seq(Nat) /\ cws \in Seq(Nat)
      /\ Len(ends) = n /\ Len(cws) = n
      /\ model \in Seq(Nat) /\ up \in Seq(Nat)
      /\ Len(model) = (IF cfg.model_mode THEN n ELSE 0)
      /\ Len(up) = Len(model)
  BY <1>1 DEF EncoderType
<1>3. pow2[cfg.bits] \in Nat /\ d \in Nat /\ d < pow2[cfg.bits]
  <2>1. pow2[cfg.bits] \in Nat
    BY <1>1, Pow2Positive DEF CfgType
  <2> QED
    BY <2>1
<1>4. near \in Nat
  <2>1. PICK P \in Nat : P = pow2[cfg.bits]
    BY <1>3
  <2>2. \A i \in 1 .. n : data[i] \in 0 .. P - 1
    <3>1. data \in Seq(0 .. P - 1)
      BY <1>2, <2>1
    <3> QED
      BY <3>1
  <2>3. \A i \in 1 .. n : data[i] \in Nat
    BY <2>2
  <2> QED
    BY <1>2, <2>3 DEF NextModel
<1>5. PICK x : x = MapToPos(RoundFwd(d) - RoundFwd(near))
  OBVIOUS
<1>6. PICK sym : sym = SymbolOf(x)
  OBVIOUS
<1>7. sym.bits \in Seq(Binary) /\ sym.len \in Nat /\ sym.len <= Reg
  <2>1. pos \in Nat
    BY <1>1 DEF DecoderType
  <2> QED
    BY <1>1, <1>2, <1>3, <1>4, <1>5, <1>6, <2>1, SymbolType
<1>8. sym = encode_value(d, near)
  BY <1>5, <1>6 DEF encode_value, SymbolOf
<1>9. /\ stream' = stream \o sym.bits /\ cws' = Append(cws, sym.len)
      /\ ends' = Append(ends, Len(stream')) /\ data' = Append(data, d)
      /\ cfg' = cfg /\ pc' = pc /\ pos' = pos /\ got' = got /\ got_up' = got_up
      /\ cfg.model_mode => model' = Append(model, m) /\ up' = Append(up, UpModel(d, m))
      /\ ~ cfg.model_mode => model' = model /\ up' = up
  BY <1>8 DEF Encode, decoder
<1>10. /\ stream' \in Seq(Binary) /\ Len(stream') = Len(stream) + Len(sym.bits)
       /\ Len(stream) \in Nat /\ Len(stream') \in Nat
  <2>1. stream' = stream \o sym.bits
    BY <1>9
  <2> QED
    BY <1>2, <1>7, <2>1
<1>11. Kept
  <2> SUFFICES ASSUME NEW i \in 1 .. n
               PROVE  /\ data'[i] = data[i] /\ ends'[i] = ends[i] /\ cws'[i] = cws[i]
                      /\ cfg.model_mode => model'[i] = model[i] /\ up'[i] = up[i]
    BY <1>9 DEF Kept
  <2>1. data'[i] = data[i] /\ ends'[i] = ends[i] /\ cws'[i] = cws[i]
    <3>1. data' = Append(data, d) /\ ends' = Append(ends, Len(stream')) /\ cws' = Append(cws, sym.len)
      BY <1>9
    <3>2. i \in 1 .. Len(data) /\ i \in 1 .. Len(ends) /\ i \in 1 .. Len(cws)
      BY <1>2
    <3>3. data'[i] = data[i]
      BY <1>2, <3>1, <3>2, Appended
    <3>4. ends'[i] = ends[i]
      BY <1>2, <3>1, <3>2, Appended
    <3>5. cws'[i] = cws[i]
      BY <1>2, <3>1, <3>2, Appended
    <3> QED
      BY <3>3, <3>4, <3>5
  <2>2. cfg.model_mode => model'[i] = model[i] /\ up'[i] = up[i]
    BY <1>2, <1>9
  <2> QED
    BY <2>1, <2>2
<1>12. UpModel(d, m) \in Nat
  BY <1>1, <1>3, UpModelFacts
<1>13. \A i \in 1 .. n : Encoded(i)' /\ Begin(i)' = Begin(i) /\ Begin(i + 1)' = Begin(i + 1)
  BY <1>7, <1>9, <1>11, EncodedKept
<1>14. n + 1 \in 1 .. n + 1 /\ Len(data') = n + 1 /\ data'[n + 1] = d /\ ends'[n + 1] = Len(stream')
       /\ cws'[n + 1] = sym.len /\ Len(ends') = n + 1 /\ Len(cws') = n + 1
  <2>1. Len(data') = n + 1 /\ data'[n + 1] = d
    BY <1>2, <1>9
  <2>2. Len(ends') = n + 1 /\ ends'[n + 1] = Len(stream')
    <3>1. ends' = Append(ends, Len(stream')) /\ ends \in Seq(Nat) /\ Len(ends) = n
      BY <1>2, <1>9
    <3>2. Len(ends') = Len(ends) + 1 /\ ends'[Len(ends) + 1] = Len(stream')
      BY <3>1, Appended
    <3> QED
      BY <3>1, <3>2
  <2>3. Len(cws') = n + 1 /\ cws'[n + 1] = sym.len
    BY <1>2, <1>9
  <2> QED
    BY <1>2, <2>1, <2>2, <2>3
<1>15. PICK k \in Nat : k = n /\ k + 1 = Len(data')
  BY <1>2, <1>14
<1>16. PICK b \in Nat : b = Len(stream) /\ Begin(k + 1) = b /\ Begin(k + 1)' = b
  <2>1. Begin(k + 1) = Len(stream)
    BY <1>1, <1>15 DEF EncoderInv
  <2>2. Begin(k + 1)' = Begin(k + 1)
    <3>1. k + 1 # 1 => k \in 1 .. k /\ k + 1 - 1 = k
      OBVIOUS
    <3>2. k + 1 # 1 => ends'[k + 1 - 1] = ends[k + 1 - 1]
      BY <1>11, <1>15, <3>1 DEF Kept
    <3> QED
      BY <3>2 DEF Begin
  <2> QED
    BY <1>10, <2>1, <2>2
<1>17. NearModel(k + 1)' = near
  <2>1. CASE cfg.model_mode
    BY <1>2, <1>9, <1>15, <2>1 DEF NearModel, NextModel
  <2>2. CASE ~ cfg.model_mode
    BY <1>2, <1>9, <1>15, <2>2 DEF NearModel, NextModel
  <2> QED
    BY <2>1, <2>2
<1>18. Value(k + 1)' = x
  BY <1>5, <1>9, <1>14, <1>15, <1>17 DEF Value, MapToPos, RoundFwd
<1>19. SymbolOf(x)' = sym
  BY <1>6, <1>9, CfgKept
<1>20. Encoded(k + 1)'
  <2>1. At(b, sym.bits)'
    BY <1>2, <1>7, <1>9, <1>16, Behind
  <2>2. At(Begin(k + 1), SymbolOf(Value(k + 1)).bits)'
    <3>1. Begin(k + 1)' = b
      BY <1>16
    <3>2. SymbolOf(Value(k + 1))' = sym
      BY <1>18, <1>19
    <3> QED
      BY <2>1, <3>1, <3>2
  <2>3. (ends[k + 1] = Begin(k + 1) + Len(SymbolOf(Value(k + 1)).bits))'
    <3>1. Begin(k + 1)' = b
      BY <1>16
    <3>2. SymbolOf(Value(k + 1))' = sym
      BY <1>18, <1>19
    <3>3. ends'[k + 1] = b + Len(sym.bits)
      BY <1>10, <1>14, <1>16, <1>15
    <3> QED
      BY <3>1, <3>2, <3>3
  <2>4. (cws[k + 1] <= Reg)'
    BY <1>7, <1>9, <1>14, <1>15 DEF Reg
  <2>5. (cfg.model_mode => up[k + 1] = UpModel(data[k + 1], model[k + 1]))'
    <3> SUFFICES ASSUME cfg.model_mode
                 PROVE  up'[k + 1] = UpModel(data[k + 1], model[k + 1])'
      BY <1>9
    <3>1. up'[k + 1] = UpModel(d, m) /\ model'[k + 1] = m /\ data'[k + 1] = d
      BY <1>2, <1>9, <1>14, <1>15
    <3> QED
      BY <1>9, <3>1 DEF UpModel, RoundFwd, RoundInv
  <2> QED
    BY <2>2, <2>3, <2>4, <2>5 DEF Encoded
<1>21. CfgType'
  BY <1>1, <1>9, CfgKept
<1>22. EncoderType'
  <2>1. data' \in Seq(0 .. pow2[cfg.bits] - 1)'
    BY <1>2, <1>9
  <2>2. Len(data') <= Samples
    BY <1>1, <1>2, <1>14, RangeAssumption
  <2>3. ends' \in Seq(Nat) /\ cws' \in Seq(Nat)
    BY <1>2, <1>7, <1>9, <1>10
  <2>4. /\ model' \in Seq(Nat) /\ up' \in Seq(Nat)
        /\ Len(model') = IF cfg'.model_mode THEN Len(data') ELSE 0
        /\ Len(up') = Len(model')
    <3>1. CASE cfg.model_mode
      <4>1. model' = Append(model, m) /\ Len(model) = n /\ model \in Seq(Nat)
        BY <1>2, <1>9, <3>1
      <4>2. up' = Append(up, UpModel(d, m)) /\ Len(up) = n /\ up \in Seq(Nat)
        BY <1>2, <1>9, <3>1
      <4>3. model' \in Seq(Nat) /\ Len(model') = n + 1
        BY <4>1
      <4>4. up' \in Seq(Nat) /\ Len(up') = n + 1
        BY <1>12, <4>2
      <4> QED
        BY <1>9, <1>14, <3>1, <4>3, <4>4
    <3>2. CASE ~ cfg.model_mode
      BY <1>2, <1>9, <3>2
    <3> QED
      BY <3>1, <3>2
  <2> QED
    BY <1>10, <1>14, <2>1, <2>2, <2>3, <2>4 DEF EncoderType
<1>23. DecoderType'
  BY <1>1, <1>9 DEF DecoderType
<1>24. EncoderInv'
  <2>1. \A i \in 1 .. k + 1 : Encoded(i)'
    BY <1>13, <1>15, <1>20
  <2>2. Len(stream') = Begin(k + 2)'
    BY <1>14, <1>15 DEF Begin
  <2>3. got = <<>> /\ pc' = "encode"
    BY <1>1, <1>9 DEF EncoderInv
  <2> QED
    BY <1>9, <1>15, <2>1, <2>2, <2>3 DEF EncoderInv
<1>25. DecoderInv'
  <2>1. got' = <<>> /\ pos' = 0
    BY <1>1, <1>9 DEF EncoderInv, DecoderInv, Begin
  <2> QED
    BY <1>15, <2>1 DEF DecoderInv, Begin
<1> QED
  BY <1>21, <1>22, <1>23, <1>24, <1>25 DEF CodecInv

\* pad_bitstream adds zeros behind the last symbol.
LEMMA PadStep == CodecInv /\ Pad => CodecInv'
<1> SUFFICES ASSUME CodecInv, Pad PROVE CodecInv'
  OBVIOUS
<1> DEFINE more == [i \in 1 .. (Reg - (Len(stream) % Reg)) % Reg |-> 0]
<1>1. /\ CfgType /\ EncoderType /\ DecoderType /\ EncoderInv /\ DecoderInv
      /\ pc = "encode" /\ Len(data) = Samples
  BY DEF CodecInv, Pad
<1>2. /\ stream' = stream \o more /\ pc' = "decode" /\ cfg' = cfg /\ data' = data
      /\ model' = model /\ ends' = ends /\ cws' = cws /\ up' = up
      /\ pos' = pos /\ got' = got /\ got_up' = got_up
  BY DEF Pad, decoder
<1>3. more \in Seq(Binary)
  <2>1. stream \in Seq(Binary) /\ Len(stream) \in Nat
    BY <1>1 DEF EncoderType
  <2>2. Reg \in Nat /\ Reg > 0
    BY <1>1 DEF CfgType
  <2>3. (Reg - (Len(stream) % Reg)) % Reg \in Nat
    BY <2>1, <2>2
  <2> QED
    BY <2>3 DEF Binary
<1>4. stream' \in Seq(Binary)
  BY <1>1, <1>2, <1>3 DEF EncoderType
<1>5. Kept
  BY <1>2 DEF Kept
<1>6. \A i \in 1 .. Len(data) : Encoded(i)'
  BY <1>2, <1>3, <1>5, EncodedKept
<1>7. CfgType'
  BY <1>1, <1>2, CfgKept
<1>8. EncoderType' /\ DecoderType'
  BY <1>1, <1>2, <1>4 DEF EncoderType, DecoderType
<1>9. EncoderInv'
  BY <1>1, <1>2, <1>6 DEF EncoderInv
<1>10. DecoderInv'
  <2>1. got' = <<>> /\ pos' = 0
    BY <1>1, <1>2 DEF EncoderInv, DecoderInv, Begin
  <2> QED
    BY <1>1, <1>2, <2>1, RangeAssumption DEF DecoderInv, Begin
<1> QED
  BY <1>7, <1>8, <1>9, <1>10 DEF CodecInv

\* The model the decoder takes differs from the encoder's at most in the bits
\* that the lossy rounding takes away.
LEMMA SameModel ==
  ASSUME CodecInv, pc = "decode", Len(got) < Samples, NEW i \in Nat, i = Len(got) + 1,
         NEW m, m = NextModel(IF cfg.model_mode THEN model[Len(got) + 1] ELSE 0, got)
  PROVE  /\ i \in 1 .. Len(data) /\ data[i] \in Nat /\ data[i] < pow2[cfg.bits]
         /\ NearModel(i) \in Nat /\ m \in Nat /\ RoundFwd(m) = RoundFwd(NearModel(i))
         /\ cfg.model_mode => m = model[i]
<1>1. /\ CfgType /\ EncoderType /\ DecoderType /\ EncoderInv /\ DecoderInv
  BY DEF CodecInv
<1>2. /\ data \in Seq(0 .. pow2[cfg.bits] - 1) /\ Len(data) = Samples
      /\ got \in Seq(Nat) /\ model \in Seq(Nat)
      /\ cfg.model_mode => Len(model) = Len(data)
  BY <1>1 DEF EncoderType, EncoderInv, DecoderType
<1>3. PICK P \in Nat : P = pow2[cfg.bits]
  BY <1>1, Pow2Positive DEF CfgType
<1>4. \A j \in 1 .. Len(data) : data[j] \in 0 .. P - 1
  <2>1. data \in Seq(0 .. P - 1)
    BY <1>2, <1>3
  <2> QED
    BY <2>1
<1>5. PICK n \in Nat : n = Len(data) /\ i \in 1 .. n
  <2>1. Len(got) \in Nat /\ Samples \in Nat
    BY <1>2, RangeAssumption
  <2> QED
    BY <1>2, <2>1
<1>6. data[i] \in Nat /\ data[i] < P
  BY <1>4, <1>5
<1>7. CASE cfg.model_mode
  <2>1. model[i] \in Nat
    BY <1>2, <1>5, <1>7
  <2>2. m = model[i] /\ NearModel(i) = model[i]
    BY <1>7 DEF NextModel, NearModel
  <2> QED
    BY <1>3, <1>5, <1>6, <2>1, <2>2
<1>8. CASE ~ cfg.model_mode /\ i = 1
  <2>1. got = <<>>
    BY <1>2, <1>8
  <2>2. m = 0 /\ NearModel(i) = 0
    BY <1>8, <2>1 DEF NextModel, NearModel
  <2> QED
    BY <1>3, <1>5, <1>6, <1>8, <2>2
<1>9. CASE ~ cfg.model_mode /\ i # 1
  <2>1. PICK j \in Nat : j = i - 1 /\ j = Len(got) /\ j \in 1 .. Len(got) /\ j \in 1 .. n
    BY <1>2, <1>5, <1>9
  <2>2. m = got[j] /\ NearModel(i) = data[j]
    BY <1>2, <1>9, <2>1 DEF NextModel, NearModel
  <2>3. data[j] \in Nat
    BY <1>4, <1>5, <2>1
  <2>4. got[j] = RoundInv(RoundFwd(data[j]))
    BY <1>1, <2>1 DEF DecoderInv
  <2>5. m \in Nat /\ RoundFwd(m) = RoundFwd(data[j])
    BY <1>1, <2>2, <2>3, <2>4, RoundAgain
  <2> QED
    BY <1>3, <1>5, <1>6, <1>9, <2>2, <2>3, <2>5
<1> QED
  BY <1>7, <1>8, <1>9

\* decompress_imagette finds the symbol of the next sample where it stopped, and
\* gets from it the sample as the encoder rounded it.
LEMMA DecodeStep == CodecInv /\ Decode => CodecInv'
<1> SUFFICES ASSUME CodecInv, Decode PROVE CodecInv'
  OBVIOUS
<1>1. /\ CfgType /\ EncoderType /\ DecoderType /\ EncoderInv /\ DecoderInv
      /\ pc = "decode" /\ Len(got) < Samples
  BY DEF CodecInv, Decode
<1>2. PICK i \in Nat : i = Len(got) + 1
  BY <1>1 DEF DecoderType
<1>3. PICK m : m = NextModel(IF cfg.model_mode THEN model[Len(got) + 1] ELSE 0, got)
  OBVIOUS
<1>4. /\ i \in 1 .. Len(data) /\ data[i] \in Nat /\ data[i] < pow2[cfg.bits]
      /\ NearModel(i) \in Nat /\ m \in Nat /\ RoundFwd(m) = RoundFwd(NearModel(i))
      /\ cfg.model_mode => m = model[i]
  BY <1>1, <1>2, <1>3, SameModel
<1>5. PICK f \in Nat, g \in Nat :
        /\ f = RoundFwd(data[i]) /\ g = RoundFwd(NearModel(i)) /\ f <= data[i]
        /\ RoundInv(f) \in Nat /\ RoundInv(f) <= data[i]
  BY <1>1, <1>4, RoundAgain
<1>6. PICK P \in Nat : P = pow2[cfg.bits] /\ P > 0
  <2>1. cfg.bits \in Nat
    BY <1>1 DEF CfgType
  <2> QED
    BY <2>1, Pow2Positive
<1>7. PICK x : x = Value(i)
  OBVIOUS
<1>8. /\ x \in Nat /\ x < P /\ (re_map_to_pos(x) + g) % P = f
  <2>1. f < pow2[cfg.bits]
    BY <1>4, <1>5, <1>6
  <2>2. x = MapToPos(f - g)
    BY <1>5, <1>7 DEF Value
  <2> QED
    BY <1>1, <1>5, <1>6, <2>1, <2>2, Residual
<1>9. PICK sym : sym = SymbolOf(x)
  OBVIOUS
<1>10. stream \in Seq(Binary) /\ pos \in Nat /\ pos = Begin(i)
  BY <1>1, <1>2 DEF EncoderType, DecoderType, DecoderInv
<1>11. At(pos, sym.bits) /\ ends[i] = pos + Len(sym.bits)
  BY <1>1, <1>4, <1>7, <1>9, <1>10 DEF EncoderInv, Encoded
<1>12. (IF cfg.zero THEN decode_zero ELSE decode_multi)
         = [value |-> x, pos |-> ends[i], err |-> FALSE]
  <2>1. Recovers(sym, x, IF cfg.zero THEN decode_zero ELSE decode_multi)
    BY <1>1, <1>6, <1>8, <1>9, <1>10, SymbolRecovers
  <2> QED
    BY <1>11, <2>1 DEF Recovers
<1>13. PICK d \in Nat : d = RoundInv(f) /\ decode_value(x, m) % pow2[cfg.bits] = d
  <2>1. decode_value(x, m) = RoundInv(f)
    BY <1>4, <1>5, <1>6, <1>8 DEF decode_value
  <2>2. RoundInv(f) < P
    BY <1>4, <1>5, <1>6
  <2> QED
    BY <1>5, <1>6, <2>1, <2>2, Small
<1>14. /\ pos' = ends[i] /\ got' = Append(got, d)
       /\ got_up' = (IF cfg.model_mode THEN Append(got_up, UpModel(d, m)) ELSE got_up)
       /\ pc' = (IF Len(got') = Samples THEN "done" ELSE pc)
       /\ cfg' = cfg /\ data' = data /\ model' = model /\ stream' = stream
       /\ ends' = ends /\ cws' = cws /\ up' = up
  <2> DEFINE symbol == IF cfg.zero THEN decode_zero ELSE decode_multi
             near == NextModel(IF cfg.model_mode THEN model[Len(got) + 1] ELSE 0, got)
             e == decode_value(symbol.value, near) % pow2[cfg.bits]
  <2>1. symbol.value = x /\ symbol.pos = ends[i] /\ symbol.err = FALSE
    BY <1>12
  <2>2. near = m /\ e = d
    BY <1>3, <1>13, <2>1
  <2>3. /\ pos' = symbol.pos
        /\ IF symbol.err
           THEN pc' = "corrupt" /\ UNCHANGED <<got, got_up>>
           ELSE /\ got' = Append(got, e)
                /\ got_up' = (IF cfg.model_mode THEN Append(got_up, UpModel(e, near)) ELSE got_up)
                /\ pc' = (IF Len(got') = Samples THEN "done" ELSE pc)
        /\ UNCHANGED <<cfg, encoder>>
    BY DEF Decode
  <2> HIDE DEF symbol, near, e
  <2> QED
    BY <2>1, <2>2, <2>3 DEF encoder
<1>15. \A k \in 1 .. Len(got) : got'[k] = got[k]
  BY <1>1, <1>14 DEF DecoderType
<1>16. Len(got') = i /\ got'[i] = d /\ got' \in Seq(Nat)
  BY <1>1, <1>2, <1>14 DEF DecoderType
<1>17. cfg.model_mode => /\ Len(got_up') = i /\ got_up'[i] = up[i] /\ got_up' \in Seq(Nat)
                         /\ \A k \in 1 .. Len(got) : got_up'[k] = got_up[k]
  <2> SUFFICES ASSUME cfg.model_mode
               PROVE  /\ Len(got_up') = i /\ got_up'[i] = up[i] /\ got_up' \in Seq(Nat)
                      /\ \A k \in 1 .. Len(got) : got_up'[k] = got_up[k]
    OBVIOUS
  <2>1. PICK u \in Nat : u = UpModel(d, m) /\ u = UpModel(data[i], m)
    BY <1>1, <1>4, <1>5, <1>13, UpModelFacts
  <2>2. up[i] = u
    BY <1>1, <1>4, <2>1 DEF EncoderInv, Encoded
  <2>3. got_up \in Seq(Nat) /\ Len(got_up) = Len(got)
    BY <1>1 DEF DecoderType
  <2>4. got_up' = Append(got_up, u)
    BY <1>14, <2>1
  <2>5. /\ Len(got_up') = Len(got_up) + 1 /\ got_up'[Len(got_up) + 1] = u
        /\ \A k \in 1 .. Len(got_up) : got_up'[k] = got_up[k]
    BY <2>3, <2>4, Appended
  <2> QED
    BY <1>2, <2>2, <2>3, <2>4, <2>5
<1>18. \A k \in 1 .. i : /\ got'[k] = RoundInv(RoundFwd(data[k]))
                         /\ cfg.model_mode => got_up'[k] = up[k]
  <2> SUFFICES ASSUME NEW k \in 1 .. i
               PROVE  /\ got'[k] = RoundInv(RoundFwd(data[k]))
                      /\ cfg.model_mode => got_up'[k] = up[k]
    OBVIOUS
  <2>1. CASE k = i
    BY <1>5, <1>13, <1>16, <1>17, <2>1
  <2>2. CASE k # i
    <3>1. k \in 1 .. Len(got)
      BY <1>1, <1>2, <2>2 DEF DecoderType
    <3> QED
      BY <1>1, <1>15, <1>17, <3>1 DEF DecoderInv
  <2> QED
    BY <2>1, <2>2
<1>19. CfgType'
  BY <1>1, <1>14, CfgKept
<1>20. EncoderType'
  BY <1>1, <1>14 DEF EncoderType
<1>21. pc' \in {"decode", "done"}
  BY <1>1, <1>14
<1>22. DecoderType'
  <2>1. ends[i] \in Nat
    <3>1. ends \in Seq(Nat) /\ i \in 1 .. Len(ends)
      BY <1>1, <1>4 DEF EncoderType
    <3> QED
      BY <3>1
  <2>2. i <= Samples
    BY <1>1, <1>2, RangeAssumption DEF DecoderType
  <2>3. got_up' \in Seq(Nat) /\ Len(got_up') = IF cfg.model_mode THEN Len(got') ELSE 0
    BY <1>1, <1>14, <1>16, <1>17 DEF DecoderType
  <2> QED
    BY <1>14, <1>16, <1>21, <2>1, <2>2, <2>3 DEF DecoderType
<1>23. \A k \in 1 .. Len(data) : Encoded(k)'
  <2>1. stream' = stream \o <<>> /\ <<>> \in Seq(Binary)
    BY <1>10, <1>14
  <2>2. Kept
    BY <1>14 DEF Kept
  <2> QED
    BY <2>1, <2>2, EncodedKept
<1>24. EncoderInv'
  BY <1>1, <1>14, <1>21, <1>23 DEF EncoderInv
<1>25. DecoderInv'
  <2>1. pos' = Begin(i + 1)'
    BY <1>4, <1>14 DEF Begin
  <2>2. \A k \in 1 .. i : /\ got'[k] = RoundInv(RoundFwd(data[k]))'
                          /\ cfg'.model_mode => got_up'[k] = up'[k]
    BY <1>14, <1>18 DEF RoundInv, RoundFwd
  <2>3. i <= Len(data')
    BY <1>1, <1>4, <1>14 DEF EncoderType
  <2> QED
    BY <1>16, <2>1, <2>2, <2>3 DEF DecoderInv
<1> QED
  BY <1>19, <1>20, <1>22, <1>24, <1>25 DEF CodecInv

\* Every state satisfies the invariant.
LEMMA CodecInvariant == Spec => []CodecInv
<1>1. CodecInv /\ [Next]_vars => CodecInv'
  <2> SUFFICES ASSUME CodecInv, [Next]_vars PROVE CodecInv'
    OBVIOUS
  <2>1. CASE \E d \in 0 .. pow2[cfg.bits] - 1 :
               \E m \in IF cfg.model_mode THEN Models ELSE {0} : Encode(d, m)
    <3>1. PICK d \in 0 .. pow2[cfg.bits] - 1, m \in Nat : Encode(d, m)
      BY <2>1, RangeAssumption
    <3> QED
      BY <3>1, EncodeStep
  <2>2. CASE Pad
    BY <2>2, PadStep
  <2>3. CASE Decode
    BY <2>3, DecodeStep
  <2>4. CASE UNCHANGED vars
    <3>1. /\ cfg' = cfg /\ data' = data /\ model' = model /\ stream' = stream
          /\ ends' = ends /\ cws' = cws /\ up' = up /\ pos' = pos /\ got' = got
          /\ got_up' = got_up /\ pc' = pc
      BY <2>4 DEF vars, encoder, decoder
    <3>2. /\ CfgType /\ EncoderType /\ DecoderType /\ EncoderInv /\ DecoderInv
      BY DEF CodecInv
    <3>3. CfgType'
      BY <3>1, <3>2, CfgKept
    <3>4. \A k \in 1 .. Len(data) : Encoded(k)'
      <4>1. stream \in Seq(Binary)
        BY <3>2 DEF EncoderType
      <4>2. stream' = stream \o <<>> /\ <<>> \in Seq(Binary)
        BY <3>1, <4>1
      <4>3. Kept
        BY <3>1 DEF Kept
      <4> QED
        BY <4>2, <4>3, EncodedKept
    <3>5. EncoderType' /\ DecoderType'
      BY <3>1, <3>2 DEF EncoderType, DecoderType
    <3>6. EncoderInv'
      BY <3>1, <3>2, <3>4 DEF EncoderInv, Begin
    <3>7. DecoderInv'
      BY <3>1, <3>2 DEF DecoderInv, RoundInv, RoundFwd, Begin
    <3> QED
      BY <3>3, <3>5, <3>6, <3>7 DEF CodecInv
  <2> QED
    BY <2>1, <2>2, <2>3, <2>4 DEF Next
<1> QED
  BY InitCodec, <1>1, PTL DEF Spec

-----------------------------------------------------------------------------
(* The properties *)

\* The decoder returns the samples of the encoder, less the bits the lossy
\* parameter takes away, consumes for each exactly its bits, and never reports a
\* stream of the encoder as corrupt: for every register width, Golomb parameter,
\* spillover threshold, data width, model and number of samples.
THEOREM RoundTripCorrect == Spec => []RoundTrip
<1>1. CodecInv => RoundTrip
  <2> SUFFICES ASSUME CodecInv PROVE RoundTrip
    OBVIOUS
  <2>1. DecoderType /\ DecoderInv
    BY DEF CodecInv
  <2>2. got \in Seq(Nat) /\ Len(got) \in Nat /\ DOMAIN got = 1 .. Len(got)
    BY <2>1 DEF DecoderType
  <2>3. got # <<>> => Len(got) + 1 # 1 /\ Len(got) + 1 - 1 = Len(got)
    BY <2>2
  <2> QED
    BY <2>1, <2>2, <2>3 DEF RoundTrip, DecoderType, DecoderInv, Begin
<1> QED
  BY CodecInvariant, <1>1, PTL

\* Encoder and decoder compute the same updated model.
THEOREM ModelsAgreeCorrect == Spec => []ModelsAgree
<1>1. CodecInv => ModelsAgree
  <2> SUFFICES ASSUME CodecInv PROVE ModelsAgree
    OBVIOUS
  <2>1. DecoderType /\ DecoderInv
    BY DEF CodecInv
  <2>2. DOMAIN got_up = 1 .. Len(got_up) /\ Len(got) \in Nat
    BY <2>1 DEF DecoderType
  <2>3. cfg.model_mode => Len(got_up) = Len(got)
    BY <2>1 DEF DecoderType
  <2>4. ~ cfg.model_mode => DOMAIN got_up = {}
    BY <2>1, <2>2 DEF DecoderType
  <2> QED
    BY <2>1, <2>2, <2>3, <2>4 DEF ModelsAgree, DecoderInv
<1> QED
  BY CodecInvariant, <1>1, PTL

\* No code word of a valid parameter set is longer than a register: the threshold
\* cmp_icu_max_spill allows leaves room for every escape symbol.
THEOREM CodeWordsFitCorrect == Spec => []CodeWordsFit
<1>1. CodecInv => CodeWordsFit
  BY DEF CodecInv, EncoderType, EncoderInv, Encoded, CodeWordsFit
<1> QED
  BY CodecInvariant, <1>1, PTL
=============================================================================
