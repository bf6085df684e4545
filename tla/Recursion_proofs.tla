-------------------------- MODULE Recursion_proofs --------------------------
(***************************************************************************)
(* Induction on the natural numbers, and what it gives for functions that   *)
(* are defined by recursion on them, in a form that names sets and functions *)
(* instead of operators; and, from it, the powers of two.                   *)
(***************************************************************************)
EXTENDS PowersOfTwo, TLAPS, WellFoundedInduction

\* Induction: a set with 0 that is closed under successor has every natural number.
LEMMA NatSetInduction ==
    ASSUME NEW S, 0 \in S, \A n \in Nat : n \in S => n + 1 \in S
    PROVE  Nat \subseteq S
<1> DEFINE R == OpToRel(<, Nat)
           T == Nat \ S
<1> SUFFICES ASSUME T # {} PROVE FALSE
  OBVIOUS
<1>1. IsWellFoundedOn(R, Nat)
  BY NatLessThanWellFounded, Zenon
<1>2. PICK x \in T : \A y \in T : ~ (<<y, x>> \in R)
  <2> HIDE DEF R
  <2> QED BY <1>1, WFMin, Zenon
<1>3. x \in Nat /\ x # 0 /\ x - 1 \in T
  <2> HIDE DEF R
  <2>1. x \in Nat /\ x # 0
    BY <1>2
  <2>2. x - 1 \in Nat /\ (x - 1 \in S => (x - 1) + 1 \in S) /\ (x - 1) + 1 = x
    BY <2>1
  <2> QED BY <1>2, <2>1, <2>2
<1>4. <<x - 1, x>> \in R
  BY <1>3 DEF OpToRel
<1> QED BY <1>2, <1>3, <1>4

\* v is a value, and G gives the next one from a value and its index.
IsRecursion(V, v, G) == v \in V /\ G \in [V \X Nat -> V]

\* A first value and a step function determine a sequence of values.
LEMMA RecursiveSequence ==
    ASSUME NEW V, NEW v, NEW G, IsRecursion(V, v, G)
    PROVE  \E f \in [Nat -> V] : f[0] = v /\ \A n \in Nat : f[n + 1] = G[<<f[n], n>>]
<1>0. v \in V /\ G \in [V \X Nat -> V]
  BY DEF IsRecursion
<1> USE <1>0
<1> DEFINE IsPrefix(h, n) == /\ h \in [0..n -> V] /\ h[0] = v
                             /\ \A i \in 0..(n - 1) : h[i + 1] = G[<<h[i], i>>]
<1>1. \A n \in Nat : \E h : IsPrefix(h, n)
  <2> DEFINE S == {n \in Nat : \E h : IsPrefix(h, n)}
  <2>1. 0 \in S
    <3>1. IsPrefix([i \in 0..0 |-> v], 0)
      OBVIOUS
    <3> QED BY <3>1
  <2>2. ASSUME NEW n \in Nat, n \in S PROVE n + 1 \in S
    <3>1. PICK h : IsPrefix(h, n)
      BY <2>2
    <3> DEFINE w == G[<<h[n], n>>]
               g == [i \in 0..(n + 1) |-> IF i = n + 1 THEN w ELSE h[i]]
    <3>2. w \in V
      BY <3>1
    <3>3. g[n + 1] = w /\ \A i \in 0..n : g[i] = h[i]
      OBVIOUS
    <3>4. g \in [0..(n + 1) -> V]
      BY <3>1, <3>2
    <3>5. g[0] = v
      BY <3>1, <3>3
    <3>6. ASSUME NEW i \in 0..((n + 1) - 1) PROVE g[i + 1] = G[<<g[i], i>>]
      <4>1. CASE i = n
        <5>1. g[n + 1] = w /\ g[n] = h[n]
          BY <3>3
        <5> QED BY <4>1, <5>1
      <4>2. CASE i # n
        <5>1. i \in 0..(n - 1) /\ i \in 0..n /\ i + 1 \in 0..n
          BY <4>2
        <5>2. g[i + 1] = h[i + 1] /\ g[i] = h[i]
          BY <3>3, <5>1
        <5>3. h[i + 1] = G[<<h[i], i>>]
          BY <3>1, <5>1
        <5> QED BY <5>2, <5>3
      <4> QED BY <4>1, <4>2
    <3> HIDE DEF g
    <3>7. IsPrefix(g, n + 1)
      BY <3>4, <3>5, <3>6
    <3> HIDE DEF IsPrefix
    <3>8. \E k : IsPrefix(k, n + 1)
      BY <3>7
    <3> QED BY <3>8
  <2> HIDE DEF S
  <2>3. Nat \subseteq S
    BY <2>1, <2>2, NatSetInduction
  <2> QED BY <2>3 DEF S
<1>2. ASSUME NEW m \in Nat, NEW k \in Nat, NEW g, NEW h, IsPrefix(g, m), IsPrefix(h, k)
      PROVE  \A i \in Nat : i <= m /\ i <= k => g[i] = h[i]
  <2> DEFINE S == {i \in Nat : i <= m /\ i <= k => g[i] = h[i]}
  <2>1. 0 \in S
    BY <1>2
  <2>2. ASSUME NEW n \in Nat, n \in S PROVE n + 1 \in S
    <3>1. SUFFICES ASSUME n + 1 <= m, n + 1 <= k PROVE g[n + 1] = h[n + 1]
      OBVIOUS
    <3>2. g[n] = h[n] /\ n \in 0..(m - 1) /\ n \in 0..(k - 1)
      BY <2>2, <3>1
    <3> QED BY <1>2, <3>2
  <2> HIDE DEF S
  <2>3. Nat \subseteq S
    BY <2>1, <2>2, NatSetInduction
  <2> QED BY <2>3 DEF S
<1> DEFINE p(n) == CHOOSE h : IsPrefix(h, n)
           f == [n \in Nat |-> p(n)[n]]
<1>3. ASSUME NEW n \in Nat PROVE IsPrefix(p(n), n)
  <2> HIDE DEF IsPrefix
  <2> QED BY <1>1
<1> HIDE DEF p
<1>4. \A n \in Nat : p(n)[n] \in V
  BY <1>3
<1>5. f \in [Nat -> V]
  BY <1>4
<1>6. f[0] = v
  BY <1>3
<1>7. ASSUME NEW n \in Nat PROVE f[n + 1] = G[<<f[n], n>>]
  <2>1. IsPrefix(p(n), n) /\ IsPrefix(p(n + 1), n + 1)
    BY <1>3
  <2>2. p(n + 1)[n] = p(n)[n]
    <3> HIDE DEF IsPrefix
    <3>1. \A i \in Nat : i <= n + 1 /\ i <= n => p(n + 1)[i] = p(n)[i]
      BY <1>2, <2>1
    <3> QED BY <3>1
  <2>3. p(n + 1)[n + 1] = G[<<p(n + 1)[n], n>>]
    BY <2>1
  <2>4. f[n] = p(n)[n] /\ f[n + 1] = p(n + 1)[n + 1]
    OBVIOUS
  <2> QED BY <2>2, <2>3, <2>4
<1> QED BY <1>5, <1>6, <1>7

-----------------------------------------------------------------------------
(***************************************************************************)
(* Quotients, remainders and powers of two.                                *)
(***************************************************************************)
\* The quotient and the remainder of a division, and what determines them.
LEMMA DivMod ==
    ASSUME NEW a \in Int, NEW b \in Nat, b > 0
    PROVE  /\ a \div b \in Int /\ a % b \in 0..(b - 1)
           /\ a = b * (a \div b) + (a % b)
  OBVIOUS

\* A number within a bound of a multiple has that multiple as its quotient.
LEMMA DivModUnique ==
    ASSUME NEW a \in Int, NEW b \in Nat, b > 0, NEW q \in Int, NEW r \in 0..(b - 1),
           a = b * q + r
    PROVE  a \div b = q /\ a % b = r
<1> DEFINE d == a \div b
           m == a % b
<1>1. d \in Int /\ m \in 0..(b - 1) /\ a = b * d + m
  BY DivMod
<1> HIDE DEF d, m
<1>2. b * (d - q) = r - m
  BY <1>1
<1>3. d = q
  <2>1. CASE d - q >= 1
    <3>1. b * (d - q) >= b * 1
      BY <1>1, <2>1
    <3> QED BY <1>1, <1>2, <3>1
  <2>2. CASE d - q <= -1
    <3>1. b * (q - d) >= b * 1
      BY <1>1, <2>2
    <3>2. b * (q - d) = m - r
      BY <1>1
    <3> QED BY <1>1, <3>1, <3>2
  <2> QED BY <1>1, <2>1, <2>2
<1> QED BY <1>1, <1>3 DEF d, m

\* The powers of two are positive, and each is twice the one before.
LEMMA Powers ==
    /\ Pow2 \in [Nat -> Nat \ {0}]
    /\ Pow2[0] = 1
    /\ \A n \in Nat : Pow2[n + 1] = 2 * Pow2[n]
<1> DEFINE P == Nat \ {0}
           G == [x \in P \X Nat |-> 2 * x[1]]
           IsPow(f) == f = [n \in Nat |-> IF n = 0 THEN 1 ELSE 2 * f[n - 1]]
<1>1. IsRecursion(P, 1, G)
  BY DEF IsRecursion
<1>2. PICK f \in [Nat -> P] : f[0] = 1 /\ \A n \in Nat : f[n + 1] = G[<<f[n], n>>]
  <2> HIDE DEF P, G
  <2> QED BY <1>1, RecursiveSequence
<1>3. \A n \in Nat : f[n + 1] = 2 * f[n]
  BY <1>2
<1>4. IsPow(f)
  <2>1. ASSUME NEW n \in Nat PROVE f[n] = IF n = 0 THEN 1 ELSE 2 * f[n - 1]
    <3>1. CASE n = 0
      BY <1>2, <3>1
    <3>2. CASE n # 0
      <4>1. n - 1 \in Nat /\ (n - 1) + 1 = n
        BY <3>2
      <4> QED BY <1>3, <3>2, <4>1
    <3> QED BY <3>1, <3>2
  <2> QED BY <1>2, <2>1
<1>5. Pow2 = CHOOSE g : IsPow(g)
  BY DEF Pow2
<1>6. IsPow(Pow2)
  <2> HIDE DEF IsPow
  <2> QED BY <1>4, <1>5, Zenon
<1>7. Pow2[0] = 1
  BY <1>6
<1>8. ASSUME NEW n \in Nat PROVE Pow2[n + 1] = 2 * Pow2[n]
  BY <1>6
<1>9. Pow2 = f
  <2> DEFINE S == {n \in Nat : Pow2[n] = f[n]}
  <2>1. 0 \in S
    BY <1>2, <1>7
  <2>2. ASSUME NEW n \in Nat, n \in S PROVE n + 1 \in S
    BY <1>3, <1>8, <2>2
  <2>3. Nat \subseteq S
    <3> HIDE DEF S
    <3> QED BY <2>1, <2>2, NatSetInduction
  <2>4. \A n \in Nat : Pow2[n] = f[n]
    BY <2>3
  <2>5. Pow2 = [n \in Nat |-> Pow2[n]]
    BY <1>6
  <2>6. f = [n \in Nat |-> f[n]]
    BY <1>2
  <2> QED BY <2>4, <2>5, <2>6
<1> QED BY <1>2, <1>7, <1>8, <1>9

\* A power of a sum is the product of the powers.
LEMMA PowerOfSum ==
    ASSUME NEW m \in Nat, NEW n \in Nat
    PROVE  Pow2[m + n] = Pow2[m] * Pow2[n]
<1> DEFINE S == {k \in Nat : Pow2[m + k] = Pow2[m] * Pow2[k]}
<1>1. 0 \in S
  BY Powers
<1>2. ASSUME NEW k \in Nat, k \in S PROVE k + 1 \in S
  <2>1. Pow2[m + k] = Pow2[m] * Pow2[k]
    BY <1>2
  <2>2. Pow2[(m + k) + 1] = 2 * Pow2[m + k] /\ Pow2[k + 1] = 2 * Pow2[k]
    BY Powers
  <2>3. (m + k) + 1 = m + (k + 1) /\ k + 1 \in Nat
    OBVIOUS
  <2>4. Pow2[m] \in Nat /\ Pow2[k] \in Nat
    BY Powers
  <2> DEFINE a == Pow2[m]
             b == Pow2[k]
  <2> HIDE DEF a, b
  <2>5. 2 * (a * b) = a * (2 * b)
    BY <2>4 DEF a, b
  <2>6. Pow2[m + (k + 1)] = Pow2[m] * Pow2[k + 1]
    BY <2>1, <2>2, <2>3, <2>5 DEF a, b
  <2> QED BY <2>3, <2>6
<1>3. Nat \subseteq S
  <2> HIDE DEF S
  <2> QED BY <1>1, <1>2, NatSetInduction
<1> QED BY <1>3

\* A higher power is at least as large.
LEMMA PowersGrow ==
    ASSUME NEW m \in Nat, NEW n \in Nat, m <= n
    PROVE  Pow2[m] <= Pow2[n] /\ Pow2[n] = Pow2[m] * Pow2[n - m]
<1>1. n - m \in Nat /\ m + (n - m) = n
  OBVIOUS
<1>2. Pow2[n] = Pow2[m] * Pow2[n - m]
  BY <1>1, PowerOfSum
<1>3. Pow2[m] \in Nat \ {0} /\ Pow2[n - m] \in Nat \ {0}
  BY <1>1, Powers
<1> DEFINE a == Pow2[m]
           b == Pow2[n - m]
<1>4. ASSUME a \in Nat \ {0}, b \in Nat \ {0} PROVE a <= a * b
  <2> HIDE DEF a, b
  <2>1. a * b >= a * 1
    BY <1>4
  <2> QED BY <1>4, <2>1
<1> QED BY <1>2, <1>3, <1>4

\* 256 numbers fit in a byte.
LEMMA SmallPowers ==
    /\ Pow2[1] = 2 /\ Pow2[2] = 4 /\ Pow2[3] = 8 /\ Pow2[4] = 16
    /\ Pow2[5] = 32 /\ Pow2[6] = 64 /\ Pow2[7] = 128 /\ Pow2[8] = 256
<1>1. Pow2[0] = 1 /\ \A n \in Nat : Pow2[n + 1] = 2 * Pow2[n]
  BY Powers
<1>2. Pow2[0 + 1] = 2
  BY <1>1
<1>3. Pow2[1 + 1] = 4
  BY <1>1, <1>2
<1>4. Pow2[2 + 1] = 8
  BY <1>1, <1>3
<1>5. Pow2[3 + 1] = 16
  BY <1>1, <1>4
<1>6. Pow2[4 + 1] = 32
  BY <1>1, <1>5
<1>7. Pow2[5 + 1] = 64
  BY <1>1, <1>6
<1>8. Pow2[6 + 1] = 128
  BY <1>1, <1>7
<1>9. Pow2[7 + 1] = 256
  BY <1>1, <1>8
<1> QED BY <1>2, <1>3, <1>4, <1>5, <1>6, <1>7, <1>8, <1>9

=============================================================================
