------------------------- MODULE Softx86Alu_proofs -------------------------
(***************************************************************************)
(* Proofs about Softx86Alu, for words of any width and operands of any      *)
(* value.                                                                  *)
(***************************************************************************)
EXTENDS Softx86Alu, Recursion_proofs

-----------------------------------------------------------------------------
(***************************************************************************)
(* The sizes of words.                                                     *)
(***************************************************************************)
\* The weight of the sign bit.
Half(v) == Pow2[Bits(v) - 1]

\* A width has at least 8 bits, and the sign bit weighs half of its size.
LEMMA Sizes ==
    ASSUME NEW v \in Widths
    PROVE  /\ Bits(v) \in Nat /\ Bits(v) >= 8
           /\ Size(v) \in Nat /\ Half(v) \in Nat
           /\ Half(v) >= 128 /\ Size(v) = 2 * Half(v) /\ Ones(v) = Size(v) - 1
           /\ Half(v) \div 2 = Pow2[Bits(v) - 2] /\ Half(v) = 2 * Pow2[Bits(v) - 2]
           /\ (v = "byte" => Bits(v) = 8 /\ Half(v) = 128 /\ Size(v) = 256)
<1>1. Bits(v) \in Nat /\ Bits(v) >= 8 /\ (v = "byte" => Bits(v) = 8)
  BY WordBitsAssumption DEF Bits, ByteBits, Widths
<1> DEFINE n == Bits(v) - 1
<1>2. n \in Nat /\ 7 \in Nat /\ 7 <= n /\ n + 1 = Bits(v) /\ (v = "byte" => n = 7)
  BY <1>1
<1>3. Pow2[7] <= Pow2[n]
  <2> HIDE DEF n
  <2> QED BY <1>2, PowersGrow
<1>4. Pow2[n + 1] = 2 * Pow2[n] /\ Pow2[n] \in Nat
  BY <1>2, Powers
<1>5. n - 1 \in Nat /\ (n - 1) + 1 = n /\ n - 1 = Bits(v) - 2
  BY <1>2
<1>6. Pow2[n] = 2 * Pow2[n - 1] /\ Pow2[n - 1] \in Nat
  <2>1. Pow2[(n - 1) + 1] = 2 * Pow2[n - 1] /\ Pow2[n - 1] \in Nat
    BY <1>5, Powers
  <2> QED BY <1>5, <2>1
<1>7. Half(v) = Pow2[n] /\ Size(v) = Pow2[n + 1]
  BY <1>2 DEF Half, Size
<1>8. Half(v) \div 2 = Pow2[n - 1]
  BY <1>6, <1>7
<1> HIDE DEF n
<1> QED BY <1>1, <1>2, <1>3, <1>4, <1>5, <1>6, <1>7, <1>8, SmallPowers DEF Ones

\* The parity bit is a bit.
LEMMA Parities ==
    \A x \in Nat : Parity[x] \in {0, 1}
<1> DEFINE IsParity(f) == f = [x \in Nat |-> IF x = 0 THEN 1 ELSE Xor(f[x \div 2], x % 2)]
           V1 == [Nat -> {0, 1}]
           g0 == [x \in Nat |-> 1]
           Up(g) == [x \in Nat |-> IF x = 0 THEN 1 ELSE Xor(g[x \div 2], x % 2)]
           G == [p \in V1 \X Nat |-> Up(p[1])]
<1>1. ASSUME NEW g \in V1 PROVE Up(g) \in V1
  <2>1. ASSUME NEW x \in Nat PROVE Xor(g[x \div 2], x % 2) \in {0, 1}
    <3>1. x \div 2 \in Nat /\ x % 2 \in {0, 1}
      OBVIOUS
    <3>2. g[x \div 2] \in {0, 1}
      BY <3>1
    <3> QED BY <3>1, <3>2 DEF Xor
  <2> QED BY <2>1
<1>2. IsRecursion(V1, g0, G)
  <2>1. g0 \in V1
    OBVIOUS
  <2>2. G \in [V1 \X Nat -> V1]
    <3> HIDE DEF Up, V1
    <3> QED BY <1>1
  <2> QED BY <2>1, <2>2 DEF IsRecursion
<1>3. PICK F \in [Nat -> V1] : F[0] = g0 /\ \A n \in Nat : F[n + 1] = G[<<F[n], n>>]
  <2> HIDE DEF V1, g0, G
  <2> QED BY <1>2, RecursiveSequence
<1>4. ASSUME NEW n \in Nat PROVE F[n + 1] = Up(F[n])
  <2>1. F[n] \in V1 /\ F[n + 1] = G[<<F[n], n>>]
    BY <1>3
  <2> HIDE DEF Up, V1
  <2> QED BY <2>1
<1>5. ASSUME NEW n \in Nat, NEW x \in Nat
      PROVE  F[n][x] \in {0, 1} /\ F[n + 1][x] = IF x = 0 THEN 1 ELSE Xor(F[n][x \div 2], x % 2)
  <2>1. F[n] \in V1
    BY <1>3
  <2>2. F[n + 1] = Up(F[n])
    BY <1>4
  <2>3. Up(F[n])[x] = IF x = 0 THEN 1 ELSE Xor(F[n][x \div 2], x % 2)
    OBVIOUS
  <2> QED BY <2>1, <2>2, <2>3
<1> DEFINE S == {n \in Nat : \A x \in Nat : x <= n => F[n + 1][x] = F[n][x]}
<1>6. 0 \in S
  <2>1. F[0][0] = 1
    BY <1>3
  <2>2. F[0 + 1][0] = 1
    BY <1>5
  <2> QED BY <2>1, <2>2
<1>7. ASSUME NEW n \in Nat, n \in S PROVE n + 1 \in S
  <2>1. ASSUME NEW x \in Nat, x <= n + 1 PROVE F[(n + 1) + 1][x] = F[n + 1][x]
    <3>1. CASE x = 0
      <4>1. n + 1 \in Nat
        OBVIOUS
      <4> QED BY <1>5, <3>1, <4>1
    <3>2. CASE x # 0
      <4>1. x \div 2 \in Nat /\ x \div 2 <= n /\ n + 1 \in Nat
        BY <2>1, <3>2
      <4>2. F[n + 1][x \div 2] = F[n][x \div 2]
        BY <1>7, <4>1
      <4>3. F[n + 1][x] = Xor(F[n][x \div 2], x % 2)
        BY <1>5, <3>2
      <4>4. F[(n + 1) + 1][x] = Xor(F[n + 1][x \div 2], x % 2)
        BY <1>5, <3>2, <4>1
      <4> QED BY <4>2, <4>3, <4>4
    <3> QED BY <3>1, <3>2
  <2> QED BY <2>1
<1>8. \A n \in Nat : n \in S
  <2> HIDE DEF S
  <2> QED BY <1>6, <1>7, NatSetInduction
<1>9. ASSUME NEW x \in Nat, NEW d \in Nat PROVE F[x + d][x] = F[x][x]
  <2> DEFINE T == {k \in Nat : F[x + k][x] = F[x][x]}
  <2>1. 0 \in T
    OBVIOUS
  <2>2. ASSUME NEW k \in Nat, k \in T PROVE k + 1 \in T
    <3>1. x + k \in Nat /\ x <= x + k /\ (x + k) + 1 = x + (k + 1)
      OBVIOUS
    <3>2. F[(x + k) + 1][x] = F[x + k][x]
      BY <1>8, <3>1
    <3> QED BY <2>2, <3>1, <3>2
  <2>3. Nat \subseteq T
    <3> HIDE DEF T
    <3> QED BY <2>1, <2>2, NatSetInduction
  <2> QED BY <2>3
<1> DEFINE f == [x \in Nat |-> F[x][x]]
<1>10. IsParity(f)
  <2>1. ASSUME NEW x \in Nat PROVE f[x] = IF x = 0 THEN 1 ELSE Xor(f[x \div 2], x % 2)
    <3>1. CASE x = 0
      <4>1. F[0][0] = 1
        BY <1>3
      <4> QED BY <3>1, <4>1
    <3>2. CASE x # 0
      <4>1. x - 1 \in Nat /\ (x - 1) + 1 = x /\ x \div 2 \in Nat
        BY <3>2
      <4>2. (x - 1) - (x \div 2) \in Nat /\ (x \div 2) + ((x - 1) - (x \div 2)) = x - 1
        BY <3>2
      <4>3. F[x][x] = Xor(F[x - 1][x \div 2], x % 2)
        BY <1>5, <3>2, <4>1
      <4>4. F[x - 1][x \div 2] = F[x \div 2][x \div 2]
        BY <1>9, <4>1, <4>2
      <4> QED BY <3>2, <4>1, <4>3, <4>4
    <3> QED BY <3>1, <3>2
  <2> QED BY <2>1
<1>11. Parity = CHOOSE h : IsParity(h)
  BY DEF Parity
<1>12. IsParity(Parity)
  <2> HIDE DEF IsParity, f
  <2> QED BY <1>10, <1>11, Zenon
<1> DEFINE U == {n \in Nat : \A x \in Nat : x <= n => Parity[x] \in {0, 1}}
<1>13. 0 \in U
  BY <1>12
<1>14. ASSUME NEW n \in Nat, n \in U PROVE n + 1 \in U
  <2>1. ASSUME NEW x \in Nat, x <= n + 1 PROVE Parity[x] \in {0, 1}
    <3>1. CASE x = 0
      BY <1>12, <3>1
    <3>2. CASE x # 0
      <4>1. x \div 2 \in Nat /\ x \div 2 <= n /\ x % 2 \in {0, 1}
        BY <2>1, <3>2
      <4>2. Parity[x \div 2] \in {0, 1}
        BY <1>14, <4>1
      <4>3. Parity[x] = Xor(Parity[x \div 2], x % 2)
        BY <1>12, <3>2
      <4> QED BY <4>1, <4>2, <4>3 DEF Xor
    <3> QED BY <3>1, <3>2
  <2> QED BY <2>1
<1>15. Nat \subseteq U
  <2> HIDE DEF U
  <2> QED BY <1>13, <1>14, NatSetInduction
<1>16. ASSUME NEW x \in Nat PROVE Parity[x] \in {0, 1}
  <2>1. x \in U /\ x <= x
    BY <1>15
  <2> QED BY <2>1
<1> QED BY <1>16

-----------------------------------------------------------------------------
(***************************************************************************)
(* What an operation returns fits its width, and its flags are bits.        *)
(***************************************************************************)
Word(v)    == 0..Ones(v)
FlagSet    == [FlagNames -> {0, 1}]
Fits(v, o) == o.ret \in Word(v) /\ o.fl \in FlagSet

\* The flags are where their names say.
LEMMA FlagTypes ==
    ASSUME NEW f \in FlagSet
    PROVE  f.cf \in {0, 1} /\ f.of \in {0, 1} /\ f.sf \in {0, 1}
           /\ f.zf \in {0, 1} /\ f.af \in {0, 1} /\ f.pf \in {0, 1}
  BY DEF FlagSet, FlagNames

\* The sign bit of a word says whether it is in the upper half.
LEMMA SignBit ==
    ASSUME NEW v \in Widths, NEW x \in Word(v)
    PROVE  /\ x \in Nat /\ x < Size(v) /\ Msb(v, x) = IF x >= Half(v) THEN 1 ELSE 0
           /\ Msb(v, x) \in {0, 1}
<1> DEFINE h == Half(v)
<1>1. h \in Nat /\ h > 0 /\ Size(v) = 2 * h /\ x \in Nat /\ x < 2 * h
  BY Sizes DEF Word
<1>2. Msb(v, x) = x \div h
  BY DEF Msb, Half
<1> HIDE DEF h
<1>3. CASE x >= h
  <2>1. x = h * 1 + (x - h) /\ x - h \in 0..(h - 1)
    BY <1>1, <1>3
  <2>2. x \div h = 1
    BY <1>1, <2>1, DivModUnique
  <2> QED BY <1>1, <1>2, <1>3, <2>2 DEF h
<1>4. CASE ~(x >= h)
  <2>1. x = h * 0 + x /\ x \in 0..(h - 1)
    BY <1>1, <1>4
  <2>2. x \div h = 0
    BY <1>1, <2>1, DivModUnique
  <2> QED BY <1>1, <1>2, <1>4, <2>2 DEF h
<1> QED BY <1>3, <1>4

\* The flags by the usual rules.
LEMMA OutcomeFields ==
    ASSUME NEW v \in Widths, NEW ret \in Word(v), NEW cf \in {0, 1}, NEW of \in {0, 1}, NEW af \in {0, 1}
    PROVE  LET o == Outcome(v, ret, cf, of, af) IN
           /\ Fits(v, o) /\ o.ret = ret /\ o.fl.cf = cf /\ o.fl.of = of /\ o.fl.af = af
           /\ o.fl.sf = Msb(v, ret) /\ o.fl.zf = Bit(ret = 0) /\ o.fl.pf = Parity[ret]
<1>1. Msb(v, ret) \in {0, 1} /\ ret \in Nat
  BY SignBit
<1>2. Parity[ret] \in {0, 1}
  BY <1>1, Parities
<1>3. Bit(ret = 0) \in {0, 1}
  BY DEF Bit
<1>4. Flags(v, ret, cf, of, af) \in FlagSet
  BY <1>1, <1>2, <1>3 DEF Flags, FlagSet, FlagNames
<1> QED BY <1>4 DEF Outcome, Flags, Fits

\* A remainder by the size is a word.
LEMMA CutFits ==
    ASSUME NEW v \in Widths, NEW x \in Int
    PROVE  x % Size(v) \in Word(v)
<1>1. Size(v) \in Nat /\ Size(v) > 0 /\ Ones(v) = Size(v) - 1
  BY Sizes
<1>2. x % Size(v) \in 0..(Size(v) - 1)
  BY <1>1, DivMod
<1> QED BY <1>1, <1>2 DEF Word

\* ADD, ADC, SUB, SBB, INC and DEC.
LEMMA SumsFit ==
    ASSUME NEW v \in Widths, NEW f \in FlagSet, NEW s \in Word(v), NEW u \in Word(v)
    PROVE  /\ Fits(v, op_add(v, f, s, u)) /\ Fits(v, op_adc(v, f, s, u))
           /\ Fits(v, op_sub(v, f, s, u)) /\ Fits(v, op_sbb(v, f, s, u))
           /\ Fits(v, op_inc(v, f, s)) /\ Fits(v, op_dec(v, f, s))
<1>1. f.cf \in {0, 1} /\ f.of \in {0, 1}
  BY FlagTypes
<1>2. s \in Int /\ u \in Int
  BY DEF Word
<1>4. \A ret \in Word(v), cf \in {0, 1}, of \in {0, 1}, af \in {0, 1} : Fits(v, Outcome(v, ret, cf, of, af))
  BY OutcomeFields
<1>5. \A x \in Int : x % Size(v) \in Word(v)
  BY CutFits
<1>6. s + u \in Int /\ s - u \in Int /\ (s + u) + f.cf \in Int /\ s - (u + f.cf) \in Int /\ s + 1 \in Int /\ s - 1 \in Int
  BY <1>1, <1>2
<1>7. Fits(v, op_add(v, f, s, u))
  <2> DEFINE ret == (s + u) % Size(v)
             cf  == Bit((s + u) % Size(v) < s)
             of  == Bit((s + u) % Size(v) < s)
             af  == Bit(Low(u) + Low(s) >= 16)
  <2>1. ret \in Word(v)
    BY <1>1, <1>5, <1>6
  <2>2. cf \in {0, 1} /\ of \in {0, 1} /\ af \in {0, 1}
    BY <1>1 DEF Bit
  <2>3. op_add(v, f, s, u) = Outcome(v, ret, cf, of, af)
    BY DEF op_add
  <2> HIDE DEF ret, cf, of, af
  <2> QED BY <1>4, <2>1, <2>2, <2>3
<1>8. Fits(v, op_adc(v, f, s, u))
  <2> DEFINE ret == IF f.cf = 1 /\ u = Ones(v) THEN u ELSE (s + u + f.cf) % Size(v)
             cf  == Bit((f.cf = 1 /\ u = Ones(v)) \/ (IF f.cf = 1 /\ u = Ones(v) THEN u ELSE (s + u + f.cf) % Size(v)) < s)
             of  == Bit((f.cf = 1 /\ u = Ones(v)) \/ (IF f.cf = 1 /\ u = Ones(v) THEN u ELSE (s + u + f.cf) % Size(v)) < s)
             af  == Bit(Low(u) + Low(s) >= 16)
  <2>1. ret \in Word(v)
    BY <1>1, <1>5, <1>6
  <2>2. cf \in {0, 1} /\ of \in {0, 1} /\ af \in {0, 1}
    BY <1>1 DEF Bit
  <2>3. op_adc(v, f, s, u) = Outcome(v, ret, cf, of, af)
    BY DEF op_adc
  <2> HIDE DEF ret, cf, of, af
  <2> QED BY <1>4, <2>1, <2>2, <2>3
<1>9. Fits(v, op_sub(v, f, s, u))
  <2> DEFINE ret == (s - u) % Size(v)
             cf  == Bit((s - u) % Size(v) > s)
             of  == Bit((s - u) % Size(v) > s)
             af  == Bit(Low(u) > Low(s))
  <2>1. ret \in Word(v)
    BY <1>1, <1>5, <1>6
  <2>2. cf \in {0, 1} /\ of \in {0, 1} /\ af \in {0, 1}
    BY <1>1 DEF Bit
  <2>3. op_sub(v, f, s, u) = Outcome(v, ret, cf, of, af)
    BY DEF op_sub
  <2> HIDE DEF ret, cf, of, af
  <2> QED BY <1>4, <2>1, <2>2, <2>3
<1>10. Fits(v, op_sbb(v, f, s, u))
  <2> DEFINE ret == IF f.cf = 1 /\ u = Ones(v) THEN u ELSE (s - (u + f.cf)) % Size(v)
             cf  == Bit((f.cf = 1 /\ u = Ones(v)) \/ (IF f.cf = 1 /\ u = Ones(v) THEN u ELSE (s - (u + f.cf)) % Size(v)) > s)
             of  == Bit((f.cf = 1 /\ u = Ones(v)) \/ (IF f.cf = 1 /\ u = Ones(v) THEN u ELSE (s - (u + f.cf)) % Size(v)) > s)
             af  == Bit(Low(u) > Low(s))
  <2>1. ret \in Word(v)
    BY <1>1, <1>5, <1>6
  <2>2. cf \in {0, 1} /\ of \in {0, 1} /\ af \in {0, 1}
    BY <1>1 DEF Bit
  <2>3. op_sbb(v, f, s, u) = Outcome(v, ret, cf, of, af)
    BY DEF op_sbb
  <2> HIDE DEF ret, cf, of, af
  <2> QED BY <1>4, <2>1, <2>2, <2>3
<1>11. Fits(v, op_inc(v, f, s))
  <2> DEFINE ret == (s + 1) % Size(v)
             cf  == f.cf
             of  == f.of
             af  == Bit(1 + Low(s) >= 16)
  <2>1. ret \in Word(v)
    BY <1>1, <1>5, <1>6
  <2>2. cf \in {0, 1} /\ of \in {0, 1} /\ af \in {0, 1}
    BY <1>1 DEF Bit
  <2>3. op_inc(v, f, s) = Outcome(v, ret, cf, of, af)
    BY DEF op_inc
  <2> HIDE DEF ret, cf, of, af
  <2> QED BY <1>4, <2>1, <2>2, <2>3
<1>12. Fits(v, op_dec(v, f, s))
  <2> DEFINE ret == (s - 1) % Size(v)
             cf  == f.cf
             of  == f.of
             af  == Bit(Low(s) < 1)
  <2>1. ret \in Word(v)
    BY <1>1, <1>5, <1>6
  <2>2. cf \in {0, 1} /\ of \in {0, 1} /\ af \in {0, 1}
    BY <1>1 DEF Bit
  <2>3. op_dec(v, f, s) = Outcome(v, ret, cf, of, af)
    BY DEF op_dec
  <2> HIDE DEF ret, cf, of, af
  <2> QED BY <1>4, <2>1, <2>2, <2>3
<1> QED BY <1>7, <1>8, <1>9, <1>10, <1>11, <1>12

-----------------------------------------------------------------------------
(***************************************************************************)
(* Numbers and their bits.                                                 *)
(***************************************************************************)
\* A bit is not changed by adding a multiple of a higher power.
LEMMA LowerBit ==
    ASSUME NEW x \in Nat, NEW b \in Nat, NEW n \in Nat, NEW k \in Nat, k < n
    PROVE  BitAt(x + Pow2[n] * b, k) = BitAt(x, k)
<1> DEFINE p == Pow2[k]
           m == Pow2[(n - k) - 1]
           q == x \div p
           r == x % p
<1>1. p \in Nat /\ p > 0 /\ m \in Nat
  <2>1. (n - k) - 1 \in Nat
    OBVIOUS
  <2> QED BY <2>1, Powers
<1>2. Pow2[n] = p * (2 * m)
  <2>1. Pow2[n] = Pow2[k] * Pow2[n - k]
    BY PowersGrow
  <2>2. (n - k) - 1 \in Nat /\ ((n - k) - 1) + 1 = n - k
    OBVIOUS
  <2>3. Pow2[n - k] = 2 * m
    BY <2>2, Powers
  <2> QED BY <2>1, <2>3
<1>3. q \in Int /\ r \in 0..(p - 1) /\ x = p * q + r
  <2> HIDE DEF p
  <2> QED BY <1>1, DivMod
<1>4. BitAt(x, k) = q % 2 /\ BitAt(x + Pow2[n] * b, k) = ((x + Pow2[n] * b) \div p) % 2
  BY DEF BitAt
<1> HIDE DEF p, m, q, r
<1>5. x + Pow2[n] * b = p * (q + 2 * (m * b)) + r
  <2>1. (p * (2 * m)) * b = p * (2 * (m * b))
    BY <1>1
  <2>2. m * b \in Nat
    BY <1>1
  <2> DEFINE c == 2 * (m * b)
  <2>3. c \in Nat
    BY <2>2
  <2> HIDE DEF c
  <2>4. p * (q + c) = p * q + p * c
    BY <1>1, <1>3, <2>3
  <2> QED BY <1>1, <1>2, <1>3, <2>1, <2>3, <2>4 DEF c
<1>6. m * b \in Nat
  BY <1>1
<1> DEFINE c == m * b
<1>7. q + 2 * c \in Int /\ x + Pow2[n] * b \in Int
  <2>1. Pow2[n] \in Nat
    BY Powers
  <2>2. Pow2[n] * b \in Int
    BY <2>1
  <2> QED BY <1>3, <1>6, <2>2
<1> HIDE DEF c
<1>8. (x + Pow2[n] * b) \div p = q + 2 * c
  BY <1>1, <1>3, <1>5, <1>7, DivModUnique DEF c
<1>9. (q + 2 * c) % 2 = q % 2
  BY <1>3, <1>6 DEF c
<1> QED BY <1>4, <1>8, <1>9

\* The bit that a power adds.
LEMMA UpperBit ==
    ASSUME NEW n \in Nat, NEW x \in 0..(Pow2[n] - 1), NEW b \in {0, 1}
    PROVE  BitAt(x + Pow2[n] * b, n) = b /\ x + Pow2[n] * b \in 0..(Pow2[n + 1] - 1)
<1> DEFINE p == Pow2[n]
<1>1. p \in Nat /\ p > 0 /\ Pow2[n + 1] = 2 * p
  BY Powers
<1>2. BitAt(x + Pow2[n] * b, n) = ((x + p * b) \div p) % 2
  BY DEF BitAt
<1> HIDE DEF p
<1>3. x \in 0..(p - 1)
  BY DEF p
<1>4. x + p * b = p * b + x /\ x + p * b \in Int /\ p * b \in 0..p
  BY <1>1, <1>3
<1>5. (x + p * b) \div p = b
  BY <1>1, <1>3, <1>4, DivModUnique
<1>6. b % 2 = b
  OBVIOUS
<1>7. x + p * b \in 0..(2 * p - 1)
  BY <1>1, <1>3, <1>4
<1>8. BitAt(x + p * b, n) = b
  BY <1>2, <1>5, <1>6 DEF p
<1> QED BY <1>1, <1>7, <1>8 DEF p

\* The number of given bits has these bits, and no more.
LEMMA NumberOfBits ==
    ASSUME NEW v \in Widths, NEW bit \in [Places(v) -> {0, 1}]
    PROVE  /\ FromBits(v, bit) \in Word(v)
           /\ \A k \in Places(v) : BitAt(FromBits(v, bit), k) = bit[k]
<1> DEFINE bits == Bits(v)
           IsLow(f) == f = [i_1 \in 0..bits |-> IF i_1 = 0 THEN 0 ELSE f[i_1 - 1] + Pow2[i_1 - 1] * bit[i_1 - 1]]
           low == CHOOSE f : IsLow(f)
           G == [p \in Nat \X Nat |-> p[1] + Pow2[p[2]] * (IF p[2] < bits THEN bit[p[2]] ELSE 0)]
<1>1. bits \in Nat /\ bits > 0 /\ Places(v) = 0..(bits - 1)
  BY Sizes DEF Places
<1>2. IsRecursion(Nat, 0, G)
  <2>1. ASSUME NEW a \in Nat, NEW k \in Nat PROVE a + Pow2[k] * (IF k < bits THEN bit[k] ELSE 0) \in Nat
    <3>1. (IF k < bits THEN bit[k] ELSE 0) \in {0, 1}
      BY <1>1
    <3>2. Pow2[k] \in Nat
      BY Powers
    <3> DEFINE c == IF k < bits THEN bit[k] ELSE 0
               d == Pow2[k]
    <3> HIDE DEF c, d
    <3>3. a + d * c \in Nat
      BY <3>1, <3>2 DEF c, d
    <3> QED BY <3>3 DEF c, d
  <2>2. G \in [Nat \X Nat -> Nat]
    <3> DEFINE H(a, k) == a + Pow2[k] * (IF k < bits THEN bit[k] ELSE 0)
    <3>1. \A a \in Nat, k \in Nat : H(a, k) \in Nat
      BY <2>1
    <3>2. G = [p \in Nat \X Nat |-> H(p[1], p[2])]
      OBVIOUS
    <3> HIDE DEF H
    <3> QED BY <3>1, <3>2
  <2> QED BY <2>2 DEF IsRecursion
<1>3. PICK g \in [Nat -> Nat] : g[0] = 0 /\ \A k \in Nat : g[k + 1] = G[<<g[k], k>>]
  <2> HIDE DEF G
  <2> QED BY <1>2, RecursiveSequence
<1>4. ASSUME NEW k \in 0..(bits - 1) PROVE g[k + 1] = g[k] + Pow2[k] * bit[k]
  <2>1. k \in Nat /\ k < bits /\ g[k] \in Nat
    BY <1>1
  <2> QED BY <1>3, <2>1
<1>5. IsLow([k \in 0..bits |-> g[k]])
  <2> DEFINE f == [k \in 0..bits |-> g[k]]
  <2>1. ASSUME NEW k \in 0..bits
        PROVE  f[k] = IF k = 0 THEN 0 ELSE f[k - 1] + Pow2[k - 1] * bit[k - 1]
    <3>1. CASE k = 0
      BY <1>3, <3>1
    <3>2. CASE k # 0
      <4>1. k - 1 \in 0..(bits - 1) /\ (k - 1) + 1 = k /\ k - 1 \in 0..bits
        <5> HIDE DEF f, G, IsLow, bits
        <5> QED BY <1>1, <3>2
      <4>2. g[(k - 1) + 1] = g[k - 1] + Pow2[k - 1] * bit[k - 1]
        BY <1>4, <4>1
      <4>3. f[k] = g[k] /\ f[k - 1] = g[k - 1]
        BY <4>1
      <4> HIDE DEF f, G
      <4> QED BY <3>2, <4>1, <4>2, <4>3
    <3> QED BY <3>1, <3>2
  <2> QED BY <2>1
<1>6. IsLow(low)
  <2> HIDE DEF IsLow
  <2> QED BY <1>5, Zenon
<1>7. FromBits(v, bit) = low[bits]
  BY DEF FromBits
<1>8. low[0] = 0 /\ \A k \in 0..(bits - 1) : low[k + 1] = low[k] + Pow2[k] * bit[k]
  <2>1. low = [i_1 \in 0..bits |-> IF i_1 = 0 THEN 0 ELSE low[i_1 - 1] + Pow2[i_1 - 1] * bit[i_1 - 1]]
    BY <1>6
  <2> HIDE DEF low
  <2>2. low[0] = 0
    BY <1>1, <2>1
  <2>3. ASSUME NEW k \in 0..(bits - 1) PROVE low[k + 1] = low[k] + Pow2[k] * bit[k]
    <3>1. k + 1 \in 0..bits /\ k + 1 # 0 /\ (k + 1) - 1 = k
      BY <1>1
    <3>2. low[k + 1] = low[(k + 1) - 1] + Pow2[(k + 1) - 1] * bit[(k + 1) - 1]
      BY <2>1, <3>1
    <3> QED BY <3>1, <3>2
  <2> QED BY <2>2, <2>3
<1> HIDE DEF low, G, IsLow
<1> DEFINE Good(k) == /\ low[k] \in 0..(Pow2[k] - 1)
                      /\ \A j \in 0..(k - 1) : BitAt(low[k], j) = bit[j]
           S == {k \in Nat : k <= bits => Good(k)}
<1>9. 0 \in S
  <2>1. Good(0)
    BY <1>8, Powers
  <2> QED BY <2>1
<1>10. ASSUME NEW k \in Nat, k \in S PROVE k + 1 \in S
  <2>1. SUFFICES ASSUME k + 1 <= bits PROVE Good(k + 1)
    OBVIOUS
  <2>2. k \in 0..(bits - 1) /\ k <= bits /\ low[k] \in 0..(Pow2[k] - 1) /\ k \in Places(v)
    <3>1. k \in 0..(bits - 1) /\ k <= bits /\ k \in Places(v)
      <4> HIDE DEF bits, Good
      <4> QED BY <1>1, <2>1
    <3>2. Good(k)
      BY <1>10, <3>1
    <3> QED BY <3>1, <3>2
  <2>3. low[k + 1] = low[k] + Pow2[k] * bit[k] /\ bit[k] \in {0, 1}
    BY <1>8, <2>2
  <2>4. BitAt(low[k + 1], k) = bit[k] /\ low[k + 1] \in 0..(Pow2[k + 1] - 1)
    BY <2>2, <2>3, UpperBit
  <2>5. ASSUME NEW j \in 0..(k - 1) PROVE BitAt(low[k + 1], j) = bit[j]
    <3>1. j \in Nat /\ j < k /\ low[k] \in Nat /\ bit[k] \in Nat
      <4>1. Pow2[k] \in Nat
        BY Powers
      <4> QED BY <2>2, <2>3, <4>1
    <3>2. BitAt(low[k + 1], j) = BitAt(low[k], j)
      <4> DEFINE a == low[k]
                 b == bit[k]
      <4>1. a \in Nat /\ b \in Nat /\ low[k + 1] = a + Pow2[k] * b
        BY <2>3, <3>1
      <4> HIDE DEF a, b
      <4>2. BitAt(a + Pow2[k] * b, j) = BitAt(a, j)
        <5>1. k \in Nat /\ j \in Nat /\ j < k /\ a \in Nat /\ b \in Nat
          BY <3>1, <4>1
        <5>2. ASSUME NEW x \in Nat, NEW y \in Nat, NEW m \in Nat, NEW l \in Nat, l < m 
              PROVE BitAt(x + Pow2[m] * y, l) = BitAt(x, l)
          BY <5>2, LowerBit
        <5> QED BY <5>1, <5>2
      <4> QED BY <4>1, <4>2 DEF a, b
    <3>3. BitAt(low[k], j) = bit[j]
      BY <1>10, <2>2
    <3> QED BY <3>2, <3>3
  <2>6. ASSUME NEW j \in 0..((k + 1) - 1) PROVE BitAt(low[k + 1], j) = bit[j]
    <3>1. j = k \/ j \in 0..(k - 1)
      OBVIOUS
    <3> QED BY <2>4, <2>5, <3>1
  <2> QED BY <2>4, <2>6
<1>11. Nat \subseteq S
  <2> HIDE DEF S
  <2> QED BY <1>9, <1>10, NatSetInduction
<1>12. Good(bits)
  <2> HIDE DEF bits, Good
  <2>1. bits \in S /\ bits <= bits
    BY <1>1, <1>11
  <2> QED BY <2>1
<1>13. Ones(v) = Pow2[bits] - 1
  BY DEF Ones, Size
<1> QED BY <1>1, <1>7, <1>12, <1>13 DEF Word

\* Two numbers of a width with the same bits are the same.
LEMMA SameBits ==
    ASSUME NEW v \in Widths, NEW x \in Word(v), NEW y \in Word(v),
           \A k \in Places(v) : BitAt(x, k) = BitAt(y, k)
    PROVE  x = y
<1> DEFINE S == {n \in Nat : \A a, b \in 0..(Pow2[n] - 1) :
                   (\A k \in 0..(n - 1) : BitAt(a, k) = BitAt(b, k)) => a = b}
<1>1. 0 \in S
  BY Powers
<1>2. ASSUME NEW n \in Nat, n \in S PROVE n + 1 \in S
  <2>1. SUFFICES ASSUME NEW a \in 0..(Pow2[n + 1] - 1), NEW b \in 0..(Pow2[n + 1] - 1),
                        \A k \in 0..((n + 1) - 1) : BitAt(a, k) = BitAt(b, k)
                 PROVE  a = b
    OBVIOUS
  <2> DEFINE p == Pow2[n]
  <2>2. p \in Nat /\ p > 0 /\ Pow2[n + 1] = 2 * p
    BY Powers
  <2>3. ASSUME NEW c \in 0..(2 * p - 1)
        PROVE  /\ BitAt(c, n) \in {0, 1} /\ c % p \in 0..(p - 1)
               /\ c = (c % p) + p * BitAt(c, n)
    <3> DEFINE q == c \div p
               r == c % p
    <3>1. q \in Int /\ r \in 0..(p - 1) /\ c = p * q + r
      <4> HIDE DEF p
      <4> QED BY <2>2, DivMod
    <3>2. BitAt(c, n) = q % 2
      BY DEF BitAt
    <3> HIDE DEF p, q, r
    <3>3. q = 0 \/ q = 1
      <4>1. CASE q >= 2
        <5>1. p * q >= p * 2
          BY <2>2, <3>1, <4>1
        <5> QED BY <2>2, <3>1, <5>1
      <4>2. CASE q <= -1
        <5>1. p * q <= p * (-1)
          BY <2>2, <3>1, <4>2
        <5> QED BY <2>2, <3>1, <5>1
      <4> QED BY <3>1, <4>1, <4>2
    <3>4. q % 2 = q
      BY <3>3
    <3>5. c = r + p * q
      BY <2>2, <3>1
    <3> QED BY <3>1, <3>2, <3>3, <3>4, <3>5 DEF r
  <2>4. a \in 0..(2 * p - 1) /\ b \in 0..(2 * p - 1)
    BY <2>2
  <2>5. BitAt(a, n) = BitAt(b, n)
    BY <2>1
  <2>6. ASSUME NEW k \in 0..(n - 1) PROVE BitAt(a % p, k) = BitAt(b % p, k)
    <3>1. k \in Nat /\ k < n /\ BitAt(a, k) = BitAt(b, k)
      BY <2>1
    <3>2. a % p \in Nat /\ b % p \in Nat /\ BitAt(a, n) \in Nat /\ BitAt(b, n) \in Nat
      <4> HIDE DEF p
      <4>1. a % p \in 0..(p - 1) /\ b % p \in 0..(p - 1) /\ BitAt(a, n) \in {0, 1} /\ BitAt(b, n) \in {0, 1}
        BY <2>3, <2>4
      <4> QED BY <2>2, <4>1
    <3>3. BitAt((a % p) + p * BitAt(a, n), k) = BitAt(a % p, k)
      BY <3>1, <3>2, LowerBit
    <3>4. BitAt((b % p) + p * BitAt(b, n), k) = BitAt(b % p, k)
      BY <3>1, <3>2, LowerBit
    <3> HIDE DEF p
    <3> QED BY <2>3, <2>4, <3>1, <3>3, <3>4
  <2>7. a % p = b % p
    BY <1>2, <2>3, <2>4, <2>6
  <2> HIDE DEF p
  <2> QED BY <2>3, <2>4, <2>5, <2>7
<1>3. Nat \subseteq S
  <2> HIDE DEF S
  <2> QED BY <1>1, <1>2, NatSetInduction
<1>4. Bits(v) \in Nat /\ Word(v) = 0..(Pow2[Bits(v)] - 1) /\ Places(v) = 0..(Bits(v) - 1)
  BY Sizes DEF Word, Ones, Size, Places
<1>5. Bits(v) \in S
  BY <1>3, <1>4
<1> QED BY <1>4, <1>5

-----------------------------------------------------------------------------
(***************************************************************************)
(* The other operations on words.                                          *)
(***************************************************************************)
\* A bit of a number, and the exclusive or of two numbers' lowest bits.
LEMMA BitRange ==
    ASSUME NEW x \in Nat, NEW k \in Nat
    PROVE  BitAt(x, k) \in {0, 1}
<1> DEFINE p == Pow2[k]
           q == x \div p
<1>1. p \in Nat /\ p > 0
  BY Powers
<1>2. q \in Int
  <2> HIDE DEF p
  <2> QED BY <1>1, DivMod
<1>3. BitAt(x, k) = q % 2
  BY DEF BitAt
<1> HIDE DEF q
<1> QED BY <1>2, <1>3

\* The exclusive or is a bit.
LEMMA XorRange == \A a, b \in Int : Xor(a, b) \in {0, 1}
  BY DEF Xor

\* XOR, OR and AND bit by bit, and what they return.
LEMMA LogicFits ==
    ASSUME NEW v \in Widths, NEW f \in FlagSet, NEW s \in Word(v), NEW u \in Word(v)
    PROVE  /\ Fits(v, op_xor(v, f, s, u)) /\ Fits(v, op_or(v, f, s, u))
           /\ Fits(v, op_and(v, f, s, u)) /\ Fits(v, op_test(v, f, s, u))
           /\ \A k \in Places(v) :
                 /\ BitAt(op_xor(v, f, s, u).ret, k) = Xor(BitAt(s, k), BitAt(u, k))
                 /\ BitAt(op_or(v, f, s, u).ret, k) = Bit(BitAt(s, k) + BitAt(u, k) > 0)
                 /\ BitAt(op_and(v, f, s, u).ret, k) = BitAt(s, k) * BitAt(u, k)
<1>1. \A k \in Places(v) : BitAt(s, k) \in {0, 1} /\ BitAt(u, k) \in {0, 1}
  <2>1. s \in Nat /\ u \in Nat /\ Places(v) \subseteq Nat
    BY Sizes DEF Word, Places
  <2> QED BY <2>1, BitRange
<1>2. XorBits(v, s, u) \in [Places(v) -> {0, 1}]
  BY <1>1 DEF XorBits, Xor
<1>3. OrBits(v, s, u) \in [Places(v) -> {0, 1}]
  BY <1>1 DEF OrBits, Bit
<1>4. AndBits(v, s, u) \in [Places(v) -> {0, 1}]
  BY <1>1 DEF AndBits
<1> DEFINE x == FromBits(v, XorBits(v, s, u))
           o == FromBits(v, OrBits(v, s, u))
           a == FromBits(v, AndBits(v, s, u))
<1>5. x \in Word(v) /\ \A k \in Places(v) : BitAt(x, k) = XorBits(v, s, u)[k]
  BY <1>2, NumberOfBits
<1>6. o \in Word(v) /\ \A k \in Places(v) : BitAt(o, k) = OrBits(v, s, u)[k]
  BY <1>3, NumberOfBits
<1>7. a \in Word(v) /\ \A k \in Places(v) : BitAt(a, k) = AndBits(v, s, u)[k]
  BY <1>4, NumberOfBits
<1>8. op_xor(v, f, s, u) = Outcome(v, x, 0, 0, 0) /\ op_or(v, f, s, u) = Outcome(v, o, 0, 0, 0)
      /\ op_and(v, f, s, u) = Outcome(v, a, 0, 0, 0)
  BY DEF op_xor, op_or, op_and
<1> HIDE DEF x, o, a
<1>9. \A ret \in Word(v) : Fits(v, Outcome(v, ret, 0, 0, 0)) /\ Outcome(v, ret, 0, 0, 0).ret = ret
  BY OutcomeFields
<1>10. Fits(v, op_xor(v, f, s, u)) /\ Fits(v, op_or(v, f, s, u)) /\ Fits(v, op_and(v, f, s, u))
  BY <1>5, <1>6, <1>7, <1>8, <1>9
<1>11. op_xor(v, f, s, u).ret = x /\ op_or(v, f, s, u).ret = o /\ op_and(v, f, s, u).ret = a
  BY <1>5, <1>6, <1>7, <1>8, <1>9
<1>12. Fits(v, op_test(v, f, s, u))
  <2> DEFINE r == op_and(v, f, s, u)
             p == Parity[a % Pow2[ByteBits]]
  <2>1. p \in {0, 1}
    <3>1. Pow2[ByteBits] = 256 /\ a \in Nat
      BY <1>7, SmallPowers DEF ByteBits, Word
    <3>2. a % 256 \in Nat
      BY <3>1
    <3> QED BY <3>1, <3>2, Parities
  <2>2. op_test(v, f, s, u) = [r EXCEPT !.fl.pf = p]
    BY <1>11 DEF op_test
  <2>3. r = [ret |-> a, fl |-> Flags(v, a, 0, 0, 0)] /\ Flags(v, a, 0, 0, 0) \in FlagSet
    BY <1>7, <1>8, <1>9 DEF Outcome, Fits
  <2> HIDE DEF p, r
  <2>4. [r EXCEPT !.fl.pf = p] = [ret |-> a, fl |-> [Flags(v, a, 0, 0, 0) EXCEPT !.pf = p]]
    BY <2>3
  <2>5. [Flags(v, a, 0, 0, 0) EXCEPT !.pf = p] \in FlagSet
    BY <2>1, <2>3 DEF FlagSet
  <2> QED BY <1>7, <2>2, <2>4, <2>5 DEF Fits
<1>13. ASSUME NEW k \in Places(v)
       PROVE  /\ BitAt(op_xor(v, f, s, u).ret, k) = Xor(BitAt(s, k), BitAt(u, k))
              /\ BitAt(op_or(v, f, s, u).ret, k) = Bit(BitAt(s, k) + BitAt(u, k) > 0)
              /\ BitAt(op_and(v, f, s, u).ret, k) = BitAt(s, k) * BitAt(u, k)
  <2>1. XorBits(v, s, u)[k] = Xor(BitAt(s, k), BitAt(u, k))
    BY DEF XorBits
  <2>2. OrBits(v, s, u)[k] = Bit(BitAt(s, k) + BitAt(u, k) > 0)
    BY DEF OrBits, Bit
  <2>3. AndBits(v, s, u)[k] = BitAt(s, k) * BitAt(u, k)
    BY DEF AndBits
  <2> QED BY <1>5, <1>6, <1>7, <1>11, <2>1, <2>2, <2>3
<1> QED BY <1>10, <1>12, <1>13

\* NOT and NEG.
LEMMA SignsFit ==
    ASSUME NEW v \in Widths, NEW f \in FlagSet, NEW s \in Word(v)
    PROVE  Fits(v, op_not(v, f, s)) /\ Fits(v, op_neg(v, f, s))
<1>1. Ones(v) - s \in Word(v)
  BY Sizes DEF Word
<1>2. Fits(v, op_not(v, f, s))
  BY <1>1 DEF op_not, Fits
<1>3. (Size(v) - s) % Size(v) \in Word(v)
  <2>1. Size(v) - s \in Int
    BY Sizes DEF Word
  <2> QED BY <2>1, CutFits
<1>4. Fits(v, op_neg(v, f, s))
  <2> DEFINE z == Bit(s = 0)
             ret == (Size(v) - s) % Size(v)
  <2>1. z \in {0, 1}
    BY DEF Bit
  <2>2. op_neg(v, f, s) = Outcome(v, ret, z, z, 0)
    BY DEF op_neg
  <2> HIDE DEF z, ret
  <2>3. ret \in Word(v)
    BY <1>3 DEF ret
  <2> QED BY <2>1, <2>2, <2>3, OutcomeFields
<1> QED BY <1>2, <1>4

\* A word divided by a power of two is a word, and no bits are left of all of them.
LEMMA ShiftsRight ==
    ASSUME NEW v \in Widths, NEW x \in Word(v), NEW n \in Nat
    PROVE  /\ x \div Pow2[n] \in Word(v) /\ x \div Pow2[n] <= x
           /\ ShiftRight(v, x, n) \in Word(v) /\ ShiftRight(v, x, n) = x \div Pow2[n]
           /\ (n >= Bits(v) => x \div Pow2[n] = 0)
<1> DEFINE p == Pow2[n]
           q == x \div p
<1>1. p \in Nat /\ p > 0 /\ x \in Nat /\ x <= Ones(v) /\ Ones(v) \in Nat
  BY Powers, Sizes DEF Word
<1>2. q \in Int /\ x % p \in 0..(p - 1) /\ x = p * q + (x % p)
  <2> HIDE DEF p
  <2> QED BY <1>1, DivMod
<1>3. q >= 0 /\ q <= x
  <2> DEFINE r == x % p
  <2> HIDE DEF p, q, r
  <2>0. r \in 0..(p - 1) /\ x = p * q + r
    BY <1>2 DEF r
  <2>1. CASE q < 0
    <3>1. p * q <= p * (-1)
      BY <1>1, <1>2, <2>1
    <3>2. p * q \in Int /\ p * (-1) = 0 - p
      BY <1>1, <1>2
    <3>3. x < 0
      BY <1>1, <2>0, <3>1, <3>2
    <3> QED BY <1>1, <3>3
  <2>2. CASE q >= 0
    <3>1. p * q >= 1 * q
      BY <1>1, <1>2, <2>2
    <3> QED BY <1>1, <1>2, <2>0, <2>2, <3>1
  <2> QED BY <1>2, <2>1, <2>2
<1>4. ASSUME n >= Bits(v) PROVE q = 0
  <2>1. Pow2[Bits(v)] <= p
    BY <1>4, Sizes, PowersGrow
  <2>2. x < p
    BY <1>1, <2>1, Sizes DEF Size
  <2>3. x = p * 0 + x /\ x \in 0..(p - 1)
    BY <1>1, <2>2
  <2> HIDE DEF p
  <2> QED BY <1>1, <2>3, DivModUnique
<1>5. q \in Word(v)
  BY <1>1, <1>2, <1>3 DEF Word
<1>6. ShiftRight(v, x, n) = q
  BY <1>4 DEF ShiftRight
<1> HIDE DEF q
<1>7. q \in Word(v) /\ q <= x /\ ShiftRight(v, x, n) = q /\ (n >= Bits(v) => q = 0)
  BY <1>3, <1>4, <1>5, <1>6
<1> QED BY <1>7 DEF q

\* What shifting and rotating by nothing returns.
LEMMA UnchangedFits ==
    ASSUME NEW v \in Widths, NEW f \in FlagSet, NEW s \in Word(v)
    PROVE  Fits(v, Unchanged(f, s))
  BY DEF Unchanged, Fits

\* SHL.
LEMMA ShiftLeftFits ==
    ASSUME NEW v \in Widths, NEW f \in FlagSet, NEW s \in Word(v), NEW n \in Nat
    PROVE  Fits(v, op_shl(v, f, s, n))
<1>1. CASE n = 0
  BY <1>1, UnchangedFits DEF op_shl
<1>2. CASE n # 0
  <2>1. ASSUME NEW x \in Word(v), NEW m \in Nat PROVE ShiftLeft(v, x, m) \in Word(v)
    <3>1. 0 \in Word(v)
      BY Sizes DEF Word
    <3>2. x * Pow2[m] \in Int
      <4>1. x \in Int /\ Pow2[m] \in Int
        BY Powers DEF Word
      <4> QED BY <4>1
    <3>3. (x * Pow2[m]) % Size(v) \in Word(v)
      BY <3>2, CutFits
    <3> QED BY <3>1, <3>3 DEF ShiftLeft
  <2> DEFINE part == ShiftLeft(v, s, n - 1)
             ret  == ShiftLeft(v, part, 1)
             cf   == Msb(v, part)
             of   == IF n = 1 THEN Xor(Msb(v, ret), cf) ELSE 0
  <2>2. part \in Word(v)
    <3>1. n - 1 \in Nat
      BY <1>2
    <3> QED BY <2>1, <3>1
  <2>3. ret \in Word(v)
    <3> HIDE DEF part
    <3> QED BY <2>1, <2>2
  <2>4. op_shl(v, f, s, n) = Outcome(v, ret, cf, of, 0)
    BY <1>2 DEF op_shl
  <2> HIDE DEF part, ret
  <2>5. cf \in {0, 1} /\ Msb(v, ret) \in {0, 1}
    BY <2>2, <2>3, SignBit
  <2>6. of \in {0, 1}
    <3> HIDE DEF cf
    <3> QED BY <2>5, XorRange
  <2> HIDE DEF cf, of
  <2> QED BY <2>3, <2>4, <2>5, <2>6, OutcomeFields
<1> QED BY <1>1, <1>2

\* A shift to the right, with a fill that fits over what is left.
LEMMA ShiftedRightFits ==
    ASSUME NEW v \in Widths, NEW f \in FlagSet, NEW s \in Word(v), NEW n \in Nat, NEW fill \in Nat,
           n > 0 => ((ShiftRight(v, s, n - 1) \div 2) + fill) \in Word(v)
    PROVE  Fits(v, ShiftedRight(v, f, s, n, fill))
<1>1. CASE n = 0
  BY <1>1, UnchangedFits DEF ShiftedRight
<1>2. CASE n # 0
  <2> DEFINE part == ShiftRight(v, s, n - 1)
             ret  == (part \div 2) + fill
             cf   == part % 2
             of   == IF n = 1 THEN Msb(v, s) ELSE 0
  <2>1. part \in Word(v)
    <3>1. n - 1 \in Nat
      BY <1>2
    <3> QED BY <3>1, ShiftsRight
  <2>2. ret \in Word(v)
    BY <1>2
  <2>3. ShiftedRight(v, f, s, n, fill) = Outcome(v, ret, cf, of, 0)
    BY <1>2 DEF ShiftedRight
  <2>4. cf \in {0, 1}
    <3> HIDE DEF part
    <3> QED BY <2>1 DEF Word
  <2>5. of \in {0, 1}
    BY SignBit
  <2> HIDE DEF cf, of, ret
  <2> QED BY <2>2, <2>3, <2>4, <2>5, OutcomeFields
<1> QED BY <1>1, <1>2

\* Half of a word is a word.
LEMMA HalfWord ==
    ASSUME NEW v \in Widths, NEW x \in Word(v)
    PROVE  x \div 2 \in Word(v) /\ x % 2 \in {0, 1}
<1>1. x \in Nat /\ x <= Ones(v) /\ Ones(v) \in Nat
  BY Sizes DEF Word
<1>2. x \div 2 \in Nat /\ x \div 2 <= x /\ x % 2 \in {0, 1}
  BY <1>1
<1> QED BY <1>1, <1>2 DEF Word

\* SHR.
LEMMA ShrFits ==
    ASSUME NEW v \in Widths, NEW f \in FlagSet, NEW s \in Word(v), NEW n \in Nat
    PROVE  Fits(v, op_shr(v, f, s, n))
<1>1. ASSUME n > 0 PROVE ((ShiftRight(v, s, n - 1) \div 2) + 0) \in Word(v)
  <2>1. n - 1 \in Nat
    BY <1>1
  <2>2. ShiftRight(v, s, n - 1) \in Word(v)
    BY <2>1, ShiftsRight
  <2>3. ShiftRight(v, s, n - 1) \div 2 \in Word(v)
    BY <2>2, HalfWord
  <2> QED BY <2>3 DEF Word
<1>2. Fits(v, ShiftedRight(v, f, s, n, 0))
  BY <1>1, ShiftedRightFits
<1> QED BY <1>2 DEF op_shr

\* SAR: the fill of a byte takes the places that the shift has left free.
LEMMA SarFits ==
    ASSUME NEW v \in Widths, NEW f \in FlagSet, NEW s \in Word(v), NEW n \in Nat
    PROVE  Fits(v, op_sar(v, f, s, n))
<1>1. CASE ~(v = "byte" /\ Msb(v, s) = 1 /\ n <= ByteBits)
  <2>1. op_sar(v, f, s, n) = op_shr(v, f, s, n)
    BY <1>1 DEF op_sar, op_shr
  <2> QED BY <2>1, ShrFits
<1>2. CASE v = "byte" /\ Msb(v, s) = 1 /\ n <= ByteBits
  <2> DEFINE fill == Size(v) - Pow2[ByteBits - n]
  <2>1. op_sar(v, f, s, n) = ShiftedRight(v, f, s, n, fill)
    BY <1>2 DEF op_sar
  <2>2. Size(v) = 256 /\ Bits(v) = 8 /\ n <= 8 /\ ByteBits = 8 /\ s \in 0..255 /\ Word(v) = 0..255
    BY <1>2, Sizes DEF ByteBits, Word
  <2>3. fill = 256 - Pow2[8 - n]
    BY <2>2
  <2>4. n \in 0..8
    BY <2>2
  <2> HIDE DEF fill
  <2>5. ASSUME n > 0 PROVE /\ fill \in Nat
                            /\ ((ShiftRight(v, s, n - 1) \div 2) + fill) \in 0..255
    <3>1. n - 1 \in Nat
      BY <2>5
    <3>2. ShiftRight(v, s, n - 1) = s \div Pow2[n - 1]
      BY <3>1, ShiftsRight
    <3>3. CASE n = 1
      <4>1. Pow2[n - 1] = 1 /\ Pow2[8 - n] = 128
        BY <3>3, SmallPowers, Powers
      <4> QED BY <2>2, <2>3, <3>2, <4>1
    <3>4. CASE n = 2
      <4>1. Pow2[n - 1] = 2 /\ Pow2[8 - n] = 64
        BY <3>4, SmallPowers
      <4> QED BY <2>2, <2>3, <3>2, <4>1
    <3>5. CASE n = 3
      <4>1. Pow2[n - 1] = 4 /\ Pow2[8 - n] = 32
        BY <3>5, SmallPowers
      <4> QED BY <2>2, <2>3, <3>2, <4>1
    <3>6. CASE n = 4
      <4>1. Pow2[n - 1] = 8 /\ Pow2[8 - n] = 16
        BY <3>6, SmallPowers
      <4> QED BY <2>2, <2>3, <3>2, <4>1
    <3>7. CASE n = 5
      <4>1. Pow2[n - 1] = 16 /\ Pow2[8 - n] = 8
        BY <3>7, SmallPowers
      <4> QED BY <2>2, <2>3, <3>2, <4>1
    <3>8. CASE n = 6
      <4>1. Pow2[n - 1] = 32 /\ Pow2[8 - n] = 4
        BY <3>8, SmallPowers
      <4> QED BY <2>2, <2>3, <3>2, <4>1
    <3>9. CASE n = 7
      <4>1. Pow2[n - 1] = 64 /\ Pow2[8 - n] = 2
        BY <3>9, SmallPowers
      <4> QED BY <2>2, <2>3, <3>2, <4>1
    <3>10. CASE n = 8
      <4>1. Pow2[n - 1] = 128 /\ Pow2[8 - n] = 1
        BY <3>10, SmallPowers, Powers
      <4> QED BY <2>2, <2>3, <3>2, <4>1
    <3> QED BY <2>4, <2>5, <3>3, <3>4, <3>5, <3>6, <3>7, <3>8, <3>9, <3>10
  <2>6. CASE n = 0
    BY <2>1, <2>6, UnchangedFits DEF ShiftedRight
  <2>7. CASE n # 0
    <3>1. n > 0 /\ fill \in Nat /\ ((ShiftRight(v, s, n - 1) \div 2) + fill) \in Word(v)
      BY <2>2, <2>5, <2>7
    <3>2. Fits(v, ShiftedRight(v, f, s, n, fill))
      BY <3>1, ShiftedRightFits
    <3> QED BY <2>1, <3>2
  <2> QED BY <2>6, <2>7
<1> QED BY <1>1, <1>2

-----------------------------------------------------------------------------
(***************************************************************************)
(* Rotations: the two parts of a number change places.                     *)
(***************************************************************************)
\* A number of some bits in two parts.
LEMMA TwoParts ==
    ASSUME NEW bits \in Nat, NEW n \in 0..bits, NEW x \in 0..(Pow2[bits] - 1)
    PROVE  \E q \in 0..(Pow2[n] - 1), r \in 0..(Pow2[bits - n] - 1) : x = Pow2[bits - n] * q + r
<1> DEFINE p == Pow2[bits - n]
           m == Pow2[n]
           q == x \div p
           r == x % p
<1>1. p \in Nat /\ p > 0 /\ m \in Nat /\ m > 0 /\ bits - n \in Nat /\ n \in Nat
  BY Powers
<1>2. Pow2[bits] = p * m
  <2>1. (bits - n) + n = bits
    OBVIOUS
  <2> QED BY <1>1, <2>1, PowerOfSum
<1>3. q \in Int /\ r \in 0..(p - 1) /\ x = p * q + r
  <2> HIDE DEF p
  <2> QED BY <1>1, DivMod
<1>4. x \in 0..(p * m - 1)
  BY <1>2
<1>5. q \in 0..(m - 1)
  <2> HIDE DEF p, m, q, r
  <2>0. p * q \in Int /\ p * m \in Int
    BY <1>1, <1>3
  <2>1. CASE q < 0
    <3>1. p * q <= p * (-1)
      BY <1>1, <1>3, <2>1
    <3>2. p * (-1) = 0 - p
      BY <1>1
    <3> QED BY <1>1, <1>3, <1>4, <2>0, <3>1, <3>2
  <2>2. CASE q >= m
    <3>1. p * q >= p * m
      BY <1>1, <1>3, <2>2
    <3> QED BY <1>1, <1>3, <1>4, <2>0, <3>1
  <2> QED BY <1>1, <1>3, <2>1, <2>2
<1> QED BY <1>3, <1>5

\* Two parts put together again are a number of as many bits.
LEMMA PartsFit ==
    ASSUME NEW bits \in Nat, NEW n \in 0..bits,
           NEW q \in 0..(Pow2[n] - 1), NEW r \in 0..(Pow2[bits - n] - 1)
    PROVE  Pow2[bits - n] * q + r \in 0..(Pow2[bits] - 1)
<1> DEFINE p == Pow2[bits - n]
           m == Pow2[n]
<1>1. p \in Nat /\ p > 0 /\ m \in Nat /\ m > 0 /\ bits - n \in Nat /\ n \in Nat
  BY Powers
<1>2. Pow2[bits] = p * m
  <2>1. (bits - n) + n = bits
    OBVIOUS
  <2> QED BY <1>1, <2>1, PowerOfSum
<1>3. q \in 0..(m - 1) /\ r \in 0..(p - 1)
  OBVIOUS
<1> HIDE DEF p, m
<1>4. p * q <= p * (m - 1)
  BY <1>1, <1>3
<1>5. p * (m - 1) = p * m - p /\ p * m \in Int /\ p * q \in Nat
  BY <1>1, <1>3
<1>6. p * q + r \in 0..(p * m - 1)
  BY <1>1, <1>3, <1>4, <1>5
<1> QED BY <1>2, <1>6 DEF p

\* A rotation exchanges the parts.
LEMMA Rotation ==
    ASSUME NEW bits \in Nat, NEW n \in 0..bits,
           NEW q \in 0..(Pow2[n] - 1), NEW r \in 0..(Pow2[bits - n] - 1)
    PROVE  RotatedLeft(Pow2[bits - n] * q + r, n, bits) = Pow2[n] * r + q
<1> DEFINE p == Pow2[bits - n]
           m == Pow2[n]
           x == p * q + r
<1>1. p \in Nat /\ p > 0 /\ m \in Nat /\ m > 0 /\ bits - n \in Nat /\ n \in Nat
  BY Powers
<1>2. Pow2[bits] = p * m
  <2>1. (bits - n) + n = bits
    OBVIOUS
  <2> QED BY <1>1, <2>1, PowerOfSum
<1>3. q \in 0..(m - 1) /\ r \in 0..(p - 1)
  OBVIOUS
<1>4. RotatedLeft(x, n, bits) = ((x * m) % (p * m)) + (x \div p)
  BY <1>2 DEF RotatedLeft
<1> HIDE DEF p, m
<1>5. p * q \in Int /\ p * m \in Nat /\ m * r \in Nat
  BY <1>1, <1>3
<1>6. x \div p = q
  BY <1>1, <1>3, <1>5, DivModUnique
<1>7. x * m = (p * m) * q + m * r
  BY <1>1, <1>3
<1>8. m * r \in 0..(p * m - 1)
  <2>1. m * r <= m * (p - 1)
    BY <1>1, <1>3
  <2>2. m * (p - 1) = p * m - m
    BY <1>1
  <2> QED BY <1>1, <1>3, <1>5, <2>1, <2>2
<1>9. p * m > 0 /\ x * m \in Int
  BY <1>1, <1>3, <1>5, <1>8
<1>10. (x * m) % (p * m) = m * r
  <2> DEFINE s == p * m
             y == x * m
             z == m * r
  <2>1. s \in Nat /\ s > 0 /\ y \in Int /\ z \in 0..(s - 1) /\ y = s * q + z /\ q \in Int
    BY <1>3, <1>5, <1>7, <1>8, <1>9
  <2> HIDE DEF s, y, z
  <2>2. y % s = z
    BY <2>1, DivModUnique
  <2> QED BY <2>2 DEF s, y, z
<1> HIDE DEF x
<1>11. RotatedLeft(x, n, bits) = m * r + q
  BY <1>4, <1>6, <1>10
<1> QED BY <1>11 DEF x, p, m

\* A rotation keeps the number of bits, and is undone by the rotation of the rest.
LEMMA RotationUndone ==
    ASSUME NEW bits \in Nat, NEW n \in 0..bits, NEW x \in 0..(Pow2[bits] - 1)
    PROVE  /\ RotatedLeft(x, n, bits) \in 0..(Pow2[bits] - 1)
           /\ RotatedLeft(RotatedLeft(x, n, bits), bits - n, bits) = x
<1>1. PICK q \in 0..(Pow2[n] - 1), r \in 0..(Pow2[bits - n] - 1) : x = Pow2[bits - n] * q + r
  BY TwoParts
<1> DEFINE k == bits - n
           y == Pow2[n] * r + q
<1>2. k \in 0..bits /\ bits - k = n
  OBVIOUS
<1>3. RotatedLeft(x, n, bits) = y
  BY <1>1, Rotation
<1> HIDE DEF k
<1>4. r \in 0..(Pow2[k] - 1) /\ q \in 0..(Pow2[bits - k] - 1)
  BY <1>2 DEF k
<1>5. y = Pow2[bits - k] * r + q
  BY <1>2
<1>6. y \in 0..(Pow2[bits] - 1)
  BY <1>2, <1>4, <1>5, PartsFit
<1>7. RotatedLeft(y, k, bits) = Pow2[k] * q + r
  BY <1>2, <1>4, <1>5, Rotation
<1> HIDE DEF y
<1> QED BY <1>1, <1>3, <1>6, <1>7 DEF k

\* ROL and ROR.
LEMMA RotationsFit ==
    ASSUME NEW v \in Widths, NEW f \in FlagSet, NEW s \in Word(v), NEW u \in Word(v)
    PROVE  /\ Fits(v, op_rol(v, f, s, u)) /\ Fits(v, op_ror(v, f, s, u))
           /\ op_rol(v, f, s, u).ret = RotatedLeft(s, u % Bits(v), Bits(v)) \/ u % Bits(v) = 0
           /\ op_ror(v, f, s, u).ret = RotatedLeft(s, Bits(v) - (u % Bits(v)), Bits(v)) \/ u % Bits(v) = 0
           /\ u % Bits(v) = 0 => op_rol(v, f, s, u).ret = s /\ op_ror(v, f, s, u).ret = s
<1> DEFINE n == u % Bits(v)
           l == RotatedLeft(s, n, Bits(v))
           r == RotatedLeft(s, Bits(v) - n, Bits(v))
<1>1. Bits(v) \in Nat /\ Bits(v) > 0 /\ u \in Nat
  BY Sizes DEF Word
<1>2. n \in 0..(Bits(v) - 1)
  BY <1>1, DivMod
<1>3. Word(v) = 0..(Pow2[Bits(v)] - 1)
  BY Sizes DEF Word, Ones, Size
<1> HIDE DEF n
<1>4. n \in 0..Bits(v) /\ Bits(v) - n \in 0..Bits(v)
  BY <1>1, <1>2
<1>5. l \in Word(v) /\ r \in Word(v)
  BY <1>1, <1>3, <1>4, RotationUndone
<1>6. CASE n = 0
  BY <1>6, UnchangedFits DEF op_rol, op_ror, n, Unchanged
<1>7. CASE n # 0
  <2> DEFINE cl == l % 2
             ol == IF n = 1 THEN Xor(Msb(v, l), l % 2) ELSE 0
             cr == Msb(v, r)
             top == r \div Pow2[Bits(v) - 2]
             or == IF n = 1 THEN Xor(top \div 2, top % 2) ELSE 0
  <2>1. op_rol(v, f, s, u) = Outcome(v, l, cl, ol, 0)
    BY <1>7 DEF op_rol, n
  <2>2. op_ror(v, f, s, u) = Outcome(v, r, cr, or, 0)
    BY <1>7 DEF op_ror, n
  <2> HIDE DEF l, r
  <2>3. cl \in {0, 1} /\ Msb(v, l) \in {0, 1} /\ cr \in {0, 1} /\ l \in Nat /\ r \in Nat
    BY <1>5, SignBit DEF Word
  <2>4. ol \in {0, 1}
    <3>1. l % 2 \in Int /\ Msb(v, l) \in Int
      BY <2>3
    <3> QED BY <3>1, XorRange
  <2>5. or \in {0, 1}
    <3>1. Bits(v) - 2 \in Nat
      BY <1>1, Sizes
    <3>2. top \in Int
      <4> DEFINE k == Bits(v) - 2
      <4> HIDE DEF k
      <4>1. k \in Nat
        BY <3>1 DEF k
      <4>2. r \div Pow2[k] \in Word(v)
        BY <1>5, <4>1, ShiftsRight
      <4>3. \A x \in Word(v) : x \in Int
        BY DEF Word
      <4> QED BY <4>2, <4>3 DEF k
    <3> HIDE DEF top
    <3>3. top \div 2 \in Int /\ top % 2 \in Int
      BY <3>2
    <3> QED BY <3>3, XorRange
  <2> HIDE DEF cl, ol, cr, or, top
  <2>6. Fits(v, op_rol(v, f, s, u)) /\ op_rol(v, f, s, u).ret = l
    BY <1>5, <2>1, <2>3, <2>4, OutcomeFields
  <2>7. Fits(v, op_ror(v, f, s, u)) /\ op_ror(v, f, s, u).ret = r
    BY <1>5, <2>2, <2>3, <2>5, OutcomeFields
  <2> QED BY <1>7, <2>6, <2>7 DEF n, l, r
<1> QED BY <1>6, <1>7

\* A word with CF above it, as a number of one bit more, taken apart again.
LEMMA WithCarry ==
    ASSUME NEW v \in Widths
    PROVE  /\ Bits(v) + 1 \in Nat
           /\ \A c \in {0, 1}, x \in Word(v) :
                 /\ c * Size(v) + x \in 0..(Pow2[Bits(v) + 1] - 1)
                 /\ (c * Size(v) + x) % Size(v) = x /\ (c * Size(v) + x) \div Size(v) = c
           /\ \A y \in 0..(Pow2[Bits(v) + 1] - 1) :
                 /\ y % Size(v) \in Word(v) /\ y \div Size(v) \in {0, 1}
                 /\ y = (y \div Size(v)) * Size(v) + (y % Size(v))
<1> DEFINE z == Size(v)
<1>1. z \in Nat /\ z > 0 /\ Pow2[Bits(v) + 1] = 2 * z /\ Bits(v) + 1 \in Nat /\ Word(v) = 0..(z - 1)
  <2>1. Bits(v) \in Nat
    BY Sizes
  <2>2. Pow2[Bits(v) + 1] = 2 * Pow2[Bits(v)]
    BY <2>1, Powers
  <2> QED BY <2>1, <2>2, Sizes DEF Size, Word, Ones
<1> HIDE DEF z
<1>2. ASSUME NEW c \in {0, 1}, NEW x \in 0..(z - 1)
      PROVE  c * z + x \in 0..(2 * z - 1) /\ (c * z + x) % z = x /\ (c * z + x) \div z = c
  <2>1. c * z + x \in 0..(2 * z - 1) /\ c * z + x = z * c + x
    BY <1>1
  <2>2. (c * z + x) % z = x /\ (c * z + x) \div z = c
    BY <1>1, <2>1, DivModUnique
  <2> QED BY <2>1, <2>2
<1>3. ASSUME NEW y \in 0..(2 * z - 1)
      PROVE  y % z \in 0..(z - 1) /\ y \div z \in {0, 1} /\ y = (y \div z) * z + (y % z)
  <2> DEFINE q == y \div z
             r == y % z
  <2>1. q \in Int /\ r \in 0..(z - 1) /\ y = z * q + r
    BY <1>1, DivMod
  <2> HIDE DEF q, r
  <2>2. z * q \in Int
    BY <1>1, <2>1
  <2>3. q = 0 \/ q = 1
    <3>1. CASE q >= 2
      <4>1. z * q >= z * 2
        BY <1>1, <2>1, <3>1
      <4> QED BY <1>1, <2>1, <2>2, <4>1
    <3>2. CASE q <= -1
      <4>1. z * q <= z * (-1)
        BY <1>1, <2>1, <3>2
      <4>2. z * (-1) = 0 - z
        BY <1>1
      <4> QED BY <1>1, <2>1, <2>2, <4>1, <4>2
    <3> QED BY <2>1, <3>1, <3>2
  <2>4. y = q * z + r
    BY <1>1, <2>1
  <2> QED BY <2>1, <2>3, <2>4 DEF q, r
<1> QED BY <1>1, <1>2, <1>3 DEF z

\* RCL and RCR: CF and the operand after the rotation of both.
Through(v, f, s)      == f.cf * Size(v) + s
Turned(v, f, s, left) == RotatedLeft(Through(v, f, s), left, Bits(v) + 1)

\* RCL and RCR.
LEMMA CarryRotationsFit ==
    ASSUME NEW v \in Widths, NEW f \in FlagSet, NEW s \in Word(v), NEW u \in Word(v)
    PROVE  LET n == u % (Bits(v) + 1)
               rcl == op_rcl(v, f, s, u)
               rcr == op_rcr(v, f, s, u)
           IN  /\ Fits(v, rcl) /\ Fits(v, rcr)
               /\ n = 0 => rcl = Unchanged(f, s) /\ rcr = Unchanged(f, s)
               /\ n # 0 => /\ Through(v, rcl.fl, rcl.ret) = Turned(v, f, s, n)
                           /\ Through(v, rcr.fl, rcr.ret) = Turned(v, f, s, (Bits(v) + 1) - n)
<1> DEFINE b == Bits(v) + 1
           n == u % b
           l == Turned(v, f, s, n)
           r == Turned(v, f, s, b - n)
           rcl == op_rcl(v, f, s, u)
           rcr == op_rcr(v, f, s, u)
<1>1. b \in Nat /\ b > 0 /\ u \in Nat /\ f.cf \in {0, 1}
  BY Sizes, FlagTypes DEF Word
<1>2. n \in 0..(b - 1)
  <2> HIDE DEF b
  <2> QED BY <1>1, DivMod
<1>3. Through(v, f, s) \in 0..(Pow2[b] - 1)
  BY <1>1, WithCarry DEF Through
<1> HIDE DEF n, b
<1>4. n \in 0..b /\ b - n \in 0..b
  BY <1>1, <1>2
<1>5. l \in 0..(Pow2[b] - 1) /\ r \in 0..(Pow2[b] - 1)
  BY <1>1, <1>3, <1>4, RotationUndone DEF Turned, b
<1>6. CASE n = 0
  <2>1. rcl = Unchanged(f, s) /\ rcr = Unchanged(f, s)
    BY <1>6 DEF op_rcl, op_rcr, n, b
  <2> QED BY <1>6, <2>1, UnchangedFits DEF n, b
<1>7. CASE n # 0
  <2> DEFINE ol == IF n = 1 THEN Xor(Msb(v, l % Size(v)), l \div Size(v)) ELSE 0
             or == IF n = 1 THEN Xor(Msb(v, s), f.cf) ELSE 0
  <2>1. rcl = Outcome(v, l % Size(v), l \div Size(v), ol, 0)
    BY <1>7 DEF op_rcl, n, b, Turned, Through
  <2>2. rcr = Outcome(v, r % Size(v), r \div Size(v), or, 0)
    <3>1. RotatedLeft(f.cf * Size(v) + s, Bits(v) + 1 - n, Bits(v) + 1) = r
      <4>1. Bits(v) + 1 - n = b - n
        BY <1>2, Sizes DEF b
      <4> QED BY <4>1, Zenon DEF b, Turned, Through
    <3>2. n = u % (Bits(v) + 1)
      BY DEF n, b
    <3> HIDE DEF r
    <3> QED BY <1>7, <3>1, <3>2 DEF op_rcr
  <2> HIDE DEF l, r
  <2>3. /\ l % Size(v) \in Word(v) /\ l \div Size(v) \in {0, 1} /\ l = (l \div Size(v)) * Size(v) + (l % Size(v))
        /\ r % Size(v) \in Word(v) /\ r \div Size(v) \in {0, 1} /\ r = (r \div Size(v)) * Size(v) + (r % Size(v))
    BY <1>5, WithCarry DEF b
  <2> DEFINE lo == l % Size(v)
             hi == l \div Size(v)
             ro == r % Size(v)
             ri == r \div Size(v)
  <2> HIDE DEF lo, hi, ro, ri
  <2>4. lo \in Word(v) /\ ro \in Word(v) /\ hi \in {0, 1} /\ ri \in {0, 1}
        /\ l = hi * Size(v) + lo /\ r = ri * Size(v) + ro
    BY <2>3 DEF lo, hi, ro, ri
  <2>5. Msb(v, lo) \in {0, 1} /\ Msb(v, s) \in {0, 1}
    BY <2>4, SignBit
  <2>6. ol \in {0, 1} /\ or \in {0, 1}
    BY <1>1, <2>4, <2>5, XorRange DEF lo, hi
  <2>7. rcl = Outcome(v, lo, hi, ol, 0) /\ rcr = Outcome(v, ro, ri, or, 0)
    BY <2>1, <2>2 DEF lo, hi, ro, ri
  <2> HIDE DEF ol, or, rcl, rcr
  <2>8. Fits(v, rcl) /\ rcl.ret = lo /\ rcl.fl.cf = hi
    BY <2>4, <2>6, <2>7, OutcomeFields
  <2>9. Fits(v, rcr) /\ rcr.ret = ro /\ rcr.fl.cf = ri
    BY <2>4, <2>6, <2>7, OutcomeFields
  <2>10. Through(v, rcl.fl, rcl.ret) = l /\ Through(v, rcr.fl, rcr.ret) = r
    BY <2>4, <2>8, <2>9 DEF Through
  <2> QED BY <1>7, <2>8, <2>9, <2>10 DEF l, r, n, b, rcl, rcr
<1> QED BY <1>6, <1>7

-----------------------------------------------------------------------------
(***************************************************************************)
(* Multiplication, division and decimal adjustment.                        *)
(***************************************************************************)
PairFits(v, o) == o.hi \in Word(v) /\ o.lo \in Word(v) /\ o.fl \in FlagSet

\* A double word is two words.
LEMMA DoubleWord ==
    ASSUME NEW v \in Widths, NEW x \in 0..(Size(v) * Size(v) - 1)
    PROVE  /\ x \div Size(v) \in Word(v) /\ x % Size(v) \in Word(v)
           /\ x = (x \div Size(v)) * Size(v) + (x % Size(v))
<1> DEFINE z == Size(v)
           q == x \div z
           r == x % z
<1>1. z \in Nat /\ z > 0 /\ Word(v) = 0..(z - 1) /\ x \in 0..(z * z - 1)
  BY Sizes DEF Word
<1>2. q \in Int /\ r \in 0..(z - 1) /\ x = z * q + r
  <2> HIDE DEF z
  <2> QED BY <1>1, DivMod
<1> HIDE DEF z, q, r
<1>3. z * q \in Int /\ z * z \in Nat /\ z * q = q * z
  BY <1>1, <1>2
<1>4. q \in 0..(z - 1)
  <2>1. CASE q < 0
    <3>1. z * q <= z * (-1)
      BY <1>1, <1>2, <2>1
    <3>2. z * (-1) = 0 - z
      BY <1>1
    <3> QED BY <1>1, <1>2, <1>3, <3>1, <3>2
  <2>2. CASE q >= z
    <3>1. z * q >= z * z
      BY <1>1, <1>2, <2>2
    <3> QED BY <1>1, <1>2, <1>3, <3>1
  <2> QED BY <1>1, <1>2, <2>1, <2>2
<1>5. x = q * z + r
  BY <1>2, <1>3
<1> QED BY <1>1, <1>2, <1>4, <1>5 DEF z, q, r

\* What MUL and IMUL return of a product.
LEMMA ProductFits ==
    ASSUME NEW v \in Widths, NEW p \in 0..(Size(v) * Size(v) - 1), NEW cf \in {0, 1}
    PROVE  PairFits(v, Product(v, p, cf))
<1>1. p \div Size(v) \in Word(v) /\ p % Size(v) \in Word(v)
  BY DoubleWord
<1>2. Msb(v, p \div Size(v)) \in {0, 1}
  BY <1>1, SignBit
<1>3. p \in Nat
  <2>1. Size(v) * Size(v) \in Int
    BY Sizes
  <2> QED BY <2>1
<1>4. Parity[p] \in {0, 1}
  BY <1>3, Parities
<1>5. Bit(p = 0) \in {0, 1}
  BY DEF Bit
<1> DEFINE h == p \div Size(v)
           l == p % Size(v)
           m == Msb(v, h)
           pf == Parity[p]
           z == Bit(p = 0)
<1>6. Product(v, p, cf) = [hi |-> h, lo |-> l, fl |-> [cf |-> cf, of |-> cf, af |-> 0, sf |-> m, zf |-> z, pf |-> pf]]
  BY DEF Product
<1>7. h \in Word(v) /\ l \in Word(v) /\ m \in {0, 1} /\ pf \in {0, 1} /\ z \in {0, 1}
  BY <1>1, <1>2, <1>4, <1>5
<1> HIDE DEF h, l, m, pf, z
<1>8. [cf |-> cf, of |-> cf, af |-> 0, sf |-> m, zf |-> z, pf |-> pf] \in FlagSet
  BY <1>7 DEF FlagSet, FlagNames
<1> QED BY <1>6, <1>7, <1>8 DEF PairFits

\* The product of two words is a double word.
LEMMA ProductOfWords ==
    ASSUME NEW v \in Widths, NEW a \in Word(v), NEW b \in Word(v)
    PROVE  a * b \in 0..(Size(v) * Size(v) - 1)
<1> DEFINE z == Size(v)
<1>1. z \in Nat /\ z > 0 /\ a \in 0..(z - 1) /\ b \in 0..(z - 1)
  BY Sizes DEF Word
<1> HIDE DEF z
<1>2. a * b <= a * (z - 1) /\ a * (z - 1) <= (z - 1) * (z - 1)
  BY <1>1
<1>3. (z - 1) * (z - 1) = (z * z - 2 * z) + 1 /\ a * b \in Nat /\ a * (z - 1) \in Nat /\ z * z \in Nat
  BY <1>1
<1>4. a * b <= z * z - 1
  BY <1>1, <1>2, <1>3
<1> QED BY <1>3, <1>4 DEF z

\* A word as a signed number.
LEMMA SignedWord ==
    ASSUME NEW v \in Widths, NEW x \in Word(v)
    PROVE  /\ Signed(v, x) = IF x >= Half(v) THEN x - Size(v) ELSE x
           /\ Signed(v, x) \in (0 - Half(v))..(Half(v) - 1)
           /\ Signed(v, x) = 0 <=> x = 0
<1> DEFINE h == Half(v)
           z == Size(v)
<1>1. Msb(v, x) = IF x >= h THEN 1 ELSE 0
  BY SignBit
<1>2. h \in Nat /\ h > 0 /\ z = 2 * h /\ x \in 0..(z - 1)
  BY Sizes DEF Word
<1>3. Signed(v, x) = IF x >= h THEN x - z ELSE x
  BY <1>1 DEF Signed
<1> HIDE DEF h, z
<1>4. /\ Signed(v, x) \in (0 - h)..(h - 1)
      /\ Signed(v, x) = 0 <=> x = 0
  BY <1>2, <1>3
<1> QED BY <1>3, <1>4 DEF h, z

\* MUL and IMUL.
LEMMA MulFits ==
    ASSUME NEW v \in Widths, NEW f \in FlagSet, NEW a \in Word(v), NEW b \in Word(v)
    PROVE  PairFits(v, op_mul(v, f, a, b)) /\ PairFits(v, op_imul(v, f, a, b))
<1>1. PairFits(v, op_mul(v, f, a, b))
  <2> DEFINE p == a * b
             c == Bit(p \div Size(v) # 0)
  <2>1. p \in 0..(Size(v) * Size(v) - 1)
    BY ProductOfWords
  <2>2. c \in {0, 1}
    BY DEF Bit
  <2>3. op_mul(v, f, a, b) = Product(v, p, c)
    BY DEF op_mul
  <2> HIDE DEF p, c
  <2> QED BY <2>1, <2>2, <2>3, ProductFits
<1>2. PairFits(v, op_imul(v, f, a, b))
  <2> DEFINE n == Signed(v, a) * Signed(v, b)
             zz == Size(v) * Size(v)
             p == n % zz
             c == Bit(p \div Size(v) \notin {0, Ones(v)})
  <2>1. n \in Int
    <3>1. Signed(v, a) \in Int /\ Signed(v, b) \in Int
      BY SignedWord, Sizes
    <3> QED BY <3>1
  <2>2. zz \in Nat /\ zz > 0
    BY Sizes
  <2>3. p \in 0..(zz - 1)
    <3> HIDE DEF n, zz
    <3> QED BY <2>1, <2>2, DivMod
  <2>4. c \in {0, 1}
    BY DEF Bit
  <2>5. op_imul(v, f, a, b) = Product(v, p, c)
    BY DEF op_imul
  <2>6. p \in 0..(Size(v) * Size(v) - 1)
    BY <2>3
  <2> HIDE DEF p, c, zz
  <2> QED BY <2>4, <2>5, <2>6, ProductFits
<1> QED BY <1>1, <1>2

\* Quotients that truncate are numbers.
LEMMA QuotInt ==
    ASSUME NEW a \in Int, NEW b \in Int, b # 0
    PROVE  Quot(a, b) \in Int /\ Remain(a, b) \in Int
<1>1. AbsInt(a) \in Nat /\ AbsInt(b) \in Nat /\ AbsInt(b) > 0
  BY DEF AbsInt
<1> DEFINE q == AbsInt(a) \div AbsInt(b)
<1>2. q \in Int
  BY <1>1, DivMod
<1>3. Quot(a, b) = IF (a < 0) = (b < 0) THEN q ELSE 0 - q
  BY DEF Quot
<1> HIDE DEF q
<1>4. Quot(a, b) = q \/ Quot(a, b) = 0 - q
  BY <1>3, Zenon
<1>5. Quot(a, b) \in Int
  BY <1>2, <1>4
<1>6. b * Quot(a, b) \in Int
  BY <1>5
<1> QED BY <1>5, <1>6 DEF Remain

\* What DIV and IDIV return of any two numbers.
LEMMA DividedFits ==
    ASSUME NEW v \in Widths, NEW f \in FlagSet, NEW q \in Int, NEW r \in Int
    PROVE  PairFits(v, Divided(v, f, q, r))
<1>1. q % Size(v) \in Word(v) /\ r % Size(v) \in Word(v)
  BY CutFits
<1>2. [f EXCEPT !.sf = 0, !.zf = 0, !.af = 0, !.pf = 0] \in FlagSet
  BY DEF FlagSet, FlagNames
<1> DEFINE a == q % Size(v)
           b == r % Size(v)
           g == [f EXCEPT !.sf = 0, !.zf = 0, !.af = 0, !.pf = 0]
<1>3. Divided(v, f, q, r) = [hi |-> b, lo |-> a, fl |-> g]
  BY DEF Divided
<1> HIDE DEF a, b, g
<1> QED BY <1>1, <1>2, <1>3 DEF PairFits, a, b, g

\* DIV and IDIV by anything but 0.
LEMMA DivFits ==
    ASSUME NEW v \in Widths, NEW f \in FlagSet, NEW a \in Word(v), NEW b \in Word(v), NEW s \in Word(v), s # 0
    PROVE  PairFits(v, op_div(v, f, a, b, s)) /\ PairFits(v, op_idiv(v, f, a, b, s))
<1>1. a \in Int /\ b \in Int /\ s \in Nat /\ s > 0 /\ Size(v) \in Int
  BY Sizes DEF Word
<1>2. Joined(v, a, b) \in Int
  <2>1. a * Size(v) \in Int
    BY <1>1
  <2> QED BY <1>1, <2>1 DEF Joined
<1>3. PairFits(v, op_div(v, f, a, b, s))
  <2> DEFINE j == Joined(v, a, b)
             q == j \div s
             r == IF v = "byte" THEN j % s ELSE b % s
  <2> HIDE DEF j
  <2>1. q \in Int /\ j % s \in Int /\ b % s \in Int
    BY <1>1, <1>2, DivMod DEF j
  <2>2. q \in Int /\ r \in Int
    BY <2>1
  <2>3. op_div(v, f, a, b, s) = Divided(v, f, q, r)
    BY DEF op_div, j
  <2> HIDE DEF q, r
  <2> QED BY <2>2, <2>3, DividedFits
<1>4. PairFits(v, op_idiv(v, f, a, b, s))
  <2> DEFINE x == SignedJoined(v, a, b)
             y == Signed(v, s)
             c == IF v = "byte" THEN x ELSE Signed(v, b)
             q == Quot(x, y)
             r == Remain(c, y)
  <2>1. Signed(v, a) \in Int /\ Signed(v, b) \in Int /\ y \in Int /\ y # 0
    BY SignedWord, Sizes
  <2>2. x \in Int
    <3>1. Signed(v, a) * Size(v) \in Int
      BY <1>1, <2>1
    <3> QED BY <1>1, <3>1 DEF SignedJoined
  <2>3. op_idiv(v, f, a, b, s) = Divided(v, f, q, r)
    BY DEF op_idiv
  <2>4. c \in Int
    BY <2>1, <2>2
  <2> HIDE DEF x, y, c
  <2>5. q \in Int /\ r \in Int
    BY <2>1, <2>2, <2>4, QuotInt
  <2> HIDE DEF q, r
  <2> QED BY <2>3, <2>5, DividedFits
<1> QED BY <1>3, <1>4

\* A byte fits in every width.
LEMMA ByteFits ==
    ASSUME NEW v \in Widths
    PROVE  Word("byte") = 0..255 /\ 0..255 \subseteq Word(v) /\ (v = "byte" => Word(v) = 0..255)
<1>1. "byte" \in Widths
  BY DEF Widths
<1>2. Ones("byte") = 255
  BY <1>1, Sizes
<1>3. Ones(v) \in Nat /\ Ones(v) >= 255
  BY Sizes
<1> QED BY <1>2, <1>3 DEF Word

\* DAA and DAS.
LEMMA DecimalFits ==
    ASSUME NEW v \in Widths, NEW f \in FlagSet, NEW al \in Word(v)
    PROVE  Fits(v, Daa(f, al)) /\ Fits(v, Das(f, al))
<1>1. al \in Nat
  BY DEF Word
<1>2. "byte" \in Widths /\ Word("byte") = 0..255 /\ 0..255 \subseteq Word(v)
  BY ByteFits DEF Widths
<1>3. ASSUME NEW ret \in 0..255, NEW cf \in {0, 1}, NEW af \in {0, 1}
      PROVE  Fits(v, Outcome("byte", ret, cf, 0, af))
  <2>1. Fits("byte", Outcome("byte", ret, cf, 0, af))
    BY <1>2, OutcomeFields
  <2> QED BY <1>2, <2>1 DEF Fits
<1> DEFINE low == LowAdjust(f, al)
<1>4. low = (Low(al) > 9 \/ f.af = 1) /\ low \in BOOLEAN
  BY DEF LowAdjust
<1> HIDE DEF low
<1>5. Fits(v, Daa(f, al))
  <2> DEFINE a   == IF low THEN (al + 6) % 256 ELSE al
             hi  == a - Low(a) > 144 \/ f.cf = 1 \/ (low /\ Low(al) + 6 >= 16)
             ret == IF hi THEN (a + 96) % 256 ELSE a
  <2>1. Daa(f, al) = Outcome("byte", ret, Bit(hi), 0, Bit(low))
    BY DEF Daa, low
  <2>2. a \in Nat /\ (low => a <= 255)
    BY <1>1
  <2> HIDE DEF a
  <2>3. Low(a) \in 0..15
    BY <2>2 DEF Low
  <2>4. ret \in 0..255
    BY <2>2, <2>3
  <2>5. Bit(hi) \in {0, 1} /\ Bit(low) \in {0, 1}
    BY DEF Bit
  <2> DEFINE c == Bit(hi)
             d == Bit(low)
  <2> HIDE DEF ret, c, d
  <2> QED BY <1>3, <2>1, <2>4, <2>5 DEF c, d
<1>6. Fits(v, Das(f, al))
  <2> DEFINE a   == IF low THEN (al - 6) % 256 ELSE al
             hi  == a > 159 \/ f.cf = 1 \/ (low /\ Low(al) < 6)
             ret == IF hi THEN (a - 96) % 256 ELSE a
  <2>1. Das(f, al) = Outcome("byte", ret, Bit(hi), 0, Bit(low))
    BY DEF Das, low
  <2>2. a \in Nat
    BY <1>1
  <2> HIDE DEF a
  <2>3. ret \in 0..255
    BY <2>2
  <2>4. Bit(hi) \in {0, 1} /\ Bit(low) \in {0, 1}
    BY DEF Bit
  <2> DEFINE c == Bit(hi)
             d == Bit(low)
  <2> HIDE DEF ret, c, d
  <2> QED BY <1>3, <2>1, <2>3, <2>4 DEF c, d
<1> QED BY <1>5, <1>6

\* AAA and AAS.
LEMMA AsciiFits ==
    ASSUME NEW v \in Widths, NEW f \in FlagSet, NEW ah \in Word(v), NEW al \in Word(v), NEW by \in {1, -1}
    PROVE  PairFits(v, AsciiAdjust(f, ah, al, by))
<1> DEFINE n == IF LowAdjust(f, al) THEN by ELSE 0
           h == (ah + n) % 256
           l == Low(al + 6 * n)
           m == AbsInt(n)
<1>1. n \in {-1, 0, 1}
  OBVIOUS
<1>2. AsciiAdjust(f, ah, al, by)
        = [hi |-> h, lo |-> l, fl |-> [cf |-> m, af |-> m, of |-> 0, sf |-> 0, zf |-> 0, pf |-> 0]]
  BY DEF AsciiAdjust
<1> HIDE DEF n
<1>3. m \in {0, 1}
  BY <1>1 DEF AbsInt
<1>4. h \in 0..255 /\ l \in 0..255
  BY <1>1 DEF Low, Word
<1> HIDE DEF h, l, m
<1>5. [cf |-> m, af |-> m, of |-> 0, sf |-> 0, zf |-> 0, pf |-> 0] \in FlagSet
  BY <1>3 DEF FlagSet, FlagNames
<1>6. h \in Word(v) /\ l \in Word(v)
  BY <1>4, ByteFits
<1> QED BY <1>2, <1>5, <1>6 DEF PairFits

\* AAM, of programs on bytes, and AAD.
LEMMA AamFits ==
    ASSUME NEW v \in Widths, NEW al \in Word(v), NEW x \in Word(v), NEW junk \in Junk, v = "byte"
    PROVE  PairFits(v, Aam(al, x, junk))
<1> DEFINE a == IF x = 0 THEN al ELSE al % x
           h == IF x = 0 THEN junk ELSE a \div x
           g == Flags("byte", a, 0, 0, 0)
<1>1. al \in 0..255 /\ x \in 0..255 /\ junk \in 0..255 /\ Word(v) = 0..255 /\ "byte" \in Widths
  BY ByteFits, ProgramsAssumption DEF Widths
<1>2. a \in 0..255
  <2>1. CASE x = 0
    BY <1>1, <2>1
  <2>2. CASE x # 0
    <3>1. al % x \in 0..(x - 1)
      BY <1>1, <2>2, DivMod
    <3> QED BY <1>1, <2>2, <3>1
  <2> QED BY <2>1, <2>2
<1>3. h \in 0..255
  <2>1. CASE x = 0
    BY <1>1, <2>1
  <2>2. CASE x # 0
    <3>1. a = al % x /\ h = a \div x
      BY <2>2
    <3>2. a \in 0..(x - 1)
      BY <1>1, <2>2, <3>1, DivMod
    <3>3. a = x * 0 + a /\ a \in Int
      BY <1>1, <3>2
    <3> HIDE DEF a, h
    <3>4. a \div x = 0
      BY <1>1, <2>2, <3>2, <3>3, DivModUnique
    <3> QED BY <3>1, <3>4
  <2> QED BY <2>1, <2>2
<1>4. Aam(al, x, junk) = [hi |-> h, lo |-> a, fl |-> g]
  BY DEF Aam
<1> HIDE DEF a, h
<1>5. g \in FlagSet
  <2>1. a \in Word("byte")
    BY <1>1, <1>2, ByteFits
  <2>2. Fits("byte", Outcome("byte", a, 0, 0, 0))
    BY <1>1, <2>1, OutcomeFields
  <2> QED BY <2>2 DEF Fits, Outcome
<1> HIDE DEF g
<1> QED BY <1>1, <1>2, <1>3, <1>4, <1>5 DEF PairFits

\* AAD.
LEMMA AadFits ==
    ASSUME NEW v \in Widths, NEW ah \in Word(v), NEW al \in Word(v), NEW x \in Word(v)
    PROVE  PairFits(v, Aad(ah, al, x))
<1> DEFINE y == al + ah * x
           a == y % 256
           g == Flags("byte", a, 0, 0, 0)
<1>1. y \in Int
  <2>1. ah * x \in Int
    BY DEF Word
  <2> QED BY <2>1 DEF Word
<1>2. Aad(ah, al, x) = [hi |-> 0, lo |-> a, fl |-> g]
  BY DEF Aad
<1> HIDE DEF y
<1>3. a \in 0..255
  BY <1>1
<1> HIDE DEF a
<1>4. g \in FlagSet
  <2>1. a \in Word("byte") /\ "byte" \in Widths
    BY <1>3, ByteFits DEF Widths
  <2>2. Fits("byte", Outcome("byte", a, 0, 0, 0))
    BY <2>1, OutcomeFields
  <2> QED BY <2>2 DEF Fits, Outcome
<1>5. 0 \in Word(v) /\ a \in Word(v)
  BY <1>3, ByteFits
<1> HIDE DEF g
<1> QED BY <1>2, <1>4, <1>5 DEF PairFits

\* LAHF, SAHF and the instructions on CF.
LEMMA FlagMovesFit ==
    ASSUME NEW v \in Widths, NEW f \in FlagSet, NEW x \in Word(v)
    PROVE  /\ LowFlags(f) \in Word(v) /\ LowFlags(f) \in 0..255 /\ WithLowFlags(f, x) \in FlagSet
           /\ [f EXCEPT !.cf = 1 - @] \in FlagSet
           /\ [f EXCEPT !.cf = 0] \in FlagSet /\ [f EXCEPT !.cf = 1] \in FlagSet
<1>1. f.cf \in {0, 1} /\ f.sf \in {0, 1} /\ f.zf \in {0, 1} /\ f.af \in {0, 1} /\ f.pf \in {0, 1}
  BY FlagTypes
<1>2. LowFlags(f) \in 0..255
  BY <1>1 DEF LowFlags
<1>3. LowFlags(f) \in Word(v)
  BY <1>2, ByteFits
<1>4. WithLowFlags(f, x) \in FlagSet
  <2>1. BitAt(x, 7) \in {0, 1} /\ BitAt(x, 6) \in {0, 1} /\ BitAt(x, 4) \in {0, 1}
        /\ BitAt(x, 2) \in {0, 1} /\ BitAt(x, 0) \in {0, 1}
    <3>1. x \in Nat
      BY DEF Word
    <3> QED BY <3>1, BitRange
  <2> QED BY <2>1 DEF WithLowFlags, FlagSet, FlagNames
<1>5. [f EXCEPT !.cf = 1 - @] \in FlagSet /\ [f EXCEPT !.cf = 0] \in FlagSet /\ [f EXCEPT !.cf = 1] \in FlagSet
  BY <1>1 DEF FlagSet, FlagNames
<1> QED BY <1>2, <1>3, <1>4, <1>5

-----------------------------------------------------------------------------
(***************************************************************************)
(* Instructions and programs.                                              *)
(***************************************************************************)
Names    == AnyNames \cup ByteNames
SrcNames == Regs \cup {"zero", "one", "three", "ten"}

Ops == {"aaa", "aad", "aam", "aas", "adc", "add", "and", "bound", "clc", "cmc", "cmp", "cxex",
        "daa", "das", "dec", "div", "idiv", "imul", "inc", "lahf", "mul", "neg", "not",
        "or", "rcl", "rcr", "rol", "ror", "sahf", "sar", "sbb", "shl", "shr", "stc",
        "sub", "test", "xchg", "xor"}

\* What an instruction of a program of width v is.
Instruction(v) == {ins \in [op : Ops, dst : Regs, src : SrcNames] : ins.op = "aam" => v = "byte"}

\* An instruction has the fields it is written with.
LEMMA Fields ==
    ASSUME NEW op, NEW dst, NEW src
    PROVE  I(op, dst, src).op = op /\ I(op, dst, src).dst = dst /\ I(op, dst, src).src = src
  BY DEF I

\* The programs that divide.
Dividers == {"mul div", "imul idiv", "div", "cbw idiv", "aad div"}

\* What an instruction of the program "name" of width v is: only those programs divide.
Chosen(v, name) ==
    {ins \in Instruction(v) : name \notin Dividers => ins.op \notin {"div", "idiv"}}

\* Every program chooses among all but three operations.
LEMMA Plain ==
    ASSUME NEW v, NEW name, NEW op \in Ops \ {"aam", "div", "idiv"}, NEW dst \in Regs, NEW src \in SrcNames
    PROVE  I(op, dst, src) \in Chosen(v, name)
  BY Fields DEF I, Chosen, Instruction

\* The programs that divide choose two more.
LEMMA Divides ==
    ASSUME NEW v, NEW name \in Dividers, NEW op \in {"div", "idiv"}, NEW dst \in Regs, NEW src \in SrcNames
    PROVE  I(op, dst, src) \in Chosen(v, name)
  BY Fields DEF I, Chosen, Instruction, Ops

\* And a program of bytes one more.
LEMMA Adjusts ==
    ASSUME NEW name, NEW dst \in Regs, NEW src \in SrcNames
    PROVE  I("aam", dst, src) \in Chosen("byte", name)
  BY Fields DEF I, Chosen, Instruction, Ops

\* A program of so many instructions.
Line1(s, a) == s = <<a>>
Line2(s, a, b) == s = <<a, b>>
Line3(s, a, b, c) == s = <<a, b, c>>
Line4(s, a, b, c, d) == s = <<a, b, c, d>>
Line5(s, a, b, c, d, e) == s = <<a, b, c, d, e>>
Line6(s, a, b, c, d, e, f) == s = <<a, b, c, d, e, f>>
Line7(s, a, b, c, d, e, f, g) == s = <<a, b, c, d, e, f, g>>

\* The instruction in front of a program of one, and what is left of it.
LEMMA Ahead1 ==
    ASSUME NEW s, NEW a, Line1(s, a)
    PROVE  Head(s) = a /\ Tail(s) = << >> /\ s # << >>
  BY DEF Line1

\* The same of a program of two.
LEMMA Ahead2 ==
    ASSUME NEW s, NEW a, NEW b, Line2(s, a, b)
    PROVE  Head(s) = a /\ Line1(Tail(s), b) /\ s # << >>
  BY DEF Line2, Line1

\* The same of a program of three.
LEMMA Ahead3 ==
    ASSUME NEW s, NEW a, NEW b, NEW c, Line3(s, a, b, c)
    PROVE  Head(s) = a /\ Line2(Tail(s), b, c) /\ s # << >>
  BY DEF Line3, Line2

\* The same of a program of four.
LEMMA Ahead4 ==
    ASSUME NEW s, NEW a, NEW b, NEW c, NEW d, Line4(s, a, b, c, d)
    PROVE  Head(s) = a /\ Line3(Tail(s), b, c, d) /\ s # << >>
  BY DEF Line4, Line3

\* The same of a program of five.
LEMMA Ahead5 ==
    ASSUME NEW s, NEW a, NEW b, NEW c, NEW d, NEW e, Line5(s, a, b, c, d, e)
    PROVE  Head(s) = a /\ Line4(Tail(s), b, c, d, e) /\ s # << >>
  BY DEF Line5, Line4

\* The same of a program of six.
LEMMA Ahead6 ==
    ASSUME NEW s, NEW a, NEW b, NEW c, NEW d, NEW e, NEW f, Line6(s, a, b, c, d, e, f)
    PROVE  Head(s) = a /\ Line5(Tail(s), b, c, d, e, f) /\ s # << >>
  BY DEF Line6, Line5

\* The same of a program of seven.
LEMMA Ahead7 ==
    ASSUME NEW s, NEW a, NEW b, NEW c, NEW d, NEW e, NEW f, NEW g, Line7(s, a, b, c, d, e, f, g)
    PROVE  Head(s) = a /\ Line6(Tail(s), b, c, d, e, f, g) /\ s # << >>
  BY DEF Line7, Line6

\* The listings are sequences of such instructions.
LEMMA ListingChosen ==
    ASSUME NEW v \in Widths, NEW name \in Names, name \in ByteNames => v = "byte"
    PROVE  Listing(name) \in Seq(Chosen(v, name)) /\ Listing(name) # << >>
<1> DEFINE C == Chosen(v, name)
<1>1. CASE name = "adc"
  <2>1. Listing(name) = <<I("adc", "lo", "xlo")>>
    BY <1>1 DEF Listing
  <2>2. I("adc", "lo", "xlo") \in C
    BY Plain DEF Ops, Regs, SrcNames
  <2> QED BY <2>1, <2>2, Ahead1 DEF Line1
<1>2. CASE name = "sbb"
  <2>1. Listing(name) = <<I("sbb", "lo", "xlo")>>
    BY <1>2 DEF Listing
  <2>2. I("sbb", "lo", "xlo") \in C
    BY Plain DEF Ops, Regs, SrcNames
  <2> QED BY <2>1, <2>2, Ahead1 DEF Line1
<1>3. CASE name = "wide add"
  <2>1. Listing(name) = <<I("add", "lo", "xlo"), I("inc", "xlo", "one"), I("dec", "xlo", "one"), I("adc", "hi", "xhi")>>
    BY <1>3 DEF Listing, CountUp, CountDown
  <2>2. I("adc", "hi", "xhi") \in C /\ I("add", "lo", "xlo") \in C /\ I("dec", "xlo", "one") \in C /\ I("inc", "xlo", "one") \in C
    BY Plain DEF Ops, Regs, SrcNames
  <2> QED BY <2>1, <2>2, Ahead4 DEF Line4
<1>4. CASE name = "wide sub"
  <2>1. Listing(name) = <<I("sub", "lo", "xlo"), I("inc", "xlo", "one"), I("dec", "xlo", "one"), I("sbb", "hi", "xhi")>>
    BY <1>4 DEF Listing, CountUp, CountDown
  <2>2. I("dec", "xlo", "one") \in C /\ I("inc", "xlo", "one") \in C /\ I("sbb", "hi", "xhi") \in C /\ I("sub", "lo", "xlo") \in C
    BY Plain DEF Ops, Regs, SrcNames
  <2> QED BY <2>1, <2>2, Ahead4 DEF Line4
<1>5. CASE name = "wide cmp"
  <2>1. Listing(name) = <<I("cmp", "lo", "xlo"), I("sbb", "hi", "xhi")>>
    BY <1>5 DEF Listing
  <2>2. I("cmp", "lo", "xlo") \in C /\ I("sbb", "hi", "xhi") \in C
    BY Plain DEF Ops, Regs, SrcNames
  <2> QED BY <2>1, <2>2, Ahead2 DEF Line2
<1>6. CASE name = "wide neg"
  <2>1. Listing(name) = <<I("not", "hi", "hi"), I("neg", "lo", "lo"), I("cmp", "lo", "one"), I("adc", "hi", "zero")>>
    BY <1>6 DEF Listing
  <2>2. I("adc", "hi", "zero") \in C /\ I("cmp", "lo", "one") \in C /\ I("neg", "lo", "lo") \in C /\ I("not", "hi", "hi") \in C
    BY Plain DEF Ops, Regs, SrcNames
  <2> QED BY <2>1, <2>2, Ahead4 DEF Line4
<1>7. CASE name = "cmp cmc"
  <2>1. Listing(name) = <<I("cmp", "lo", "xlo"), I("cmc", "lo", "lo"), I("adc", "hi", "zero"), I("clc", "lo", "lo"), I("rcl", "hi", "one"), I("stc", "lo", "lo"), I("rcl", "hi", "one")>>
    BY <1>7 DEF Listing
  <2>2. I("adc", "hi", "zero") \in C /\ I("clc", "lo", "lo") \in C /\ I("cmc", "lo", "lo") \in C /\ I("cmp", "lo", "xlo") \in C /\ I("rcl", "hi", "one") \in C /\ I("stc", "lo", "lo") \in C
    BY Plain DEF Ops, Regs, SrcNames
  <2> QED BY <2>1, <2>2, Ahead7 DEF Line7
<1>8. CASE name = "cmp"
  <2>1. Listing(name) = <<I("cmp", "lo", "xlo")>>
    BY <1>8 DEF Listing
  <2>2. I("cmp", "lo", "xlo") \in C
    BY Plain DEF Ops, Regs, SrcNames
  <2> QED BY <2>1, <2>2, Ahead1 DEF Line1
<1>9. CASE name = "test"
  <2>1. Listing(name) = <<I("test", "lo", "lo")>>
    BY <1>9 DEF Listing
  <2>2. I("test", "lo", "lo") \in C
    BY Plain DEF Ops, Regs, SrcNames
  <2> QED BY <2>1, <2>2, Ahead1 DEF Line1
<1>10. CASE name = "or"
  <2>1. Listing(name) = <<I("or", "lo", "lo"), I("and", "lo", "lo")>>
    BY <1>10 DEF Listing
  <2>2. I("and", "lo", "lo") \in C /\ I("or", "lo", "lo") \in C
    BY Plain DEF Ops, Regs, SrcNames
  <2> QED BY <2>1, <2>2, Ahead2 DEF Line2
<1>11. CASE name = "wide shl"
  <2>1. Listing(name) = <<I("shl", "lo", "one"), I("rcl", "hi", "one")>>
    BY <1>11 DEF Listing
  <2>2. I("rcl", "hi", "one") \in C /\ I("shl", "lo", "one") \in C
    BY Plain DEF Ops, Regs, SrcNames
  <2> QED BY <2>1, <2>2, Ahead2 DEF Line2
<1>12. CASE name = "wide shr"
  <2>1. Listing(name) = <<I("shr", "hi", "one"), I("rcr", "lo", "one")>>
    BY <1>12 DEF Listing
  <2>2. I("rcr", "lo", "one") \in C /\ I("shr", "hi", "one") \in C
    BY Plain DEF Ops, Regs, SrcNames
  <2> QED BY <2>1, <2>2, Ahead2 DEF Line2
<1>13. CASE name = "wide sar"
  <2>1. Listing(name) = <<I("sar", "hi", "one"), I("rcr", "lo", "one")>>
    BY <1>13 DEF Listing
  <2>2. I("rcr", "lo", "one") \in C /\ I("sar", "hi", "one") \in C
    BY Plain DEF Ops, Regs, SrcNames
  <2> QED BY <2>1, <2>2, Ahead2 DEF Line2
<1>14. CASE name = "rol ror"
  <2>1. Listing(name) = <<I("rol", "lo", "xlo"), I("ror", "lo", "xlo")>>
    BY <1>14 DEF Listing
  <2>2. I("rol", "lo", "xlo") \in C /\ I("ror", "lo", "xlo") \in C
    BY Plain DEF Ops, Regs, SrcNames
  <2> QED BY <2>1, <2>2, Ahead2 DEF Line2
<1>15. CASE name = "rcl rcr"
  <2>1. Listing(name) = <<I("rcl", "lo", "xlo"), I("rcr", "lo", "xlo")>>
    BY <1>15 DEF Listing
  <2>2. I("rcl", "lo", "xlo") \in C /\ I("rcr", "lo", "xlo") \in C
    BY Plain DEF Ops, Regs, SrcNames
  <2> QED BY <2>1, <2>2, Ahead2 DEF Line2
<1>16. CASE name = "rcl 3 rcr"
  <2>1. Listing(name) = <<I("rcl", "lo", "three"), I("rcr", "lo", "one"), I("rcr", "lo", "one"), I("rcr", "lo", "one")>>
    BY <1>16 DEF Listing
  <2>2. I("rcl", "lo", "three") \in C /\ I("rcr", "lo", "one") \in C
    BY Plain DEF Ops, Regs, SrcNames
  <2> QED BY <2>1, <2>2, Ahead4 DEF Line4
<1>17. CASE name = "shl shr"
  <2>1. Listing(name) = <<I("shl", "lo", "xlo"), I("shr", "lo", "xlo")>>
    BY <1>17 DEF Listing
  <2>2. I("shl", "lo", "xlo") \in C /\ I("shr", "lo", "xlo") \in C
    BY Plain DEF Ops, Regs, SrcNames
  <2> QED BY <2>1, <2>2, Ahead2 DEF Line2
<1>18. CASE name = "sar by"
  <2>1. Listing(name) = <<I("sar", "lo", "xlo")>>
    BY <1>18 DEF Listing
  <2>2. I("sar", "lo", "xlo") \in C
    BY Plain DEF Ops, Regs, SrcNames
  <2> QED BY <2>1, <2>2, Ahead1 DEF Line1
<1>19. CASE name = "swap"
  <2>1. Listing(name) = <<I("xor", "lo", "xlo"), I("xor", "xlo", "lo"), I("xor", "lo", "xlo")>>
    BY <1>19 DEF Listing
  <2>2. I("xor", "lo", "xlo") \in C /\ I("xor", "xlo", "lo") \in C
    BY Plain DEF Ops, Regs, SrcNames
  <2> QED BY <2>1, <2>2, Ahead3 DEF Line3
<1>20. CASE name = "mul div"
  <2>1. Listing(name) = <<I("mul", "lo", "xlo"), I("div", "lo", "xlo")>>
    BY <1>20 DEF Listing
  <2>2. I("div", "lo", "xlo") \in C /\ I("mul", "lo", "xlo") \in C
    BY Plain, <1>20, Divides DEF Ops, Regs, SrcNames, Dividers
  <2> QED BY <2>1, <2>2, Ahead2 DEF Line2
<1>21. CASE name = "imul idiv"
  <2>1. Listing(name) = <<I("imul", "lo", "xlo"), I("idiv", "lo", "xlo")>>
    BY <1>21 DEF Listing
  <2>2. I("idiv", "lo", "xlo") \in C /\ I("imul", "lo", "xlo") \in C
    BY Plain, <1>21, Divides DEF Ops, Regs, SrcNames, Dividers
  <2> QED BY <2>1, <2>2, Ahead2 DEF Line2
<1>22. CASE name = "div"
  <2>1. Listing(name) = <<I("div", "lo", "xlo")>>
    BY <1>22 DEF Listing
  <2>2. I("div", "lo", "xlo") \in C
    BY <1>22, Divides DEF Ops, Regs, SrcNames, Dividers
  <2> QED BY <2>1, <2>2, Ahead1 DEF Line1
<1>23. CASE name = "cbw idiv"
  <2>1. Listing(name) = <<I("cxex", "hi", "lo"), I("idiv", "lo", "xlo")>>
    BY <1>23 DEF Listing
  <2>2. I("cxex", "hi", "lo") \in C /\ I("idiv", "lo", "xlo") \in C
    BY Plain, <1>23, Divides DEF Ops, Regs, SrcNames, Dividers
  <2> QED BY <2>1, <2>2, Ahead2 DEF Line2
<1>24. CASE name = "bound"
  <2>1. Listing(name) = <<I("bound", "lo", "lo")>>
    BY <1>24 DEF Listing
  <2>2. I("bound", "lo", "lo") \in C
    BY Plain DEF Ops, Regs, SrcNames
  <2> QED BY <2>1, <2>2, Ahead1 DEF Line1
<1>25. CASE name = "saved add"
  <2>1. Listing(name) = <<I("add", "lo", "xlo"), I("lahf", "lo", "lo"), I("or", "xhi", "xhi"), I("sahf", "lo", "lo"), I("adc", "xhi", "zero")>>
    BY <1>25 DEF Listing
  <2>2. I("adc", "xhi", "zero") \in C /\ I("add", "lo", "xlo") \in C /\ I("lahf", "lo", "lo") \in C /\ I("or", "xhi", "xhi") \in C /\ I("sahf", "lo", "lo") \in C
    BY Plain DEF Ops, Regs, SrcNames
  <2> QED BY <2>1, <2>2, Ahead5 DEF Line5
<1>26. CASE name = "packed sub"
  <2>1. Listing(name) = <<I("sub", "lo", "xlo"), I("das", "lo", "lo"), I("xchg", "lo", "hi"), I("sbb", "lo", "xhi"), I("das", "lo", "lo"), I("xchg", "lo", "hi")>>
    BY <1>26 DEF Listing, NextByte
  <2>2. I("das", "lo", "lo") \in C /\ I("sbb", "lo", "xhi") \in C /\ I("sub", "lo", "xlo") \in C /\ I("xchg", "lo", "hi") \in C
    BY Plain DEF Ops, Regs, SrcNames
  <2> QED BY <2>1, <2>2, Ahead6 DEF Line6
<1>27. CASE name = "packed add"
  <2>1. Listing(name) = <<I("add", "lo", "xlo"), I("daa", "lo", "lo")>>
    BY <1>27 DEF Listing
  <2>2. I("add", "lo", "xlo") \in C /\ I("daa", "lo", "lo") \in C
    BY Plain DEF Ops, Regs, SrcNames
  <2> QED BY <2>1, <2>2, Ahead2 DEF Line2
<1>28. CASE name = "unpacked add"
  <2>1. Listing(name) = <<I("add", "lo", "xlo"), I("aaa", "lo", "lo")>>
    BY <1>28 DEF Listing
  <2>2. I("aaa", "lo", "lo") \in C /\ I("add", "lo", "xlo") \in C
    BY Plain DEF Ops, Regs, SrcNames
  <2> QED BY <2>1, <2>2, Ahead2 DEF Line2
<1>29. CASE name = "unpacked sub"
  <2>1. Listing(name) = <<I("sub", "lo", "xlo"), I("aas", "lo", "lo")>>
    BY <1>29 DEF Listing
  <2>2. I("aas", "lo", "lo") \in C /\ I("sub", "lo", "xlo") \in C
    BY Plain DEF Ops, Regs, SrcNames
  <2> QED BY <2>1, <2>2, Ahead2 DEF Line2
<1>30. CASE name = "aad div"
  <2>1. Listing(name) = <<I("aad", "lo", "ten"), I("div", "lo", "xlo")>>
    BY <1>30 DEF Listing
  <2>2. I("aad", "lo", "ten") \in C /\ I("div", "lo", "xlo") \in C
    BY Plain, <1>30, Divides DEF Ops, Regs, SrcNames, Dividers
  <2> QED BY <2>1, <2>2, Ahead2 DEF Line2
<1>31. CASE name = "mul aam"
  <2>1. Listing(name) = <<I("mul", "lo", "xlo"), I("aam", "lo", "ten")>>
    BY <1>31 DEF Listing
  <2>2. I("aam", "lo", "ten") \in C /\ I("mul", "lo", "xlo") \in C
    BY Plain, <1>31, Adjusts DEF Ops, Regs, SrcNames, ByteNames
  <2> QED BY <2>1, <2>2, Ahead2 DEF Line2
<1>32. CASE name = "aam by"
  <2>1. Listing(name) = <<I("aam", "lo", "xlo")>>
    BY <1>32 DEF Listing
  <2>2. I("aam", "lo", "xlo") \in C
    BY <1>32, Adjusts DEF Ops, Regs, SrcNames, ByteNames
  <2> QED BY <2>1, <2>2, Ahead1 DEF Line1
<1> QED BY <1>1, <1>2, <1>3, <1>4, <1>5, <1>6, <1>7, <1>8, <1>9, <1>10, <1>11, <1>12, <1>13, <1>14, <1>15, <1>16, <1>17, <1>18, <1>19, <1>20, <1>21, <1>22, <1>23, <1>24, <1>25, <1>26, <1>27, <1>28, <1>29, <1>30, <1>31, <1>32 DEF Names, AnyNames, ByteNames

\* And so sequences of instructions.
LEMMA ListingTyped ==
    ASSUME NEW v \in Widths, NEW name \in Names, name \in ByteNames => v = "byte"
    PROVE  Listing(name) \in Seq(Instruction(v)) /\ Listing(name) # << >>
<1>1. Chosen(v, name) \subseteq Instruction(v)
  BY DEF Chosen
<1>2. Listing(name) \in Seq(Chosen(v, name)) /\ Listing(name) # << >>
  BY ListingChosen
<1> QED BY <1>1, <1>2

-----------------------------------------------------------------------------
(***************************************************************************)
(* Registers and flags keep their types.                                   *)
(***************************************************************************)
Registers == [Regs -> Word(w)]

\* The machine at work: what TypeOK says, and what the program started from.
Machine ==
    /\ reg \in Registers
    /\ fl \in FlagSet
    /\ trap \in {"none", "divide", "bound"}
    /\ mask_5bit_shiftcount \in BOOLEAN

Program ==
    /\ code \in Seq(Instruction(w))
    /\ Len(code) <= Len(Listing(run.prog.name))

Started ==
    /\ run.prog \in Programs
    /\ run.reg \in Registers
    /\ \A r \in Regs : run.reg[r] \in run.prog.start[r]
    /\ run.fl \in FlagSet

Typed == Started /\ Machine /\ Program

\* The width of a program, and where its registers start.
LEMMA StartedFacts ==
    ASSUME Started
    PROVE  /\ w \in Widths /\ run.prog.name \in Names /\ (run.prog.name \in ByteNames => w = "byte")
  BY ProgramsAssumption DEF Started, w, Names

\* No program is empty, and none has come to its end before its last line.
LEMMA Listed ==
    ASSUME Typed
    PROVE  /\ Listing(run.prog.name) # << >>
           /\ code = << >> => \A a, b, c, d, e, f, g :
                 /\ ~Line1(code, a) /\ ~Line2(code, a, b) /\ ~Line3(code, a, b, c)
                 /\ ~Line4(code, a, b, c, d) /\ ~Line5(code, a, b, c, d, e)
                 /\ ~Line6(code, a, b, c, d, e, f) /\ ~Line7(code, a, b, c, d, e, f, g)
<1>1. Listing(run.prog.name) # << >>
  BY StartedFacts, ListingTyped DEF Typed
<1> QED BY <1>1, Ahead1, Ahead2, Ahead3, Ahead4, Ahead5, Ahead6, Ahead7

\* What is left of a sequence that is not empty.
LEMMA Rest ==
    ASSUME NEW S, NEW s \in Seq(S), s # << >>
    PROVE  Head(s) \in S /\ Tail(s) \in Seq(S) /\ Len(Tail(s)) = Len(s) - 1 /\ Len(s) \in Nat /\ Len(Tail(s)) \in Nat
  OBVIOUS

\* The operands of an instruction.
LEMMA Operands ==
    ASSUME Typed, code # << >>
    PROVE  /\ i \in Instruction(w) /\ i.dst \in Regs /\ Dst \in Word(w) /\ Src \in Word(w)
           /\ (i.op = "aam" => w = "byte")
<1>1. i \in Instruction(w)
  BY Rest DEF Typed, Program, i
<1>2. i.dst \in Regs /\ i.src \in SrcNames /\ (i.op = "aam" => w = "byte")
  BY <1>1 DEF Instruction
<1>3. w \in Widths
  BY StartedFacts DEF Typed
<1>4. 0..255 \subseteq Word(w)
  BY <1>3, ByteFits
<1>5. \A r \in Regs : reg[r] \in Word(w)
  BY DEF Typed, Machine, Registers
<1>6. ASSUME i.src \notin Regs PROVE Immediate[i.src] \in 0..255
  <2>1. i.src \in {"zero", "one", "three", "ten"}
    BY <1>2, <1>6 DEF SrcNames
  <2>2. Immediate["zero"] = 0 /\ Immediate["one"] = 1 /\ Immediate["three"] = 3 /\ Immediate["ten"] = 10
    BY DEF Immediate
  <2>3. 0 \in 0..255 /\ 1 \in 0..255 /\ 3 \in 0..255 /\ 10 \in 0..255
    OBVIOUS
  <2>4. i.src = "zero" \/ i.src = "one" \/ i.src = "three" \/ i.src = "ten"
    BY <2>1
  <2> QED BY <2>2, <2>3, <2>4, Zenon
<1> DEFINE m == Immediate[i.src]
<1>7. Src = IF i.src \in Regs THEN reg[i.src] ELSE m
  BY DEF Src
<1>8. Dst = reg[i.dst]
  BY DEF Dst
<1> HIDE DEF m
<1>9. i.src \notin Regs => m \in 0..255
  BY <1>6 DEF m
<1>10. Src \in Word(w)
  BY <1>4, <1>5, <1>7, <1>9
<1> QED BY <1>1, <1>2, <1>5, <1>8, <1>10

\* An instruction that retires, with registers and flags that fit, keeps the types.
LEMMA Retired ==
    ASSUME Typed, code # << >>, UNCHANGED <<mask_5bit_shiftcount, run>>, Retires,
           reg' \in [Regs -> Word(w)], fl' \in FlagSet
    PROVE  Typed'
<1>1. w' = w
  BY DEF w
<1>2. Started'
  BY <1>1 DEF Typed, Started, Registers
<1>3. Machine'
  BY <1>1 DEF Typed, Machine, Registers, Retires
<1>4. code' \in Seq(Instruction(w)) /\ Len(code') = Len(code) - 1
  <2>1. code' = Tail(code) /\ code \in Seq(Instruction(w))
    BY DEF Typed, Program, Retires
  <2> QED BY <2>1, Rest
<1>5. Len(code') <= Len(Listing(run.prog.name))
  <2> DEFINE n == Len(Listing(run.prog.name))
             a == Len(code)
             b == Len(code')
  <2>1. a <= n /\ b = a - 1 /\ a \in Nat /\ n \in Int
    <3>1. Listing(run.prog.name) \in Seq(Instruction(w))
      BY StartedFacts, ListingTyped DEF Typed
    <3>2. n \in Nat
      BY <3>1
    <3> HIDE DEF n
    <3>3. a <= n /\ a \in Nat
      BY DEF Typed, Program, n
    <3> QED BY <1>4, <3>2, <3>3
  <2> HIDE DEF n, a, b
  <2>2. b <= n
    BY <2>1
  <2> QED BY <2>2 DEF n, b
<1>6. Program'
  BY <1>1, <1>4, <1>5 DEF Program
<1> QED BY <1>2, <1>3, <1>6 DEF Typed

\* The forms in which an instruction leaves its result.
LEMMA Written ==
    ASSUME Typed, code # << >>, UNCHANGED <<mask_5bit_shiftcount, run>>, NEW o, Fits(w, o), Writes(o)
    PROVE  Typed'
<1>1. i.dst \in Regs
  BY Operands
<1>2. reg \in [Regs -> Word(w)]
  BY DEF Typed, Machine, Registers
<1>3. reg' = [reg EXCEPT ![i.dst] = o.ret] /\ o.ret \in Word(w) /\ fl' \in FlagSet /\ Retires
  BY DEF Writes, Fits
<1>4. reg' \in [Regs -> Word(w)]
  BY <1>1, <1>2, <1>3
<1> QED BY <1>3, <1>4, Retired

\* The same for those that leave the registers alone.
LEMMA Read ==
    ASSUME Typed, code # << >>, UNCHANGED <<mask_5bit_shiftcount, run>>, NEW o, Fits(w, o), Reads(o)
    PROVE  Typed'
<1>1. reg' \in [Regs -> Word(w)]
  BY DEF Typed, Machine, Registers, Reads
<1>2. fl' \in FlagSet /\ Retires
  BY DEF Reads, Fits
<1> QED BY <1>1, <1>2, Retired

\* And for those that leave a pair of registers.
LEMMA WrittenPair ==
    ASSUME Typed, code # << >>, UNCHANGED <<mask_5bit_shiftcount, run>>, NEW o, PairFits(w, o), WritesPair(o)
    PROVE  Typed'
<1>1. reg \in [Regs -> Word(w)]
  BY DEF Typed, Machine, Registers
<1>2. /\ reg' = [reg EXCEPT !["hi"] = o.hi, !["lo"] = o.lo]
      /\ o.hi \in Word(w) /\ o.lo \in Word(w) /\ fl' \in FlagSet /\ Retires
  BY DEF WritesPair, PairFits
<1>3. reg' \in [Regs -> Word(w)]
  BY <1>1, <1>2
<1> QED BY <1>2, <1>3, Retired

\* A signal keeps registers and flags, and ends the program.
LEMMA Signalled ==
    ASSUME Typed, UNCHANGED <<mask_5bit_shiftcount, run>>, NEW what \in {"divide", "bound"}, Signals(what)
    PROVE  Typed'
<1>1. w' = w
  BY DEF w
<1>2. Started'
  BY <1>1 DEF Typed, Started, Registers
<1>3. Machine'
  BY <1>1 DEF Typed, Machine, Registers, Signals
<1>4. Listing(run.prog.name) \in Seq(Instruction(w))
  BY StartedFacts, ListingTyped DEF Typed
<1>5. code' = << >> /\ run' = run
  BY DEF Signals
<1>6. Program'
  <2>1. Len(Listing(run.prog.name)) \in Nat
    BY <1>4
  <2>2. << >> \in Seq(Instruction(w)) /\ Len(<< >>) = 0
    OBVIOUS
  <2> QED BY <1>1, <1>5, <2>1, <2>2 DEF Program
<1> QED BY <1>2, <1>3, <1>6 DEF Typed

\* Every step of the program keeps the types.
LEMMA TypedStep ==
    ASSUME Typed, Next
    PROVE  Typed'
<1> DEFINE Same == UNCHANGED <<mask_5bit_shiftcount, run>>
<1>0. /\ w \in Widths /\ fl \in FlagSet /\ reg \in [Regs -> Word(w)]
      /\ reg["hi"] \in Word(w) /\ reg["lo"] \in Word(w) /\ reg["xhi"] \in Word(w) /\ reg["xlo"] \in Word(w)
  BY StartedFacts DEF Typed, Machine, Registers, Regs
<1>1. ASSUME code # << >>
      PROVE  i.dst \in Regs /\ Dst \in Word(w) /\ Src \in Word(w) /\ (i.op = "aam" => w = "byte")
  BY <1>1, Operands
<1>2. ASSUME NEW op, Is(op) PROVE code # << >> /\ i.op = op /\ Same
  BY <1>2 DEF Is
<1> HIDE DEF Same
<1>3. ASSUME NEW o, code # << >>, Same, Fits(w, o), Writes(o) PROVE Typed'
  BY <1>3, Written DEF Same
<1>4. ASSUME NEW o, code # << >>, Same, PairFits(w, o), WritesPair(o) PROVE Typed'
  BY <1>4, WrittenPair DEF Same
<1>5. ASSUME code # << >>, Same, Retires, reg' \in [Regs -> Word(w)], fl' \in FlagSet PROVE Typed'
  BY <1>5, Retired DEF Same
<1>6. CASE Exec_add
  BY <1>0, <1>1, <1>2, <1>3, <1>6, SumsFit DEF Exec_add
<1>7. CASE Exec_adc
  BY <1>0, <1>1, <1>2, <1>3, <1>7, SumsFit DEF Exec_adc
<1>8. CASE Exec_sub
  BY <1>0, <1>1, <1>2, <1>3, <1>8, SumsFit DEF Exec_sub
<1>9. CASE Exec_sbb
  BY <1>0, <1>1, <1>2, <1>3, <1>9, SumsFit DEF Exec_sbb
<1>10. CASE Exec_cmp
  BY <1>0, <1>1, <1>2, <1>10, SumsFit, Read DEF Exec_cmp, Same
<1>11. CASE Exec_xor
  BY <1>0, <1>1, <1>2, <1>3, <1>11, LogicFits DEF Exec_xor
<1>12. CASE Exec_or
  BY <1>0, <1>1, <1>2, <1>3, <1>12, LogicFits DEF Exec_or
<1>13. CASE Exec_and
  BY <1>0, <1>1, <1>2, <1>3, <1>13, LogicFits DEF Exec_and
<1>14. CASE Exec_test
  BY <1>0, <1>1, <1>2, <1>14, LogicFits, Read DEF Exec_test, Same
<1>15. CASE Exec_inc
  BY <1>0, <1>1, <1>2, <1>3, <1>15, SumsFit DEF Exec_inc
<1>16. CASE Exec_dec
  BY <1>0, <1>1, <1>2, <1>3, <1>16, SumsFit DEF Exec_dec
<1>17. CASE Exec_xchg
  <2>1. code # << >> /\ Same /\ Retires /\ fl' = fl /\ reg' = [reg EXCEPT ![i.dst] = Src, ![i.src] = Dst]
    BY <1>2, <1>17 DEF Exec_xchg
  <2>2. reg' \in [Regs -> Word(w)]
    BY <1>0, <1>1, <2>1
  <2> QED BY <1>0, <1>5, <2>1, <2>2
<1>18. CASE Exec_groupC0
  <2>1. ASSUME code # << >> PROVE Count \in Nat
    <3>1. Src \in Nat
      BY <1>1, <2>1 DEF Word
    <3> QED BY <3>1 DEF Count
  <2>2. CASE Is("rol") /\ Writes(op_rol(w, fl, Dst, Src))
    BY <1>0, <1>1, <1>2, <1>3, <2>2, RotationsFit
  <2>3. CASE Is("ror") /\ Writes(op_ror(w, fl, Dst, Src))
    BY <1>0, <1>1, <1>2, <1>3, <2>3, RotationsFit
  <2>4. CASE Is("rcl") /\ Writes(op_rcl(w, fl, Dst, Src))
    BY <1>0, <1>1, <1>2, <1>3, <2>4, CarryRotationsFit
  <2>5. CASE Is("rcr") /\ Writes(op_rcr(w, fl, Dst, Src))
    BY <1>0, <1>1, <1>2, <1>3, <2>5, CarryRotationsFit
  <2>6. CASE Is("shl") /\ Writes(op_shl(w, fl, Dst, Count))
    BY <1>0, <1>1, <1>2, <1>3, <2>1, <2>6, ShiftLeftFits
  <2>7. CASE Is("shr") /\ Writes(op_shr(w, fl, Dst, Count))
    BY <1>0, <1>1, <1>2, <1>3, <2>1, <2>7, ShrFits
  <2>8. CASE Is("sar") /\ Writes(op_sar(w, fl, Dst, Count))
    BY <1>0, <1>1, <1>2, <1>3, <2>1, <2>8, SarFits
  <2> QED BY <1>18, <2>2, <2>3, <2>4, <2>5, <2>6, <2>7, <2>8 DEF Exec_groupC0
<1>19. CASE Exec_groupF6
  <2>1. CASE Is("not") /\ Writes(op_not(w, fl, Dst))
    BY <1>0, <1>1, <1>2, <1>3, <2>1, SignsFit
  <2>2. CASE Is("neg") /\ Writes(op_neg(w, fl, Dst))
    BY <1>0, <1>1, <1>2, <1>3, <2>2, SignsFit
  <2>3. CASE Is("mul") /\ WritesPair(op_mul(w, fl, reg["lo"], Src))
    BY <1>0, <1>1, <1>2, <1>4, <2>3, MulFits
  <2>4. CASE Is("imul") /\ WritesPair(op_imul(w, fl, reg["lo"], Src))
    BY <1>0, <1>1, <1>2, <1>4, <2>4, MulFits
  <2>5. CASE /\ Is("div")
             /\ IF DivTraps(w, reg["hi"], reg["lo"], Src) THEN Signals("divide")
                ELSE WritesPair(op_div(w, fl, reg["hi"], reg["lo"], Src))
    <3>1. code # << >> /\ Same
      BY <1>2, <2>5
    <3>2. CASE DivTraps(w, reg["hi"], reg["lo"], Src)
      BY <2>5, <3>1, <3>2, Signalled DEF Same
    <3>3. CASE ~DivTraps(w, reg["hi"], reg["lo"], Src)
      <4>1. Src # 0
        BY <3>3 DEF DivTraps
      <4>2. PairFits(w, op_div(w, fl, reg["hi"], reg["lo"], Src))
        BY <1>0, <1>1, <3>1, <4>1, DivFits
      <4> QED BY <1>4, <2>5, <3>1, <3>3, <4>2
    <3> QED BY <3>2, <3>3
  <2>6. CASE /\ Is("idiv") /\ ~Overflows
             /\ IF IdivTraps(w, reg["hi"], reg["lo"], Src) THEN Signals("divide")
                ELSE WritesPair(op_idiv(w, fl, reg["hi"], reg["lo"], Src))
    <3>1. code # << >> /\ Same
      BY <1>2, <2>6
    <3>2. CASE IdivTraps(w, reg["hi"], reg["lo"], Src)
      BY <2>6, <3>1, <3>2, Signalled DEF Same
    <3>3. CASE ~IdivTraps(w, reg["hi"], reg["lo"], Src)
      <4>1. Src # 0
        BY <3>3 DEF IdivTraps
      <4>2. PairFits(w, op_idiv(w, fl, reg["hi"], reg["lo"], Src))
        BY <1>0, <1>1, <3>1, <4>1, DivFits
      <4> QED BY <1>4, <2>6, <3>1, <3>3, <4>2
    <3> QED BY <3>2, <3>3
  <2> QED BY <1>19, <2>1, <2>2, <2>3, <2>4, <2>5, <2>6 DEF Exec_groupF6
<1>20. CASE Exec_aaaseries
  <2>1. ASSUME NEW o, Fits(w, o), reg' = [reg EXCEPT !["lo"] = o.ret], fl' = o.fl, Retires, code # << >>, Same
        PROVE  Typed'
    <3>1. reg' \in [Regs -> Word(w)] /\ fl' \in FlagSet
      BY <1>0, <2>1 DEF Fits
    <3> QED BY <1>5, <2>1, <3>1
  <2>2. CASE /\ Is("daa")
             /\ LET r == Daa(fl, reg["lo"]) IN reg' = [reg EXCEPT !["lo"] = r.ret] /\ fl' = r.fl
             /\ Retires
    BY <1>0, <1>2, <2>1, <2>2, DecimalFits
  <2>3. CASE /\ Is("das")
             /\ LET r == Das(fl, reg["lo"]) IN reg' = [reg EXCEPT !["lo"] = r.ret] /\ fl' = r.fl
             /\ Retires
    BY <1>0, <1>2, <2>1, <2>3, DecimalFits
  <2>4. CASE Is("aaa") /\ WritesPair(AsciiAdjust(fl, reg["hi"], reg["lo"], 1))
    BY <1>0, <1>2, <1>4, <2>4, AsciiFits
  <2>5. CASE Is("aas") /\ WritesPair(AsciiAdjust(fl, reg["hi"], reg["lo"], -1))
    BY <1>0, <1>2, <1>4, <2>5, AsciiFits
  <2>6. CASE Is("aam") /\ \E junk \in Junk : WritesPair(Aam(reg["lo"], Src, junk))
    <3>1. PICK junk \in Junk : WritesPair(Aam(reg["lo"], Src, junk))
      BY <2>6
    <3>2. PairFits(w, Aam(reg["lo"], Src, junk))
      BY <1>0, <1>1, <1>2, <2>6, AamFits
    <3> QED BY <1>2, <1>4, <2>6, <3>1, <3>2
  <2>7. CASE Is("aad") /\ WritesPair(Aad(reg["hi"], reg["lo"], Src))
    BY <1>0, <1>1, <1>2, <1>4, <2>7, AadFits
  <2> QED BY <1>20, <2>2, <2>3, <2>4, <2>5, <2>6, <2>7 DEF Exec_aaaseries
<1>21. CASE Exec_ahf
  <2>1. LowFlags(fl) \in Word(w) /\ WithLowFlags(fl, reg["hi"]) \in FlagSet
    BY <1>0, FlagMovesFit
  <2>2. CASE Is("lahf") /\ reg' = [reg EXCEPT !["hi"] = LowFlags(fl)] /\ Retires /\ UNCHANGED fl
    <3>1. reg' \in [Regs -> Word(w)] /\ fl' \in FlagSet
      BY <1>0, <2>1, <2>2
    <3> QED BY <1>2, <1>5, <2>2, <3>1
  <2>3. CASE Is("sahf") /\ fl' = WithLowFlags(fl, reg["hi"]) /\ Retires /\ UNCHANGED reg
    BY <1>0, <1>2, <1>5, <2>1, <2>3
  <2> QED BY <1>21, <2>2, <2>3 DEF Exec_ahf
<1>22. CASE Exec_clx
  <2>1. [fl EXCEPT !.cf = 1 - @] \in FlagSet /\ [fl EXCEPT !.cf = 0] \in FlagSet /\ [fl EXCEPT !.cf = 1] \in FlagSet
    BY <1>0, FlagMovesFit
  <2>2. /\ code # << >> /\ Same /\ Retires /\ reg' = reg
        /\ \/ fl' = [fl EXCEPT !.cf = 1 - @]
           \/ fl' = [fl EXCEPT !.cf = 0]
           \/ fl' = [fl EXCEPT !.cf = 1]
    BY <1>2, <1>22 DEF Exec_clx
  <2>3. fl' \in FlagSet
    BY <2>1, <2>2
  <2> QED BY <1>0, <1>5, <2>2, <2>3
<1>23. CASE Exec_cxex
  <2> DEFINE x == Msb(w, reg["lo"]) * Ones(w)
  <2>1. x \in Word(w)
    <3>1. Msb(w, reg["lo"]) \in {0, 1}
      BY <1>0, SignBit
    <3>2. Ones(w) \in Nat
      BY <1>0, Sizes
    <3>3. x = 0 \/ x = Ones(w)
      BY <3>1, <3>2
    <3> QED BY <3>2, <3>3 DEF Word
  <2>2. code # << >> /\ Same /\ Retires /\ fl' = fl /\ reg' = [reg EXCEPT !["hi"] = x]
    BY <1>2, <1>23 DEF Exec_cxex
  <2> HIDE DEF x
  <2>3. reg' \in [Regs -> Word(w)]
    BY <1>0, <2>1, <2>2
  <2> QED BY <1>0, <1>5, <2>2, <2>3
<1>24. CASE Exec_bound
  <2>1. code # << >> /\ Same
    BY <1>2, <1>24 DEF Exec_bound
  <2>2. Signals("bound") \/ (Retires /\ reg' = reg /\ fl' = fl)
    BY <1>24 DEF Exec_bound
  <2>3. CASE Signals("bound")
    BY <2>1, <2>3, Signalled DEF Same
  <2>4. CASE Retires /\ reg' = reg /\ fl' = fl
    BY <1>0, <1>5, <2>1, <2>4
  <2> QED BY <2>2, <2>3, <2>4
<1> QED BY <1>6, <1>7, <1>8, <1>9, <1>10, <1>11, <1>12, <1>13, <1>14, <1>15, <1>16, <1>17, <1>18, <1>19,
           <1>20, <1>21, <1>22, <1>23, <1>24 DEF Next

\* A program starts with registers and flags that fit.
LEMMA TypedInit ==
    ASSUME Init
    PROVE  Typed
<1>1. PICK p \in Programs, carry \in {0, 1} :
       \E hi \in p.start.hi, lo \in p.start.lo, xhi \in p.start.xhi, xlo \in p.start.xlo :
          /\ reg = [hi |-> hi, lo |-> lo, xhi |-> xhi, xlo |-> xlo]
          /\ fl  = [f \in FlagNames |-> carry]
          /\ run = [prog |-> p, reg |-> reg, fl |-> fl]
          /\ code = Listing(p.name)
  BY DEF Init
<1>2. PICK hi \in p.start.hi, lo \in p.start.lo, xhi \in p.start.xhi, xlo \in p.start.xlo :
          /\ reg = [hi |-> hi, lo |-> lo, xhi |-> xhi, xlo |-> xlo]
          /\ fl  = [f \in FlagNames |-> carry]
          /\ run = [prog |-> p, reg |-> reg, fl |-> fl]
          /\ code = Listing(p.name)
  BY <1>1
<1>3. run.prog = p /\ run.reg = reg /\ run.fl = fl /\ w = p.w
  BY <1>2 DEF w
<1>4. /\ p.start.hi \subseteq Word(w) /\ p.start.lo \subseteq Word(w)
      /\ p.start.xhi \subseteq Word(w) /\ p.start.xlo \subseteq Word(w)
  BY <1>3, ProgramsAssumption DEF Regs, Word
<1>5. reg["hi"] = hi /\ reg["lo"] = lo /\ reg["xhi"] = xhi /\ reg["xlo"] = xlo
  BY <1>2
<1>6. reg \in [Regs -> Word(w)]
  BY <1>2, <1>4 DEF Regs
<1>7. fl \in FlagSet
  BY <1>2 DEF FlagSet
<1>8. \A r \in Regs : reg[r] \in p.start[r]
  BY <1>5 DEF Regs
<1>9. Started
  BY <1>3, <1>6, <1>7, <1>8 DEF Started, Registers
<1>10. Machine
  BY <1>6, <1>7 DEF Machine, Registers, Init
<1>11. Program
  <2>1. code \in Seq(Instruction(w)) /\ code = Listing(run.prog.name)
    BY <1>2, <1>3, <1>9, StartedFacts, ListingTyped
  <2>2. Len(code) \in Nat
    BY <2>1
  <2> QED BY <2>1, <2>2 DEF Program
<1> QED BY <1>9, <1>10, <1>11 DEF Typed

\* Registers and flags fit their widths, whatever the program (the type
\* invariant TypeOK): no operation of add.c, inc.c, binops.c and aaa.c leaves a
\* carry in the operand, a flag that is not a bit, or a quotient too large.
THEOREM Softx86AluTypeOK == Spec => []TypeOK
<1>1. Init => Typed
  BY TypedInit
<1>2. Typed /\ [Next]_vars => Typed'
  <2>1. ASSUME Typed, UNCHANGED vars PROVE Typed'
    BY <2>1 DEF vars, Typed, Started, Machine, Program, Registers, w
  <2> QED BY <2>1, TypedStep
<1>3. Typed => TypeOK
  BY DEF Typed, Started, Machine, Program, TypeOK, Registers, Word, FlagSet, w
<1> QED BY <1>1, <1>2, <1>3, PTL DEF Spec

-----------------------------------------------------------------------------
(***************************************************************************)
(* What a step does is decided by the instruction at hand.                 *)
(***************************************************************************)
\* The instruction that is executed, by its name.
LEMMA Dispatch ==
    ASSUME Next
    PROVE  /\ code # << >> /\ run' = run /\ mask_5bit_shiftcount' = mask_5bit_shiftcount
           /\ (i.op = "add" => Writes(op_add(w, fl, Dst, Src)))
           /\ (i.op = "adc" => Writes(op_adc(w, fl, Dst, Src)))
           /\ (i.op = "sub" => Writes(op_sub(w, fl, Dst, Src)))
           /\ (i.op = "sbb" => Writes(op_sbb(w, fl, Dst, Src)))
           /\ (i.op = "cmp" => Reads(op_sub(w, fl, Dst, Src)))
           /\ (i.op = "xor" => Writes(op_xor(w, fl, Dst, Src)))
           /\ (i.op = "or" => Writes(op_or(w, fl, Dst, Src)))
           /\ (i.op = "and" => Writes(op_and(w, fl, Dst, Src)))
           /\ (i.op = "test" => Reads(op_test(w, fl, Dst, Src)))
           /\ (i.op = "inc" => Writes(op_inc(w, fl, Dst)))
           /\ (i.op = "dec" => Writes(op_dec(w, fl, Dst)))
           /\ (i.op = "xchg" => (reg' = [reg EXCEPT ![i.dst] = Src, ![i.src] = Dst] /\ Retires /\ fl' = fl))
           /\ (i.op = "cxex" => (reg' = [reg EXCEPT !["hi"] = Msb(w, reg["lo"]) * Ones(w)] /\ Retires /\ fl' = fl))
           /\ (i.op = "rol" => Writes(op_rol(w, fl, Dst, Src)))
           /\ (i.op = "ror" => Writes(op_ror(w, fl, Dst, Src)))
           /\ (i.op = "rcl" => Writes(op_rcl(w, fl, Dst, Src)))
           /\ (i.op = "rcr" => Writes(op_rcr(w, fl, Dst, Src)))
           /\ (i.op = "shl" => Writes(op_shl(w, fl, Dst, Count)))
           /\ (i.op = "shr" => Writes(op_shr(w, fl, Dst, Count)))
           /\ (i.op = "sar" => Writes(op_sar(w, fl, Dst, Count)))
           /\ (i.op = "not" => Writes(op_not(w, fl, Dst)))
           /\ (i.op = "neg" => Writes(op_neg(w, fl, Dst)))
           /\ (i.op = "mul" => WritesPair(op_mul(w, fl, reg["lo"], Src)))
           /\ (i.op = "imul" => WritesPair(op_imul(w, fl, reg["lo"], Src)))
           /\ (i.op = "div" => (IF DivTraps(w, reg["hi"], reg["lo"], Src) THEN Signals("divide") ELSE WritesPair(op_div(w, fl, reg["hi"], reg["lo"], Src))))
           /\ (i.op = "idiv" => (IF IdivTraps(w, reg["hi"], reg["lo"], Src) THEN Signals("divide") ELSE WritesPair(op_idiv(w, fl, reg["hi"], reg["lo"], Src))))
           /\ (i.op = "daa" => (reg' = [reg EXCEPT !["lo"] = Daa(fl, reg["lo"]).ret] /\ fl' = Daa(fl, reg["lo"]).fl /\ Retires))
           /\ (i.op = "das" => (reg' = [reg EXCEPT !["lo"] = Das(fl, reg["lo"]).ret] /\ fl' = Das(fl, reg["lo"]).fl /\ Retires))
           /\ (i.op = "aaa" => WritesPair(AsciiAdjust(fl, reg["hi"], reg["lo"], 1)))
           /\ (i.op = "aas" => WritesPair(AsciiAdjust(fl, reg["hi"], reg["lo"], -1)))
           /\ (i.op = "aam" => ((\E junk \in Junk : WritesPair(Aam(reg["lo"], Src, junk)))))
           /\ (i.op = "aad" => WritesPair(Aad(reg["hi"], reg["lo"], Src)))
           /\ (i.op = "lahf" => (reg' = [reg EXCEPT !["hi"] = LowFlags(fl)] /\ Retires /\ fl' = fl))
           /\ (i.op = "sahf" => (fl' = WithLowFlags(fl, reg["hi"]) /\ Retires /\ reg' = reg))
           /\ (i.op = "cmc" => (fl' = [fl EXCEPT !.cf = 1 - @] /\ Retires /\ reg' = reg))
           /\ (i.op = "clc" => (fl' = [fl EXCEPT !.cf = 0] /\ Retires /\ reg' = reg))
           /\ (i.op = "stc" => (fl' = [fl EXCEPT !.cf = 1] /\ Retires /\ reg' = reg))
<1>1. Exec_add => /\ code # << >> /\ run' = run /\ mask_5bit_shiftcount' = mask_5bit_shiftcount
                  /\ (i.op = "add")
                  /\ (Writes(op_add(w, fl, Dst, Src)))
  BY DEF Exec_add, Is
<1>2. Exec_adc => /\ code # << >> /\ run' = run /\ mask_5bit_shiftcount' = mask_5bit_shiftcount
                  /\ (i.op = "adc")
                  /\ (Writes(op_adc(w, fl, Dst, Src)))
  BY DEF Exec_adc, Is
<1>3. Exec_sub => /\ code # << >> /\ run' = run /\ mask_5bit_shiftcount' = mask_5bit_shiftcount
                  /\ (i.op = "sub")
                  /\ (Writes(op_sub(w, fl, Dst, Src)))
  BY DEF Exec_sub, Is
<1>4. Exec_sbb => /\ code # << >> /\ run' = run /\ mask_5bit_shiftcount' = mask_5bit_shiftcount
                  /\ (i.op = "sbb")
                  /\ (Writes(op_sbb(w, fl, Dst, Src)))
  BY DEF Exec_sbb, Is
<1>5. Exec_cmp => /\ code # << >> /\ run' = run /\ mask_5bit_shiftcount' = mask_5bit_shiftcount
                  /\ (i.op = "cmp")
                  /\ (Reads(op_sub(w, fl, Dst, Src)))
  BY DEF Exec_cmp, Is
<1>6. Exec_xor => /\ code # << >> /\ run' = run /\ mask_5bit_shiftcount' = mask_5bit_shiftcount
                  /\ (i.op = "xor")
                  /\ (Writes(op_xor(w, fl, Dst, Src)))
  BY DEF Exec_xor, Is
<1>7. Exec_or => /\ code # << >> /\ run' = run /\ mask_5bit_shiftcount' = mask_5bit_shiftcount
                 /\ (i.op = "or")
                 /\ (Writes(op_or(w, fl, Dst, Src)))
  BY DEF Exec_or, Is
<1>8. Exec_and => /\ code # << >> /\ run' = run /\ mask_5bit_shiftcount' = mask_5bit_shiftcount
                  /\ (i.op = "and")
                  /\ (Writes(op_and(w, fl, Dst, Src)))
  BY DEF Exec_and, Is
<1>9. Exec_test => /\ code # << >> /\ run' = run /\ mask_5bit_shiftcount' = mask_5bit_shiftcount
                   /\ (i.op = "test")
                   /\ (Reads(op_test(w, fl, Dst, Src)))
  BY DEF Exec_test, Is
<1>10. Exec_inc => /\ code # << >> /\ run' = run /\ mask_5bit_shiftcount' = mask_5bit_shiftcount
                   /\ (i.op = "inc")
                   /\ (Writes(op_inc(w, fl, Dst)))
  BY DEF Exec_inc, Is
<1>11. Exec_dec => /\ code # << >> /\ run' = run /\ mask_5bit_shiftcount' = mask_5bit_shiftcount
                   /\ (i.op = "dec")
                   /\ (Writes(op_dec(w, fl, Dst)))
  BY DEF Exec_dec, Is
<1>12. Exec_xchg => /\ code # << >> /\ run' = run /\ mask_5bit_shiftcount' = mask_5bit_shiftcount
                    /\ (i.op = "xchg")
                    /\ (reg' = [reg EXCEPT ![i.dst] = Src, ![i.src] = Dst] /\ Retires /\ fl' = fl)
  BY DEF Exec_xchg, Is
<1>13. Exec_cxex => /\ code # << >> /\ run' = run /\ mask_5bit_shiftcount' = mask_5bit_shiftcount
                    /\ (i.op = "cxex")
                    /\ (reg' = [reg EXCEPT !["hi"] = Msb(w, reg["lo"]) * Ones(w)] /\ Retires /\ fl' = fl)
  BY DEF Exec_cxex, Is
<1>14. Exec_bound => /\ code # << >> /\ run' = run /\ mask_5bit_shiftcount' = mask_5bit_shiftcount
                     /\ (i.op = "bound")
  BY DEF Exec_bound, Is
<1>15. Exec_groupC0 => /\ code # << >> /\ run' = run /\ mask_5bit_shiftcount' = mask_5bit_shiftcount
                       /\ (i.op = "rol" \/ i.op = "ror" \/ i.op = "rcl" \/ i.op = "rcr" \/ i.op = "shl" \/ i.op = "shr" \/ i.op = "sar")
                       /\ (i.op = "rol" => (Writes(op_rol(w, fl, Dst, Src))))
                       /\ (i.op = "ror" => (Writes(op_ror(w, fl, Dst, Src))))
                       /\ (i.op = "rcl" => (Writes(op_rcl(w, fl, Dst, Src))))
                       /\ (i.op = "rcr" => (Writes(op_rcr(w, fl, Dst, Src))))
                       /\ (i.op = "shl" => (Writes(op_shl(w, fl, Dst, Count))))
                       /\ (i.op = "shr" => (Writes(op_shr(w, fl, Dst, Count))))
                       /\ (i.op = "sar" => (Writes(op_sar(w, fl, Dst, Count))))
  BY DEF Exec_groupC0, Is
<1>16. Exec_groupF6 => /\ code # << >> /\ run' = run /\ mask_5bit_shiftcount' = mask_5bit_shiftcount
                       /\ (i.op = "not" \/ i.op = "neg" \/ i.op = "mul" \/ i.op = "imul" \/ i.op = "div" \/ i.op = "idiv")
                       /\ (i.op = "not" => (Writes(op_not(w, fl, Dst))))
                       /\ (i.op = "neg" => (Writes(op_neg(w, fl, Dst))))
                       /\ (i.op = "mul" => (WritesPair(op_mul(w, fl, reg["lo"], Src))))
                       /\ (i.op = "imul" => (WritesPair(op_imul(w, fl, reg["lo"], Src))))
                       /\ (i.op = "div" => (IF DivTraps(w, reg["hi"], reg["lo"], Src) THEN Signals("divide") ELSE WritesPair(op_div(w, fl, reg["hi"], reg["lo"], Src))))
                       /\ (i.op = "idiv" => (IF IdivTraps(w, reg["hi"], reg["lo"], Src) THEN Signals("divide") ELSE WritesPair(op_idiv(w, fl, reg["hi"], reg["lo"], Src))))
  BY DEF Exec_groupF6, Is
<1>17. Exec_aaaseries => /\ code # << >> /\ run' = run /\ mask_5bit_shiftcount' = mask_5bit_shiftcount
                         /\ (i.op = "daa" \/ i.op = "das" \/ i.op = "aaa" \/ i.op = "aas" \/ i.op = "aam" \/ i.op = "aad")
                         /\ (i.op = "daa" => (reg' = [reg EXCEPT !["lo"] = Daa(fl, reg["lo"]).ret] /\ fl' = Daa(fl, reg["lo"]).fl /\ Retires))
                         /\ (i.op = "das" => (reg' = [reg EXCEPT !["lo"] = Das(fl, reg["lo"]).ret] /\ fl' = Das(fl, reg["lo"]).fl /\ Retires))
                         /\ (i.op = "aaa" => (WritesPair(AsciiAdjust(fl, reg["hi"], reg["lo"], 1))))
                         /\ (i.op = "aas" => (WritesPair(AsciiAdjust(fl, reg["hi"], reg["lo"], -1))))
                         /\ (i.op = "aam" => ((\E junk \in Junk : WritesPair(Aam(reg["lo"], Src, junk)))))
                         /\ (i.op = "aad" => (WritesPair(Aad(reg["hi"], reg["lo"], Src))))
  BY DEF Exec_aaaseries, Is
<1>18. Exec_ahf => /\ code # << >> /\ run' = run /\ mask_5bit_shiftcount' = mask_5bit_shiftcount
                   /\ (i.op = "lahf" \/ i.op = "sahf")
                   /\ (i.op = "lahf" => (reg' = [reg EXCEPT !["hi"] = LowFlags(fl)] /\ Retires /\ fl' = fl))
                   /\ (i.op = "sahf" => (fl' = WithLowFlags(fl, reg["hi"]) /\ Retires /\ reg' = reg))
  BY DEF Exec_ahf, Is
<1>19. Exec_clx => /\ code # << >> /\ run' = run /\ mask_5bit_shiftcount' = mask_5bit_shiftcount
                   /\ (i.op = "cmc" \/ i.op = "clc" \/ i.op = "stc")
                   /\ (i.op = "cmc" => (fl' = [fl EXCEPT !.cf = 1 - @] /\ Retires /\ reg' = reg))
                   /\ (i.op = "clc" => (fl' = [fl EXCEPT !.cf = 0] /\ Retires /\ reg' = reg))
                   /\ (i.op = "stc" => (fl' = [fl EXCEPT !.cf = 1] /\ Retires /\ reg' = reg))
  BY DEF Exec_clx, Is
<1>20. Exec_add \/ Exec_adc \/ Exec_sub \/ Exec_sbb \/ Exec_cmp \/ Exec_xor \/ Exec_or \/ Exec_and \/ Exec_test \/ Exec_inc \/ Exec_dec \/ Exec_xchg \/ Exec_cxex \/ Exec_bound \/ Exec_groupC0 \/ Exec_groupF6 \/ Exec_aaaseries \/ Exec_ahf \/ Exec_clx
  BY DEF Next
<1>21. code # << >> /\ run' = run /\ mask_5bit_shiftcount' = mask_5bit_shiftcount
  BY <1>20, <1>1, <1>2, <1>3, <1>4, <1>5, <1>6, <1>7, <1>8, <1>9, <1>10, <1>11, <1>12, <1>13, <1>14, <1>15, <1>16, <1>17, <1>18, <1>19
<1>22. i.op = "add" => (Writes(op_add(w, fl, Dst, Src)))
  BY <1>20, <1>1, <1>2, <1>3, <1>4, <1>5, <1>6, <1>7, <1>8, <1>9, <1>10, <1>11, <1>12, <1>13, <1>14, <1>15, <1>16, <1>17, <1>18, <1>19
<1>23. i.op = "adc" => (Writes(op_adc(w, fl, Dst, Src)))
  BY <1>20, <1>1, <1>2, <1>3, <1>4, <1>5, <1>6, <1>7, <1>8, <1>9, <1>10, <1>11, <1>12, <1>13, <1>14, <1>15, <1>16, <1>17, <1>18, <1>19
<1>24. i.op = "sub" => (Writes(op_sub(w, fl, Dst, Src)))
  BY <1>20, <1>1, <1>2, <1>3, <1>4, <1>5, <1>6, <1>7, <1>8, <1>9, <1>10, <1>11, <1>12, <1>13, <1>14, <1>15, <1>16, <1>17, <1>18, <1>19
<1>25. i.op = "sbb" => (Writes(op_sbb(w, fl, Dst, Src)))
  BY <1>20, <1>1, <1>2, <1>3, <1>4, <1>5, <1>6, <1>7, <1>8, <1>9, <1>10, <1>11, <1>12, <1>13, <1>14, <1>15, <1>16, <1>17, <1>18, <1>19
<1>26. i.op = "cmp" => (Reads(op_sub(w, fl, Dst, Src)))
  BY <1>20, <1>1, <1>2, <1>3, <1>4, <1>5, <1>6, <1>7, <1>8, <1>9, <1>10, <1>11, <1>12, <1>13, <1>14, <1>15, <1>16, <1>17, <1>18, <1>19
<1>27. i.op = "xor" => (Writes(op_xor(w, fl, Dst, Src)))
  BY <1>20, <1>1, <1>2, <1>3, <1>4, <1>5, <1>6, <1>7, <1>8, <1>9, <1>10, <1>11, <1>12, <1>13, <1>14, <1>15, <1>16, <1>17, <1>18, <1>19
<1>28. i.op = "or" => (Writes(op_or(w, fl, Dst, Src)))
  BY <1>20, <1>1, <1>2, <1>3, <1>4, <1>5, <1>6, <1>7, <1>8, <1>9, <1>10, <1>11, <1>12, <1>13, <1>14, <1>15, <1>16, <1>17, <1>18, <1>19
<1>29. i.op = "and" => (Writes(op_and(w, fl, Dst, Src)))
  BY <1>20, <1>1, <1>2, <1>3, <1>4, <1>5, <1>6, <1>7, <1>8, <1>9, <1>10, <1>11, <1>12, <1>13, <1>14, <1>15, <1>16, <1>17, <1>18, <1>19
<1>30. i.op = "test" => (Reads(op_test(w, fl, Dst, Src)))
  BY <1>20, <1>1, <1>2, <1>3, <1>4, <1>5, <1>6, <1>7, <1>8, <1>9, <1>10, <1>11, <1>12, <1>13, <1>14, <1>15, <1>16, <1>17, <1>18, <1>19
<1>31. i.op = "inc" => (Writes(op_inc(w, fl, Dst)))
  BY <1>20, <1>1, <1>2, <1>3, <1>4, <1>5, <1>6, <1>7, <1>8, <1>9, <1>10, <1>11, <1>12, <1>13, <1>14, <1>15, <1>16, <1>17, <1>18, <1>19
<1>32. i.op = "dec" => (Writes(op_dec(w, fl, Dst)))
  BY <1>20, <1>1, <1>2, <1>3, <1>4, <1>5, <1>6, <1>7, <1>8, <1>9, <1>10, <1>11, <1>12, <1>13, <1>14, <1>15, <1>16, <1>17, <1>18, <1>19
<1>33. i.op = "xchg" => (reg' = [reg EXCEPT ![i.dst] = Src, ![i.src] = Dst] /\ Retires /\ fl' = fl)
  BY <1>20, <1>1, <1>2, <1>3, <1>4, <1>5, <1>6, <1>7, <1>8, <1>9, <1>10, <1>11, <1>12, <1>13, <1>14, <1>15, <1>16, <1>17, <1>18, <1>19
<1>34. i.op = "cxex" => (reg' = [reg EXCEPT !["hi"] = Msb(w, reg["lo"]) * Ones(w)] /\ Retires /\ fl' = fl)
  BY <1>20, <1>1, <1>2, <1>3, <1>4, <1>5, <1>6, <1>7, <1>8, <1>9, <1>10, <1>11, <1>12, <1>13, <1>14, <1>15, <1>16, <1>17, <1>18, <1>19
<1>35. i.op = "rol" => (Writes(op_rol(w, fl, Dst, Src)))
  BY <1>20, <1>1, <1>2, <1>3, <1>4, <1>5, <1>6, <1>7, <1>8, <1>9, <1>10, <1>11, <1>12, <1>13, <1>14, <1>15, <1>16, <1>17, <1>18, <1>19
<1>36. i.op = "ror" => (Writes(op_ror(w, fl, Dst, Src)))
  BY <1>20, <1>1, <1>2, <1>3, <1>4, <1>5, <1>6, <1>7, <1>8, <1>9, <1>10, <1>11, <1>12, <1>13, <1>14, <1>15, <1>16, <1>17, <1>18, <1>19
<1>37. i.op = "rcl" => (Writes(op_rcl(w, fl, Dst, Src)))
  BY <1>20, <1>1, <1>2, <1>3, <1>4, <1>5, <1>6, <1>7, <1>8, <1>9, <1>10, <1>11, <1>12, <1>13, <1>14, <1>15, <1>16, <1>17, <1>18, <1>19
<1>38. i.op = "rcr" => (Writes(op_rcr(w, fl, Dst, Src)))
  BY <1>20, <1>1, <1>2, <1>3, <1>4, <1>5, <1>6, <1>7, <1>8, <1>9, <1>10, <1>11, <1>12, <1>13, <1>14, <1>15, <1>16, <1>17, <1>18, <1>19
<1>39. i.op = "shl" => (Writes(op_shl(w, fl, Dst, Count)))
  BY <1>20, <1>1, <1>2, <1>3, <1>4, <1>5, <1>6, <1>7, <1>8, <1>9, <1>10, <1>11, <1>12, <1>13, <1>14, <1>15, <1>16, <1>17, <1>18, <1>19
<1>40. i.op = "shr" => (Writes(op_shr(w, fl, Dst, Count)))
  BY <1>20, <1>1, <1>2, <1>3, <1>4, <1>5, <1>6, <1>7, <1>8, <1>9, <1>10, <1>11, <1>12, <1>13, <1>14, <1>15, <1>16, <1>17, <1>18, <1>19
<1>41. i.op = "sar" => (Writes(op_sar(w, fl, Dst, Count)))
  BY <1>20, <1>1, <1>2, <1>3, <1>4, <1>5, <1>6, <1>7, <1>8, <1>9, <1>10, <1>11, <1>12, <1>13, <1>14, <1>15, <1>16, <1>17, <1>18, <1>19
<1>42. i.op = "not" => (Writes(op_not(w, fl, Dst)))
  BY <1>20, <1>1, <1>2, <1>3, <1>4, <1>5, <1>6, <1>7, <1>8, <1>9, <1>10, <1>11, <1>12, <1>13, <1>14, <1>15, <1>16, <1>17, <1>18, <1>19
<1>43. i.op = "neg" => (Writes(op_neg(w, fl, Dst)))
  BY <1>20, <1>1, <1>2, <1>3, <1>4, <1>5, <1>6, <1>7, <1>8, <1>9, <1>10, <1>11, <1>12, <1>13, <1>14, <1>15, <1>16, <1>17, <1>18, <1>19
<1>44. i.op = "mul" => (WritesPair(op_mul(w, fl, reg["lo"], Src)))
  BY <1>20, <1>1, <1>2, <1>3, <1>4, <1>5, <1>6, <1>7, <1>8, <1>9, <1>10, <1>11, <1>12, <1>13, <1>14, <1>15, <1>16, <1>17, <1>18, <1>19
<1>45. i.op = "imul" => (WritesPair(op_imul(w, fl, reg["lo"], Src)))
  BY <1>20, <1>1, <1>2, <1>3, <1>4, <1>5, <1>6, <1>7, <1>8, <1>9, <1>10, <1>11, <1>12, <1>13, <1>14, <1>15, <1>16, <1>17, <1>18, <1>19
<1>46. i.op = "div" => (IF DivTraps(w, reg["hi"], reg["lo"], Src) THEN Signals("divide") ELSE WritesPair(op_div(w, fl, reg["hi"], reg["lo"], Src)))
  BY <1>20, <1>1, <1>2, <1>3, <1>4, <1>5, <1>6, <1>7, <1>8, <1>9, <1>10, <1>11, <1>12, <1>13, <1>14, <1>15, <1>16, <1>17, <1>18, <1>19
<1>47. i.op = "idiv" => (IF IdivTraps(w, reg["hi"], reg["lo"], Src) THEN Signals("divide") ELSE WritesPair(op_idiv(w, fl, reg["hi"], reg["lo"], Src)))
  BY <1>20, <1>1, <1>2, <1>3, <1>4, <1>5, <1>6, <1>7, <1>8, <1>9, <1>10, <1>11, <1>12, <1>13, <1>14, <1>15, <1>16, <1>17, <1>18, <1>19
<1>48. i.op = "daa" => (reg' = [reg EXCEPT !["lo"] = Daa(fl, reg["lo"]).ret] /\ fl' = Daa(fl, reg["lo"]).fl /\ Retires)
  BY <1>20, <1>1, <1>2, <1>3, <1>4, <1>5, <1>6, <1>7, <1>8, <1>9, <1>10, <1>11, <1>12, <1>13, <1>14, <1>15, <1>16, <1>17, <1>18, <1>19
<1>49. i.op = "das" => (reg' = [reg EXCEPT !["lo"] = Das(fl, reg["lo"]).ret] /\ fl' = Das(fl, reg["lo"]).fl /\ Retires)
  BY <1>20, <1>1, <1>2, <1>3, <1>4, <1>5, <1>6, <1>7, <1>8, <1>9, <1>10, <1>11, <1>12, <1>13, <1>14, <1>15, <1>16, <1>17, <1>18, <1>19
<1>50. i.op = "aaa" => (WritesPair(AsciiAdjust(fl, reg["hi"], reg["lo"], 1)))
  BY <1>20, <1>1, <1>2, <1>3, <1>4, <1>5, <1>6, <1>7, <1>8, <1>9, <1>10, <1>11, <1>12, <1>13, <1>14, <1>15, <1>16, <1>17, <1>18, <1>19
<1>51. i.op = "aas" => (WritesPair(AsciiAdjust(fl, reg["hi"], reg["lo"], -1)))
  BY <1>20, <1>1, <1>2, <1>3, <1>4, <1>5, <1>6, <1>7, <1>8, <1>9, <1>10, <1>11, <1>12, <1>13, <1>14, <1>15, <1>16, <1>17, <1>18, <1>19
<1>52. i.op = "aam" => ((\E junk \in Junk : WritesPair(Aam(reg["lo"], Src, junk))))
  BY <1>20, <1>1, <1>2, <1>3, <1>4, <1>5, <1>6, <1>7, <1>8, <1>9, <1>10, <1>11, <1>12, <1>13, <1>14, <1>15, <1>16, <1>17, <1>18, <1>19
<1>53. i.op = "aad" => (WritesPair(Aad(reg["hi"], reg["lo"], Src)))
  BY <1>20, <1>1, <1>2, <1>3, <1>4, <1>5, <1>6, <1>7, <1>8, <1>9, <1>10, <1>11, <1>12, <1>13, <1>14, <1>15, <1>16, <1>17, <1>18, <1>19
<1>54. i.op = "lahf" => (reg' = [reg EXCEPT !["hi"] = LowFlags(fl)] /\ Retires /\ fl' = fl)
  BY <1>20, <1>1, <1>2, <1>3, <1>4, <1>5, <1>6, <1>7, <1>8, <1>9, <1>10, <1>11, <1>12, <1>13, <1>14, <1>15, <1>16, <1>17, <1>18, <1>19
<1>55. i.op = "sahf" => (fl' = WithLowFlags(fl, reg["hi"]) /\ Retires /\ reg' = reg)
  BY <1>20, <1>1, <1>2, <1>3, <1>4, <1>5, <1>6, <1>7, <1>8, <1>9, <1>10, <1>11, <1>12, <1>13, <1>14, <1>15, <1>16, <1>17, <1>18, <1>19
<1>56. i.op = "cmc" => (fl' = [fl EXCEPT !.cf = 1 - @] /\ Retires /\ reg' = reg)
  BY <1>20, <1>1, <1>2, <1>3, <1>4, <1>5, <1>6, <1>7, <1>8, <1>9, <1>10, <1>11, <1>12, <1>13, <1>14, <1>15, <1>16, <1>17, <1>18, <1>19
<1>57. i.op = "clc" => (fl' = [fl EXCEPT !.cf = 0] /\ Retires /\ reg' = reg)
  BY <1>20, <1>1, <1>2, <1>3, <1>4, <1>5, <1>6, <1>7, <1>8, <1>9, <1>10, <1>11, <1>12, <1>13, <1>14, <1>15, <1>16, <1>17, <1>18, <1>19
<1>58. i.op = "stc" => (fl' = [fl EXCEPT !.cf = 1] /\ Retires /\ reg' = reg)
  BY <1>20, <1>1, <1>2, <1>3, <1>4, <1>5, <1>6, <1>7, <1>8, <1>9, <1>10, <1>11, <1>12, <1>13, <1>14, <1>15, <1>16, <1>17, <1>18, <1>19
<1> QED BY <1>21, <1>22, <1>23, <1>24, <1>25, <1>26, <1>27, <1>28, <1>29, <1>30, <1>31, <1>32, <1>33, <1>34, <1>35, <1>36, <1>37, <1>38, <1>39, <1>40, <1>41, <1>42, <1>43, <1>44, <1>45, <1>46, <1>47, <1>48, <1>49, <1>50, <1>51, <1>52, <1>53, <1>54, <1>55, <1>56, <1>57, <1>58

-----------------------------------------------------------------------------
(***************************************************************************)
(* The steps of a program, given the instruction it is at.                 *)
(***************************************************************************)
\* The value of an operand, a register or an immediate.
Val(s) == IF s \in Regs THEN reg[s] ELSE Immediate[s]

Onward == code' = Tail(code) /\ trap' = trap

\* A result is left in a register, in two, or in the flags alone.
Leaves(d, o)  == reg' = [reg EXCEPT ![d] = o.ret] /\ fl' = o.fl /\ Onward
LeavesPair(o) == reg' = [reg EXCEPT !["hi"] = o.hi, !["lo"] = o.lo] /\ fl' = o.fl /\ Onward
LeavesFlags(f) == fl' = f /\ reg' = reg /\ Onward

\* The count of a shift.
Shifts(s) == IF mask_5bit_shiftcount THEN Val(s) % 32 ELSE Val(s)

\* What a step does at an instruction of each name.
LEMMA Executes ==
    ASSUME Next, NEW op, NEW dst, NEW src, Head(code) = I(op, dst, src)
    PROVE  /\ run' = run /\ mask_5bit_shiftcount' = mask_5bit_shiftcount
           /\ (op = "add" => Leaves(dst, op_add(w, fl, reg[dst], Val(src))))
           /\ (op = "adc" => Leaves(dst, op_adc(w, fl, reg[dst], Val(src))))
           /\ (op = "sub" => Leaves(dst, op_sub(w, fl, reg[dst], Val(src))))
           /\ (op = "sbb" => Leaves(dst, op_sbb(w, fl, reg[dst], Val(src))))
           /\ (op = "cmp" => LeavesFlags(op_sub(w, fl, reg[dst], Val(src)).fl))
           /\ (op = "xor" => Leaves(dst, op_xor(w, fl, reg[dst], Val(src))))
           /\ (op = "or" => Leaves(dst, op_or(w, fl, reg[dst], Val(src))))
           /\ (op = "and" => Leaves(dst, op_and(w, fl, reg[dst], Val(src))))
           /\ (op = "test" => LeavesFlags(op_test(w, fl, reg[dst], Val(src)).fl))
           /\ (op = "inc" => Leaves(dst, op_inc(w, fl, reg[dst])))
           /\ (op = "dec" => Leaves(dst, op_dec(w, fl, reg[dst])))
           /\ (op = "xchg" => (reg' = [reg EXCEPT ![dst] = Val(src), ![src] = reg[dst]] /\ Onward /\ fl' = fl))
           /\ (op = "cxex" => (reg' = [reg EXCEPT !["hi"] = Msb(w, reg["lo"]) * Ones(w)] /\ Onward /\ fl' = fl))
           /\ (op = "rol" => Leaves(dst, op_rol(w, fl, reg[dst], Val(src))))
           /\ (op = "ror" => Leaves(dst, op_ror(w, fl, reg[dst], Val(src))))
           /\ (op = "rcl" => Leaves(dst, op_rcl(w, fl, reg[dst], Val(src))))
           /\ (op = "rcr" => Leaves(dst, op_rcr(w, fl, reg[dst], Val(src))))
           /\ (op = "shl" => Leaves(dst, op_shl(w, fl, reg[dst], Shifts(src))))
           /\ (op = "shr" => Leaves(dst, op_shr(w, fl, reg[dst], Shifts(src))))
           /\ (op = "sar" => Leaves(dst, op_sar(w, fl, reg[dst], Shifts(src))))
           /\ (op = "not" => Leaves(dst, op_not(w, fl, reg[dst])))
           /\ (op = "neg" => Leaves(dst, op_neg(w, fl, reg[dst])))
           /\ (op = "mul" => LeavesPair(op_mul(w, fl, reg["lo"], Val(src))))
           /\ (op = "imul" => LeavesPair(op_imul(w, fl, reg["lo"], Val(src))))
           /\ (op = "div" => (IF DivTraps(w, reg["hi"], reg["lo"], Val(src)) THEN Signals("divide") ELSE LeavesPair(op_div(w, fl, reg["hi"], reg["lo"], Val(src)))))
           /\ (op = "idiv" => (IF IdivTraps(w, reg["hi"], reg["lo"], Val(src)) THEN Signals("divide") ELSE LeavesPair(op_idiv(w, fl, reg["hi"], reg["lo"], Val(src)))))
           /\ (op = "daa" => (reg' = [reg EXCEPT !["lo"] = Daa(fl, reg["lo"]).ret] /\ fl' = Daa(fl, reg["lo"]).fl /\ Onward))
           /\ (op = "das" => (reg' = [reg EXCEPT !["lo"] = Das(fl, reg["lo"]).ret] /\ fl' = Das(fl, reg["lo"]).fl /\ Onward))
           /\ (op = "aaa" => LeavesPair(AsciiAdjust(fl, reg["hi"], reg["lo"], 1)))
           /\ (op = "aas" => LeavesPair(AsciiAdjust(fl, reg["hi"], reg["lo"], -1)))
           /\ (op = "aam" => ((\E junk \in Junk : LeavesPair(Aam(reg["lo"], Val(src), junk)))))
           /\ (op = "aad" => LeavesPair(Aad(reg["hi"], reg["lo"], Val(src))))
           /\ (op = "lahf" => (reg' = [reg EXCEPT !["hi"] = LowFlags(fl)] /\ Onward /\ fl' = fl))
           /\ (op = "sahf" => LeavesFlags(WithLowFlags(fl, reg["hi"])))
           /\ (op = "cmc" => LeavesFlags([fl EXCEPT !.cf = 1 - @]))
           /\ (op = "clc" => LeavesFlags([fl EXCEPT !.cf = 0]))
           /\ (op = "stc" => LeavesFlags([fl EXCEPT !.cf = 1]))
<1>1. i.op = op /\ i.dst = dst /\ i.src = src
  BY Fields DEF i
<1>2. Dst = reg[dst] /\ Src = Val(src)
  BY <1>1 DEF Dst, Src, Val
<1>3. Count = Shifts(src)
  BY <1>2 DEF Count, Shifts
<1>4. op = "add" => Leaves(dst, op_add(w, fl, reg[dst], Val(src)))
  BY <1>1, <1>2, <1>3, Dispatch DEF Writes, WritesPair, Reads, Retires, Leaves, LeavesPair, LeavesFlags, Onward
<1>5. op = "adc" => Leaves(dst, op_adc(w, fl, reg[dst], Val(src)))
  BY <1>1, <1>2, <1>3, Dispatch DEF Writes, WritesPair, Reads, Retires, Leaves, LeavesPair, LeavesFlags, Onward
<1>6. op = "sub" => Leaves(dst, op_sub(w, fl, reg[dst], Val(src)))
  BY <1>1, <1>2, <1>3, Dispatch DEF Writes, WritesPair, Reads, Retires, Leaves, LeavesPair, LeavesFlags, Onward
<1>7. op = "sbb" => Leaves(dst, op_sbb(w, fl, reg[dst], Val(src)))
  BY <1>1, <1>2, <1>3, Dispatch DEF Writes, WritesPair, Reads, Retires, Leaves, LeavesPair, LeavesFlags, Onward
<1>8. op = "cmp" => LeavesFlags(op_sub(w, fl, reg[dst], Val(src)).fl)
  BY <1>1, <1>2, <1>3, Dispatch DEF Writes, WritesPair, Reads, Retires, Leaves, LeavesPair, LeavesFlags, Onward
<1>9. op = "xor" => Leaves(dst, op_xor(w, fl, reg[dst], Val(src)))
  BY <1>1, <1>2, <1>3, Dispatch DEF Writes, WritesPair, Reads, Retires, Leaves, LeavesPair, LeavesFlags, Onward
<1>10. op = "or" => Leaves(dst, op_or(w, fl, reg[dst], Val(src)))
  BY <1>1, <1>2, <1>3, Dispatch DEF Writes, WritesPair, Reads, Retires, Leaves, LeavesPair, LeavesFlags, Onward
<1>11. op = "and" => Leaves(dst, op_and(w, fl, reg[dst], Val(src)))
  BY <1>1, <1>2, <1>3, Dispatch DEF Writes, WritesPair, Reads, Retires, Leaves, LeavesPair, LeavesFlags, Onward
<1>12. op = "test" => LeavesFlags(op_test(w, fl, reg[dst], Val(src)).fl)
  BY <1>1, <1>2, <1>3, Dispatch DEF Writes, WritesPair, Reads, Retires, Leaves, LeavesPair, LeavesFlags, Onward
<1>13. op = "inc" => Leaves(dst, op_inc(w, fl, reg[dst]))
  BY <1>1, <1>2, <1>3, Dispatch DEF Writes, WritesPair, Reads, Retires, Leaves, LeavesPair, LeavesFlags, Onward
<1>14. op = "dec" => Leaves(dst, op_dec(w, fl, reg[dst]))
  BY <1>1, <1>2, <1>3, Dispatch DEF Writes, WritesPair, Reads, Retires, Leaves, LeavesPair, LeavesFlags, Onward
<1>15. op = "xchg" => (reg' = [reg EXCEPT ![dst] = Val(src), ![src] = reg[dst]] /\ Onward /\ fl' = fl)
  BY <1>1, <1>2, <1>3, Dispatch DEF Writes, WritesPair, Reads, Retires, Leaves, LeavesPair, LeavesFlags, Onward
<1>16. op = "cxex" => (reg' = [reg EXCEPT !["hi"] = Msb(w, reg["lo"]) * Ones(w)] /\ Onward /\ fl' = fl)
  BY <1>1, <1>2, <1>3, Dispatch DEF Writes, WritesPair, Reads, Retires, Leaves, LeavesPair, LeavesFlags, Onward
<1>17. op = "rol" => Leaves(dst, op_rol(w, fl, reg[dst], Val(src)))
  BY <1>1, <1>2, <1>3, Dispatch DEF Writes, WritesPair, Reads, Retires, Leaves, LeavesPair, LeavesFlags, Onward
<1>18. op = "ror" => Leaves(dst, op_ror(w, fl, reg[dst], Val(src)))
  BY <1>1, <1>2, <1>3, Dispatch DEF Writes, WritesPair, Reads, Retires, Leaves, LeavesPair, LeavesFlags, Onward
<1>19. op = "rcl" => Leaves(dst, op_rcl(w, fl, reg[dst], Val(src)))
  BY <1>1, <1>2, <1>3, Dispatch DEF Writes, WritesPair, Reads, Retires, Leaves, LeavesPair, LeavesFlags, Onward
<1>20. op = "rcr" => Leaves(dst, op_rcr(w, fl, reg[dst], Val(src)))
  BY <1>1, <1>2, <1>3, Dispatch DEF Writes, WritesPair, Reads, Retires, Leaves, LeavesPair, LeavesFlags, Onward
<1>21. op = "shl" => Leaves(dst, op_shl(w, fl, reg[dst], Shifts(src)))
  BY <1>1, <1>2, <1>3, Dispatch DEF Writes, WritesPair, Reads, Retires, Leaves, LeavesPair, LeavesFlags, Onward
<1>22. op = "shr" => Leaves(dst, op_shr(w, fl, reg[dst], Shifts(src)))
  BY <1>1, <1>2, <1>3, Dispatch DEF Writes, WritesPair, Reads, Retires, Leaves, LeavesPair, LeavesFlags, Onward
<1>23. op = "sar" => Leaves(dst, op_sar(w, fl, reg[dst], Shifts(src)))
  BY <1>1, <1>2, <1>3, Dispatch DEF Writes, WritesPair, Reads, Retires, Leaves, LeavesPair, LeavesFlags, Onward
<1>24. op = "not" => Leaves(dst, op_not(w, fl, reg[dst]))
  BY <1>1, <1>2, <1>3, Dispatch DEF Writes, WritesPair, Reads, Retires, Leaves, LeavesPair, LeavesFlags, Onward
<1>25. op = "neg" => Leaves(dst, op_neg(w, fl, reg[dst]))
  BY <1>1, <1>2, <1>3, Dispatch DEF Writes, WritesPair, Reads, Retires, Leaves, LeavesPair, LeavesFlags, Onward
<1>26. op = "mul" => LeavesPair(op_mul(w, fl, reg["lo"], Val(src)))
  BY <1>1, <1>2, <1>3, Dispatch DEF Writes, WritesPair, Reads, Retires, Leaves, LeavesPair, LeavesFlags, Onward
<1>27. op = "imul" => LeavesPair(op_imul(w, fl, reg["lo"], Val(src)))
  BY <1>1, <1>2, <1>3, Dispatch DEF Writes, WritesPair, Reads, Retires, Leaves, LeavesPair, LeavesFlags, Onward
<1>28. op = "div" => (IF DivTraps(w, reg["hi"], reg["lo"], Val(src)) THEN Signals("divide") ELSE LeavesPair(op_div(w, fl, reg["hi"], reg["lo"], Val(src))))
  BY <1>1, <1>2, <1>3, Dispatch DEF Writes, WritesPair, Reads, Retires, Leaves, LeavesPair, LeavesFlags, Onward
<1>29. op = "idiv" => (IF IdivTraps(w, reg["hi"], reg["lo"], Val(src)) THEN Signals("divide") ELSE LeavesPair(op_idiv(w, fl, reg["hi"], reg["lo"], Val(src))))
  BY <1>1, <1>2, <1>3, Dispatch DEF Writes, WritesPair, Reads, Retires, Leaves, LeavesPair, LeavesFlags, Onward
<1>30. op = "daa" => (reg' = [reg EXCEPT !["lo"] = Daa(fl, reg["lo"]).ret] /\ fl' = Daa(fl, reg["lo"]).fl /\ Onward)
  BY <1>1, <1>2, <1>3, Dispatch DEF Writes, WritesPair, Reads, Retires, Leaves, LeavesPair, LeavesFlags, Onward
<1>31. op = "das" => (reg' = [reg EXCEPT !["lo"] = Das(fl, reg["lo"]).ret] /\ fl' = Das(fl, reg["lo"]).fl /\ Onward)
  BY <1>1, <1>2, <1>3, Dispatch DEF Writes, WritesPair, Reads, Retires, Leaves, LeavesPair, LeavesFlags, Onward
<1>32. op = "aaa" => LeavesPair(AsciiAdjust(fl, reg["hi"], reg["lo"], 1))
  BY <1>1, <1>2, <1>3, Dispatch DEF Writes, WritesPair, Reads, Retires, Leaves, LeavesPair, LeavesFlags, Onward
<1>33. op = "aas" => LeavesPair(AsciiAdjust(fl, reg["hi"], reg["lo"], -1))
  BY <1>1, <1>2, <1>3, Dispatch DEF Writes, WritesPair, Reads, Retires, Leaves, LeavesPair, LeavesFlags, Onward
<1>34. op = "aam" => ((\E junk \in Junk : LeavesPair(Aam(reg["lo"], Val(src), junk))))
  BY <1>1, <1>2, <1>3, Dispatch DEF Writes, WritesPair, Reads, Retires, Leaves, LeavesPair, LeavesFlags, Onward
<1>35. op = "aad" => LeavesPair(Aad(reg["hi"], reg["lo"], Val(src)))
  BY <1>1, <1>2, <1>3, Dispatch DEF Writes, WritesPair, Reads, Retires, Leaves, LeavesPair, LeavesFlags, Onward
<1>36. op = "lahf" => (reg' = [reg EXCEPT !["hi"] = LowFlags(fl)] /\ Onward /\ fl' = fl)
  BY <1>1, <1>2, <1>3, Dispatch DEF Writes, WritesPair, Reads, Retires, Leaves, LeavesPair, LeavesFlags, Onward
<1>37. op = "sahf" => LeavesFlags(WithLowFlags(fl, reg["hi"]))
  BY <1>1, <1>2, <1>3, Dispatch DEF Writes, WritesPair, Reads, Retires, Leaves, LeavesPair, LeavesFlags, Onward
<1>38. op = "cmc" => LeavesFlags([fl EXCEPT !.cf = 1 - @])
  BY <1>1, <1>2, <1>3, Dispatch DEF Writes, WritesPair, Reads, Retires, Leaves, LeavesPair, LeavesFlags, Onward
<1>39. op = "clc" => LeavesFlags([fl EXCEPT !.cf = 0])
  BY <1>1, <1>2, <1>3, Dispatch DEF Writes, WritesPair, Reads, Retires, Leaves, LeavesPair, LeavesFlags, Onward
<1>40. op = "stc" => LeavesFlags([fl EXCEPT !.cf = 1])
  BY <1>1, <1>2, <1>3, Dispatch DEF Writes, WritesPair, Reads, Retires, Leaves, LeavesPair, LeavesFlags, Onward
<1> QED BY Dispatch, <1>4, <1>5, <1>6, <1>7, <1>8, <1>9, <1>10, <1>11, <1>12, <1>13, <1>14, <1>15, <1>16, <1>17, <1>18, <1>19, <1>20, <1>21, <1>22, <1>23, <1>24, <1>25, <1>26, <1>27, <1>28, <1>29, <1>30, <1>31, <1>32, <1>33, <1>34, <1>35, <1>36, <1>37, <1>38, <1>39, <1>40

\* Where a result is left, and where it is not.
LEMMA Left ==
    ASSUME Typed, NEW d \in Regs, NEW o, Leaves(d, o)
    PROVE  /\ fl' = o.fl /\ code' = Tail(code) /\ trap' = trap
           /\ reg'["hi"] = IF d = "hi" THEN o.ret ELSE reg["hi"]
           /\ reg'["lo"] = IF d = "lo" THEN o.ret ELSE reg["lo"]
           /\ reg'["xhi"] = IF d = "xhi" THEN o.ret ELSE reg["xhi"]
           /\ reg'["xlo"] = IF d = "xlo" THEN o.ret ELSE reg["xlo"]
  BY DEF Leaves, Onward, Typed, Machine, Registers, Regs

\* The same for a pair.
LEMMA LeftPair ==
    ASSUME Typed, NEW o, LeavesPair(o)
    PROVE  /\ fl' = o.fl /\ code' = Tail(code) /\ trap' = trap
           /\ reg'["hi"] = o.hi /\ reg'["lo"] = o.lo
           /\ reg'["xhi"] = reg["xhi"] /\ reg'["xlo"] = reg["xlo"]
  BY DEF LeavesPair, Onward, Typed, Machine, Registers, Regs

\* The operands an instruction may name.
LEMMA Values ==
    /\ Val("hi") = reg["hi"] /\ Val("lo") = reg["lo"] /\ Val("xhi") = reg["xhi"] /\ Val("xlo") = reg["xlo"]
    /\ Val("zero") = 0 /\ Val("one") = 1 /\ Val("three") = 3 /\ Val("ten") = 10
  BY DEF Val, Regs, Immediate

\* The machine as the program finds it: the registers hold what they are named for.
Holds(hi, lo, xhi, xlo) ==
    reg["hi"] = hi /\ reg["lo"] = lo /\ reg["xhi"] = xhi /\ reg["xlo"] = xlo

Fresh == Holds(R.hi, R.lo, R.xhi, R.xlo) /\ fl = run.fl

\* Every program starts with its listing, and with the registers it starts from.
LEMMA FreshInit ==
    ASSUME Init
    PROVE  code = Listing(run.prog.name) /\ trap = "none" /\ Fresh
<1>1. PICK p \in Programs, carry \in {0, 1} :
       \E hi \in p.start.hi, lo \in p.start.lo, xhi \in p.start.xhi, xlo \in p.start.xlo :
          /\ reg = [hi |-> hi, lo |-> lo, xhi |-> xhi, xlo |-> xlo]
          /\ fl  = [f \in FlagNames |-> carry]
          /\ run = [prog |-> p, reg |-> reg, fl |-> fl]
          /\ code = Listing(p.name)
  BY DEF Init
<1>2. run.prog = p /\ run.reg = reg /\ run.fl = fl /\ code = Listing(p.name)
  BY <1>1
<1> QED BY <1>2 DEF Fresh, Holds, R, Init

\* The types of the registers, now and at the start.
LEMMA TypedFacts ==
    ASSUME Typed
    PROVE  /\ w \in Widths /\ fl \in FlagSet /\ run.fl \in FlagSet
           /\ reg["hi"] \in Word(w) /\ reg["lo"] \in Word(w)
           /\ reg["xhi"] \in Word(w) /\ reg["xlo"] \in Word(w)
           /\ R.hi \in Word(w) /\ R.lo \in Word(w) /\ R.xhi \in Word(w) /\ R.xlo \in Word(w)
           /\ (run.prog.name \in ByteNames => w = "byte")
  BY StartedFacts DEF Typed, Started, Machine, Registers, Regs, R

-----------------------------------------------------------------------------
(***************************************************************************)
(* Additions and subtractions, as numbers.                                 *)
(***************************************************************************)
\* A sum and a difference, cut to the width.
LEMMA Cut ==
    ASSUME NEW v \in Widths, NEW x \in Int
    PROVE  /\ (x \in 0..Ones(v) => x % Size(v) = x)
           /\ (x >= Size(v) /\ x < 2 * Size(v) => x % Size(v) = x - Size(v))
           /\ (x < 0 /\ x >= 0 - Size(v) => x % Size(v) = x + Size(v))
<1> DEFINE n == Size(v)
<1>1. n \in Nat /\ n > 0 /\ Ones(v) = n - 1
  BY Sizes
<1> HIDE DEF n
<1>2. ASSUME x \in 0..(n - 1) PROVE x % n = x
  <2>1. x = n * 0 + x
    BY <1>1
  <2> QED BY <1>1, <1>2, <2>1, DivModUnique
<1>3. ASSUME x >= n, x < 2 * n PROVE x % n = x - n
  <2>1. x = n * 1 + (x - n) /\ x - n \in 0..(n - 1)
    BY <1>1, <1>3
  <2> QED BY <1>1, <2>1, DivModUnique
<1>4. ASSUME x < 0, x >= 0 - n PROVE x % n = x + n
  <2>1. x = n * (-1) + (x + n) /\ x + n \in 0..(n - 1)
    BY <1>1, <1>4
  <2> QED BY <1>1, <2>1, DivModUnique
<1> QED BY <1>1, <1>2, <1>3, <1>4 DEF n

\* Sums and differences as they are left in a register, and what is carried out of them.
Plus(v, s, u)  == IF s + u < Size(v) THEN s + u ELSE (s + u) - Size(v)
Carry(v, s, u) == IF s + u < Size(v) THEN 0 ELSE 1
Minus(v, s, u) == IF s >= u THEN s - u ELSE (s - u) + Size(v)
Borrow(s, u)   == IF s >= u THEN 0 ELSE 1

\* ADD and ADC: the sum, and the carry out of it.
LEMMA Sums ==
    ASSUME NEW v \in Widths, NEW f \in FlagSet, NEW s \in Word(v), NEW u \in Word(v)
    PROVE  LET o == op_add(v, f, s, u)
               c == op_adc(v, f, s, u)
           IN  /\ o.ret = Plus(v, s, u) /\ o.fl.cf = Carry(v, s, u)
               /\ ~(f.cf = 1 /\ u = Ones(v) /\ s # Ones(v)) =>
                     c.ret = Plus(v, s, u + f.cf)
               /\ c.fl.cf = Carry(v, s, u + f.cf)
<1> DEFINE n == Size(v)
           a == (s + u) % n
           b == ((s + u) + f.cf) % n
<1>1. n \in Nat /\ n > 0 /\ Ones(v) = n - 1 /\ s \in 0..(n - 1) /\ u \in 0..(n - 1)
  BY Sizes DEF Word
<1>2. f.cf \in {0, 1}
  BY FlagTypes
<1>3. a = IF s + u < n THEN s + u ELSE (s + u) - n
  BY <1>1, Cut
<1>4. op_add(v, f, s, u).ret = a /\ op_add(v, f, s, u).fl.cf = IF a < s THEN 1 ELSE 0
  BY DEF op_add, Outcome, Flags, Bit
<1>5. b = IF (s + u) + f.cf < n THEN (s + u) + f.cf ELSE ((s + u) + f.cf) - n
  <2>1. (s + u) + f.cf \in Int /\ (s + u) + f.cf < 2 * n
    BY <1>1, <1>2
  <2> QED BY <1>1, <1>2, <2>1, Cut
<1>6. ASSUME ~(f.cf = 1 /\ u = Ones(v))
      PROVE  op_adc(v, f, s, u).ret = b /\ op_adc(v, f, s, u).fl.cf = IF b < s THEN 1 ELSE 0
  BY <1>6 DEF op_adc, Outcome, Flags, Bit
<1> HIDE DEF n, a, b
<1>7. op_add(v, f, s, u).ret = (IF s + u < n THEN s + u ELSE (s + u) - n)
      /\ op_add(v, f, s, u).fl.cf = (IF s + u < n THEN 0 ELSE 1)
  BY <1>1, <1>3, <1>4
<1>8. ASSUME f.cf = 1, u = Ones(v)
      PROVE  op_adc(v, f, s, u).ret = Ones(v) /\ op_adc(v, f, s, u).fl.cf = 1
  BY <1>8 DEF op_adc, Outcome, Flags, Bit
<1>9. ASSUME ~(f.cf = 1 /\ u = Ones(v) /\ s # Ones(v))
      PROVE  /\ op_adc(v, f, s, u).ret = (IF (s + u) + f.cf < n THEN (s + u) + f.cf ELSE ((s + u) + f.cf) - n)
             /\ op_adc(v, f, s, u).fl.cf = (IF (s + u) + f.cf < n THEN 0 ELSE 1)
  <2>1. CASE ~(f.cf = 1 /\ u = Ones(v))
    BY <1>1, <1>2, <1>5, <1>6, <2>1
  <2>2. CASE f.cf = 1 /\ u = Ones(v) /\ s = Ones(v)
    BY <1>1, <1>8, <2>2
  <2> QED BY <1>9, <2>1, <2>2
<1>10. (s + u) + f.cf = s + (u + f.cf)
  BY <1>1, <1>2
<1>11. op_adc(v, f, s, u).fl.cf = Carry(v, s, u + f.cf)
  <2>1. CASE f.cf = 1 /\ u = Ones(v)
    BY <1>1, <1>8, <2>1 DEF Carry, n
  <2> QED BY <1>9, <1>10, <2>1 DEF Carry, n
<1> QED BY <1>7, <1>9, <1>10, <1>11 DEF n, Plus, Carry

\* SUB, CMP and SBB: the difference, and the borrow.
LEMMA Differences ==
    ASSUME NEW v \in Widths, NEW f \in FlagSet, NEW s \in Word(v), NEW u \in Word(v)
    PROVE  LET o == op_sub(v, f, s, u)
               c == op_sbb(v, f, s, u)
           IN  /\ o.ret = Minus(v, s, u) /\ o.fl.cf = Borrow(s, u) /\ o.fl.of = Borrow(s, u)
               /\ o.fl.zf = (IF s = u THEN 1 ELSE 0) /\ o.fl.sf = Msb(v, Minus(v, s, u))
               /\ ~(f.cf = 1 /\ u = Ones(v) /\ s # Ones(v)) =>
                     c.ret = Minus(v, s, u + f.cf)
               /\ c.fl.cf = Borrow(s, u + f.cf)
<1> DEFINE n == Size(v)
           a == (s - u) % n
           b == (s - (u + f.cf)) % n
<1>1. n \in Nat /\ n > 0 /\ Ones(v) = n - 1 /\ s \in 0..(n - 1) /\ u \in 0..(n - 1)
  BY Sizes DEF Word
<1>2. f.cf \in {0, 1}
  BY FlagTypes
<1>3. a = IF s >= u THEN s - u ELSE (s - u) + n
  BY <1>1, Cut
<1>4. /\ op_sub(v, f, s, u).ret = a /\ op_sub(v, f, s, u).fl.cf = (IF a > s THEN 1 ELSE 0)
      /\ op_sub(v, f, s, u).fl.of = (IF a > s THEN 1 ELSE 0)
      /\ op_sub(v, f, s, u).fl.zf = (IF a = 0 THEN 1 ELSE 0)
      /\ op_sub(v, f, s, u).fl.sf = Msb(v, a)
  BY DEF op_sub, Outcome, Flags, Bit
<1>5. ASSUME ~(f.cf = 1 /\ u = Ones(v))
      PROVE  b = IF s >= u + f.cf THEN s - (u + f.cf) ELSE (s - (u + f.cf)) + n
  <2>1. s - (u + f.cf) \in Int /\ s - (u + f.cf) >= 0 - n
    BY <1>1, <1>2
  <2> QED BY <1>1, <1>2, <2>1, Cut
<1>6. ASSUME ~(f.cf = 1 /\ u = Ones(v))
      PROVE  op_sbb(v, f, s, u).ret = b /\ op_sbb(v, f, s, u).fl.cf = IF b > s THEN 1 ELSE 0
  BY <1>6 DEF op_sbb, Outcome, Flags, Bit
<1> HIDE DEF n, a, b
<1>7. /\ op_sub(v, f, s, u).ret = (IF s >= u THEN s - u ELSE (s - u) + n)
      /\ op_sub(v, f, s, u).fl.cf = (IF s >= u THEN 0 ELSE 1)
      /\ op_sub(v, f, s, u).fl.of = op_sub(v, f, s, u).fl.cf
      /\ op_sub(v, f, s, u).fl.zf = (IF s = u THEN 1 ELSE 0)
      /\ op_sub(v, f, s, u).fl.sf = Msb(v, op_sub(v, f, s, u).ret)
  BY <1>1, <1>3, <1>4
<1>8. ASSUME f.cf = 1, u = Ones(v)
      PROVE  op_sbb(v, f, s, u).ret = Ones(v) /\ op_sbb(v, f, s, u).fl.cf = 1
  BY <1>8 DEF op_sbb, Outcome, Flags, Bit
<1>9. ASSUME ~(f.cf = 1 /\ u = Ones(v) /\ s # Ones(v))
      PROVE  /\ op_sbb(v, f, s, u).ret = (IF s >= u + f.cf THEN s - (u + f.cf) ELSE (s - (u + f.cf)) + n)
             /\ op_sbb(v, f, s, u).fl.cf = (IF s >= u + f.cf THEN 0 ELSE 1)
  <2>1. CASE ~(f.cf = 1 /\ u = Ones(v))
    BY <1>1, <1>2, <1>5, <1>6, <2>1
  <2>2. CASE f.cf = 1 /\ u = Ones(v) /\ s = Ones(v)
    BY <1>1, <1>8, <2>2
  <2> QED BY <1>9, <2>1, <2>2
<1>10. op_sbb(v, f, s, u).fl.cf = Borrow(s, u + f.cf)
  <2>1. CASE f.cf = 1 /\ u = Ones(v)
    BY <1>1, <1>8, <2>1 DEF Borrow, n
  <2> QED BY <1>9, <2>1 DEF Borrow, n
<1> QED BY <1>1, <1>3, <1>4, <1>7, <1>9, <1>10 DEF n, Minus, Borrow

\* INC and DEC: the carry is left as it was.
LEMMA Counts ==
    ASSUME NEW v \in Widths, NEW f \in FlagSet, NEW s \in Word(v)
    PROVE  /\ op_inc(v, f, s).ret = Plus(v, s, 1) /\ op_inc(v, f, s).fl.cf = f.cf
           /\ op_dec(v, f, s).ret = Minus(v, s, 1) /\ op_dec(v, f, s).fl.cf = f.cf
<1> DEFINE n == Size(v)
<1>1. n \in Nat /\ n > 1 /\ Ones(v) = n - 1 /\ s \in 0..(n - 1)
  BY Sizes DEF Word
<1>2. (s + 1) % n = IF s + 1 < n THEN s + 1 ELSE (s + 1) - n
  BY <1>1, Cut
<1>3. (s - 1) % n = IF s >= 1 THEN s - 1 ELSE (s - 1) + n
  BY <1>1, Cut
<1> QED BY <1>2, <1>3 DEF op_inc, op_dec, Outcome, Flags, Plus, Minus

\* Sums and differences are words, and what goes up comes down.
LEMMA PlusMinus ==
    ASSUME NEW v \in Widths, NEW s \in Word(v), NEW u \in Word(v)
    PROVE  /\ Plus(v, s, u) \in Word(v) /\ Minus(v, s, u) \in Word(v)
           /\ Minus(v, Plus(v, s, u), u) = s
           /\ Carry(v, s, u) \in {0, 1} /\ Borrow(s, u) \in {0, 1}
           /\ 0 \in Word(v) /\ 1 \in Word(v)
<1> DEFINE n == Size(v)
<1>1. n \in Nat /\ n > 1 /\ Ones(v) = n - 1 /\ s \in 0..(n - 1) /\ u \in 0..(n - 1)
  BY Sizes DEF Word
<1> HIDE DEF n
<1>2. Plus(v, s, u) = IF s + u < n THEN s + u ELSE (s + u) - n
  BY DEF Plus, n
<1>3. \A x : Minus(v, x, u) = IF x >= u THEN x - u ELSE (x - u) + n
  BY DEF Minus, n
<1>4. Minus(v, s, u) \in 0..(n - 1)
  BY <1>1, <1>3
<1> DEFINE p == Plus(v, s, u)
<1>5. Minus(v, p, u) = IF p >= u THEN p - u ELSE (p - u) + n
  BY <1>3
<1>6. p = IF s + u < n THEN s + u ELSE (s + u) - n
  BY <1>2
<1> HIDE DEF p
<1>7. p \in 0..(n - 1) /\ Minus(v, p, u) = s
  BY <1>1, <1>5, <1>6
<1>8. Carry(v, s, u) \in {0, 1} /\ Borrow(s, u) \in {0, 1}
  BY DEF Carry, Borrow
<1> QED BY <1>1, <1>4, <1>7, <1>8 DEF p, Word

\* A number combined with itself.
LEMMA WithItself ==
    ASSUME NEW v \in Widths, NEW f \in FlagSet, NEW s \in Word(v)
    PROVE  /\ op_or(v, f, s, s).ret = s /\ op_and(v, f, s, s).ret = s
           /\ \A o \in {op_or(v, f, s, s), op_and(v, f, s, s), op_test(v, f, s, s)} :
                 /\ o.fl.cf = 0 /\ o.fl.of = 0 /\ o.fl.sf = Msb(v, s)
                 /\ o.fl.zf = IF s = 0 THEN 1 ELSE 0
<1> DEFINE a == op_or(v, f, s, s)
           b == op_and(v, f, s, s)
<1>1. /\ a.ret \in Word(v) /\ b.ret \in Word(v)
      /\ \A k \in Places(v) : /\ BitAt(a.ret, k) = Bit(BitAt(s, k) + BitAt(s, k) > 0)
                              /\ BitAt(b.ret, k) = BitAt(s, k) * BitAt(s, k)
  BY LogicFits DEF Fits
<1>2. \A k \in Places(v) : BitAt(s, k) \in {0, 1}
  <2>1. Places(v) \subseteq Nat /\ s \in Nat
    BY SignBit DEF Places
  <2> QED BY <2>1, BitRange
<1>3. \A e \in {0, 1} : Bit(e + e > 0) = e /\ e * e = e
  BY DEF Bit
<1>4. \A k \in Places(v) : BitAt(a.ret, k) = BitAt(s, k) /\ BitAt(b.ret, k) = BitAt(s, k)
  BY <1>1, <1>2, <1>3
<1>5. a.ret = s
  <2> HIDE DEF a
  <2> QED BY <1>1, <1>4, SameBits
<1>6. b.ret = s
  <2> HIDE DEF b
  <2> QED BY <1>1, <1>4, SameBits
<1>7. FromBits(v, OrBits(v, s, s)) = s
  BY <1>5 DEF op_or, Outcome
<1>8. FromBits(v, AndBits(v, s, s)) = s
  BY <1>6 DEF op_and, Outcome
<1>9. a.fl = Flags(v, s, 0, 0, 0) /\ b.fl = Flags(v, s, 0, 0, 0)
  BY <1>7, <1>8 DEF op_or, op_and, Outcome
<1>10. op_test(v, f, s, s).fl = [Flags(v, s, 0, 0, 0) EXCEPT !.pf = Parity[s % Pow2[ByteBits]]]
  BY <1>8 DEF op_test, op_and, Outcome
<1>11. LET g == Flags(v, s, 0, 0, 0) IN g.cf = 0 /\ g.of = 0 /\ g.sf = Msb(v, s) /\ g.zf = IF s = 0 THEN 1 ELSE 0
  BY DEF Flags, Bit
<1>12. LET g == op_test(v, f, s, s).fl IN g.cf = 0 /\ g.of = 0 /\ g.sf = Msb(v, s) /\ g.zf = IF s = 0 THEN 1 ELSE 0
  BY <1>10 DEF Flags, Bit
<1> QED BY <1>5, <1>6, <1>9, <1>11, <1>12

\* RCL by one doubles a number, RCR by one halves it: the carry comes in at one end
\* and the bit at the other end goes out.
LEMMA RotatedByOne ==
    ASSUME NEW v \in Widths, NEW f \in FlagSet, NEW s \in Word(v)
    PROVE  LET l == op_rcl(v, f, s, 1)
               r == op_rcr(v, f, s, 1)
           IN  /\ l.fl.cf * Size(v) + l.ret = 2 * s + f.cf
               /\ r.ret = Half(v) * f.cf + (s \div 2) /\ r.fl.cf = s % 2
<1> DEFINE n == Bits(v)
           h == Half(v)
           T == Through(v, f, s)
           l == op_rcl(v, f, s, 1)
           r == op_rcr(v, f, s, 1)
<1>1. /\ n \in Nat /\ n >= 8 /\ h \in Nat /\ h > 0 /\ Size(v) = 2 * h /\ s \in 0..(2 * h - 1) /\ Ones(v) = Size(v) - 1
      /\ f.cf \in {0, 1} /\ T = f.cf * Size(v) + s
  BY Sizes, FlagTypes DEF Word, Through
<1>2. Pow2[n] = Size(v) /\ Pow2[1] = 2 /\ 1 \in Word(v)
  BY <1>1, SmallPowers DEF Size, Word
<1>3. 1 % (n + 1) = 1
  <2>1. 1 = (n + 1) * 0 + 1 /\ 1 \in 0..((n + 1) - 1) /\ n + 1 \in Nat /\ n + 1 > 0
    BY <1>1
  <2> QED BY <2>1, DivModUnique
<1>4. /\ Fits(v, l) /\ Fits(v, r)
      /\ Through(v, l.fl, l.ret) = Turned(v, f, s, 1) /\ Through(v, r.fl, r.ret) = Turned(v, f, s, (n + 1) - 1)
  <2>1. 1 # 0
    OBVIOUS
  <2> QED BY <1>2, <1>3, <2>1, CarryRotationsFit
<1> HIDE DEF l, r, T
<1>5. Turned(v, f, s, 1) = 2 * s + f.cf
  <2>1. n + 1 \in Nat /\ 1 \in 0..(n + 1) /\ (n + 1) - 1 = n
    BY <1>1
  <2>2. f.cf \in 0..(Pow2[1] - 1) /\ s \in 0..(Pow2[n] - 1)
    BY <1>1, <1>2
  <2>3. RotatedLeft(Pow2[(n + 1) - 1] * f.cf + s, 1, n + 1) = Pow2[1] * s + f.cf
    BY <2>1, <2>2, Rotation
  <2>4. Pow2[(n + 1) - 1] * f.cf + s = T
    BY <1>1, <1>2, <2>1
  <2> QED BY <1>2, <2>3, <2>4 DEF Turned, T
<1>6. Turned(v, f, s, (n + 1) - 1) = (s % 2) * Size(v) + (h * f.cf + (s \div 2))
  <2> DEFINE a == s \div 2
             b == s % 2
  <2>1. a \in 0..(h - 1) /\ b \in {0, 1} /\ s = 2 * a + b
    BY <1>1
  <2> HIDE DEF a, b
  <2>2. n + 1 \in Nat /\ n \in 0..(n + 1) /\ (n + 1) - n = 1 /\ (n + 1) - 1 = n
    BY <1>1
  <2>3. T = 2 * (h * f.cf + a) + b /\ h * f.cf + a \in 0..(Size(v) - 1)
    <3>1. CASE f.cf = 0
      BY <1>1, <2>1, <3>1
    <3>2. CASE f.cf = 1
      BY <1>1, <2>1, <3>2
    <3> QED BY <1>1, <3>1, <3>2
  <2>4. h * f.cf + a \in 0..(Pow2[n] - 1) /\ b \in 0..(Pow2[1] - 1)
    BY <1>2, <2>1, <2>3
  <2>5. RotatedLeft(Pow2[(n + 1) - n] * (h * f.cf + a) + b, n, n + 1) = Pow2[n] * b + (h * f.cf + a)
    BY <2>2, <2>4, Rotation
  <2>6. Pow2[n] * b = b * Size(v)
    BY <1>1, <1>2, <2>1
  <2>7. RotatedLeft(T, n, n + 1) = b * Size(v) + (h * f.cf + a)
    BY <1>2, <2>2, <2>3, <2>5, <2>6
  <2> QED BY <2>2, <2>7 DEF Turned, T, a, b
<1>7. r.fl.cf * Size(v) + r.ret = (s % 2) * Size(v) + (h * f.cf + (s \div 2))
  BY <1>4, <1>6 DEF Through
<1>8. r.ret = h * f.cf + (s \div 2) /\ r.fl.cf = s % 2
  <2> DEFINE a == s \div 2
             b == s % 2
             x == r.ret
             c == r.fl.cf
             z == Size(v)
             e == h * f.cf + a
  <2>1. a \in 0..(h - 1) /\ b \in {0, 1}
    BY <1>1
  <2>2. x \in 0..(z - 1) /\ c \in {0, 1}
    BY <1>1, <1>4, FlagTypes DEF Fits, Word
  <2>3. c * z + x = b * z + e
    BY <1>7
  <2>4. z \in Nat /\ z = 2 * h
    BY <1>1
  <2> HIDE DEF a, b, x, c, z
  <2>5. e \in 0..(z - 1)
    <3>1. CASE f.cf = 0
      BY <1>1, <2>1, <2>4, <3>1
    <3>2. CASE f.cf = 1
      BY <1>1, <2>1, <2>4, <3>2
    <3> QED BY <1>1, <3>1, <3>2
  <2> HIDE DEF e
  <2>6. x = e /\ c = b
    <3>1. CASE c = 0 /\ b = 0
      BY <2>2, <2>3, <2>4, <2>5, <3>1
    <3>2. CASE c = 0 /\ b = 1
      BY <2>2, <2>3, <2>4, <2>5, <3>2
    <3>3. CASE c = 1 /\ b = 0
      BY <2>2, <2>3, <2>4, <2>5, <3>3
    <3>4. CASE c = 1 /\ b = 1
      BY <2>2, <2>3, <2>4, <2>5, <3>4
    <3> QED BY <2>1, <2>2, <3>1, <3>2, <3>3, <3>4
  <2> QED BY <2>6 DEF x, e, c, b, a
<1>9. l.fl.cf * Size(v) + l.ret = 2 * s + f.cf
  BY <1>4, <1>5 DEF Through
<1> QED BY <1>8, <1>9 DEF l, r, h

-----------------------------------------------------------------------------
(***************************************************************************)
(* Programs, stage by stage: what is left to execute, and what registers   *)
(* and flags hold by then.                                                 *)
(***************************************************************************)
\* CMP leaves the borrow in CF and OF, and whether the operands are equal in ZF.
AtCmp ==
    run.prog.name = "cmp" =>
        /\ trap = "none"
        /\ \/ code = Listing("cmp") /\ Fresh
           \/ code = << >> /\ Holds(R.hi, R.lo, R.xhi, R.xlo) /\ fl.cf = Borrow(R.lo, R.xlo) /\ fl.of = Borrow(R.lo, R.xlo) /\ fl.zf = (IF R.lo = R.xlo THEN 1 ELSE 0) /\ fl.sf = Msb(w, Minus(w, R.lo, R.xlo))

\* Every step of the program takes it to its next stage.
LEMMA CmpStep ==
    ASSUME Typed, Next, AtCmp
    PROVE  AtCmp'
<1> DEFINE S0 == code = Listing("cmp") /\ Fresh
           S1 == code = << >> /\ Holds(R.hi, R.lo, R.xhi, R.xlo) /\ fl.cf = Borrow(R.lo, R.xlo) /\ fl.of = Borrow(R.lo, R.xlo) /\ fl.zf = (IF R.lo = R.xlo THEN 1 ELSE 0) /\ fl.sf = Msb(w, Minus(w, R.lo, R.xlo))
<1>1. run' = run /\ R' = R /\ w' = w /\ code # << >>
  BY Dispatch DEF R, w
<1>2. AtCmp <=> (run.prog.name = "cmp" => trap = "none" /\ (S0 \/ S1))
  BY Zenon DEF AtCmp
<1>3. AtCmp' <=> (run'.prog.name = "cmp" => trap' = "none" /\ (S0' \/ S1'))
  BY Zenon DEF AtCmp
<1>4. Line1(Listing("cmp"), I("cmp", "lo", "xlo"))
  BY DEF Listing, Line1
<1>5. ASSUME S0, run.prog.name = "cmp" PROVE trap' = trap /\ S1'
  <2>1. Head(code) = I("cmp", "lo", "xlo") /\ Tail(code) = << >>
    BY <1>4, <1>5, Ahead1
  <2>2. reg["hi"] = R.hi /\ reg["lo"] = R.lo /\ reg["xhi"] = R.xhi /\ reg["xlo"] = R.xlo
    BY <1>5 DEF Holds, Fresh
  <2>3. fl = run.fl /\ Val("xlo") = R.xlo
    BY <1>5, <2>2, Values DEF Fresh
  <2> DEFINE o == op_sub(w, run.fl, R.lo, R.xlo)
  <2>4. LeavesFlags(op_sub(w, fl, reg["lo"], Val("xlo")).fl)
    BY <2>1, Executes
  <2>5. fl' = o.fl /\ code' = Tail(code) /\ trap' = trap /\ reg' = reg
    BY <2>2, <2>3, <2>4 DEF LeavesFlags, Onward
  <2>6. reg'["hi"] = R.hi /\ reg'["lo"] = R.lo /\ reg'["xhi"] = R.xhi /\ reg'["xlo"] = R.xlo
    BY <2>2, <2>5
  <2> HIDE DEF o
  <2>7. /\ o.fl.cf = Borrow(R.lo, R.xlo) /\ o.fl.of = Borrow(R.lo, R.xlo)
        /\ o.fl.zf = (IF R.lo = R.xlo THEN 1 ELSE 0) /\ o.fl.sf = Msb(w, Minus(w, R.lo, R.xlo))
    BY TypedFacts, Differences DEF o
  <2> QED BY <1>1, <2>1, <2>5, <2>6, <2>7 DEF Holds
<1> HIDE DEF S0, S1
<1>6. ~S1
  BY <1>1 DEF S1
<1> QED BY <1>1, <1>2, <1>3, <1>5, <1>6, Zenon

\* CMP at the start of a program.
LEMMA Compared ==
    ASSUME Typed
    PROVE  op_sub(w, run.fl, R.lo, R.xlo).fl.cf = Borrow(R.lo, R.xlo)
<1>1. w \in Widths /\ run.fl \in FlagSet /\ R.lo \in Word(w) /\ R.xlo \in Word(w)
  BY TypedFacts
<1> QED BY <1>1, Differences

\* CMP of the lower words and SBB of the higher ones leave the borrow of both in CF.
AtWideCmp ==
    run.prog.name = "wide cmp" =>
        /\ trap = "none"
        /\ \/ code = Listing("wide cmp") /\ Fresh
           \/ Line1(code, I("sbb", "hi", "xhi")) /\ Holds(R.hi, R.lo, R.xhi, R.xlo) /\ fl.cf = Borrow(R.lo, R.xlo)
           \/ code = << >> /\ Holds(reg["hi"], R.lo, R.xhi, R.xlo) /\ fl.cf = Borrow(R.hi, R.xhi + Borrow(R.lo, R.xlo))

\* Every step of the program takes it to its next stage.
LEMMA WideCmpStep ==
    ASSUME Typed, Next, AtWideCmp
    PROVE  AtWideCmp'
<1> DEFINE S0 == code = Listing("wide cmp") /\ Fresh
           S1 == Line1(code, I("sbb", "hi", "xhi")) /\ Holds(R.hi, R.lo, R.xhi, R.xlo) /\ fl.cf = Borrow(R.lo, R.xlo)
           S2 == code = << >> /\ Holds(reg["hi"], R.lo, R.xhi, R.xlo) /\ fl.cf = Borrow(R.hi, R.xhi + Borrow(R.lo, R.xlo))
<1>1. run' = run /\ R' = R /\ w' = w /\ code # << >>
  BY Dispatch DEF R, w
<1>2. AtWideCmp <=> (run.prog.name = "wide cmp" => trap = "none" /\ (S0 \/ S1 \/ S2))
  BY Zenon DEF AtWideCmp
<1>3. AtWideCmp' <=> (run'.prog.name = "wide cmp" => trap' = "none" /\ (S0' \/ S1' \/ S2'))
  BY Zenon DEF AtWideCmp
<1>4. Line2(Listing("wide cmp"), I("cmp", "lo", "xlo"), I("sbb", "hi", "xhi"))
  BY DEF Listing, Line2
<1>5. ASSUME S0, run.prog.name = "wide cmp" PROVE trap' = trap /\ S1'
  <2>1. Head(code) = I("cmp", "lo", "xlo") /\ Line1(Tail(code), I("sbb", "hi", "xhi"))
    BY <1>4, <1>5, Ahead2
  <2>2. reg["hi"] = R.hi /\ reg["lo"] = R.lo /\ reg["xhi"] = R.xhi /\ reg["xlo"] = R.xlo
    BY <1>5 DEF Holds, Fresh
  <2>3. fl = run.fl /\ Val("xlo") = R.xlo
    BY <1>5, <2>2, Values DEF Fresh
  <2> DEFINE o == op_sub(w, run.fl, R.lo, R.xlo)
  <2>4. LeavesFlags(op_sub(w, fl, reg["lo"], Val("xlo")).fl)
    BY <2>1, Executes
  <2>5. fl' = o.fl /\ code' = Tail(code) /\ trap' = trap /\ reg' = reg
    BY <2>2, <2>3, <2>4 DEF LeavesFlags, Onward
  <2>6. reg'["hi"] = R.hi /\ reg'["lo"] = R.lo /\ reg'["xhi"] = R.xhi /\ reg'["xlo"] = R.xlo
    BY <2>2, <2>5
  <2> HIDE DEF o
  <2>7. o.fl.cf = Borrow(R.lo, R.xlo)
    BY Compared DEF o
  <2> QED BY <1>1, <2>1, <2>5, <2>6, <2>7 DEF Holds
<1>6. ASSUME S1, run.prog.name = "wide cmp" PROVE trap' = trap /\ S2'
  <2>1. Head(code) = I("sbb", "hi", "xhi") /\ Tail(code) = << >>
    BY <1>6, Ahead1
  <2>2. reg["hi"] = R.hi /\ reg["lo"] = R.lo /\ reg["xhi"] = R.xhi /\ reg["xlo"] = R.xlo
    BY <1>6 DEF Holds
  <2>3. Val("xhi") = R.xhi
    BY <2>2, Values
  <2> DEFINE o == op_sbb(w, fl, R.hi, R.xhi)
  <2>4. Leaves("hi", op_sbb(w, fl, reg["hi"], Val("xhi")))
    BY <2>1, Executes
  <2>5. Leaves("hi", o)
    BY <2>2, <2>3, <2>4
  <2> HIDE DEF o
  <2>6. /\ fl' = o.fl /\ code' = Tail(code) /\ trap' = trap
        /\ reg'["hi"] = o.ret /\ reg'["lo"] = R.lo /\ reg'["xhi"] = R.xhi /\ reg'["xlo"] = R.xlo
    BY <2>2, <2>5, Left DEF Regs
  <2>7. o.fl.cf = Borrow(R.hi, R.xhi + Borrow(R.lo, R.xlo))
    <3>1. fl.cf = Borrow(R.lo, R.xlo)
      BY <1>6
    <3>2. o.fl.cf = Borrow(R.hi, R.xhi + fl.cf)
      BY TypedFacts, Differences DEF o
    <3> QED BY <3>1, <3>2
  <2> QED BY <1>1, <2>1, <2>5, <2>6, <2>7 DEF Holds
<1> HIDE DEF S0, S1, S2
<1>7. ~S2
  BY <1>1 DEF S2
<1> QED BY <1>1, <1>2, <1>3, <1>5, <1>6, <1>7, Zenon

\* TEST of a number with itself leaves its sign, and whether it is zero.
AtTest ==
    run.prog.name = "test" =>
        /\ trap = "none"
        /\ \/ code = Listing("test") /\ Fresh
           \/ code = << >> /\ Holds(R.hi, R.lo, R.xhi, R.xlo) /\ fl.cf = 0 /\ fl.of = 0 /\ fl.sf = Msb(w, R.lo) /\ fl.zf = (IF R.lo = 0 THEN 1 ELSE 0)

\* Every step of the program takes it to its next stage.
LEMMA TestStep ==
    ASSUME Typed, Next, AtTest
    PROVE  AtTest'
<1> DEFINE S0 == code = Listing("test") /\ Fresh
           S1 == code = << >> /\ Holds(R.hi, R.lo, R.xhi, R.xlo) /\ fl.cf = 0 /\ fl.of = 0 /\ fl.sf = Msb(w, R.lo) /\ fl.zf = (IF R.lo = 0 THEN 1 ELSE 0)
<1>1. run' = run /\ R' = R /\ w' = w /\ code # << >>
  BY Dispatch DEF R, w
<1>2. AtTest <=> (run.prog.name = "test" => trap = "none" /\ (S0 \/ S1))
  BY Zenon DEF AtTest
<1>3. AtTest' <=> (run'.prog.name = "test" => trap' = "none" /\ (S0' \/ S1'))
  BY Zenon DEF AtTest
<1>4. Line1(Listing("test"), I("test", "lo", "lo"))
  BY DEF Listing, Line1
<1>5. ASSUME S0, run.prog.name = "test" PROVE trap' = trap /\ S1'
  <2>1. Head(code) = I("test", "lo", "lo") /\ Tail(code) = << >>
    BY <1>4, <1>5, Ahead1
  <2>2. reg["hi"] = R.hi /\ reg["lo"] = R.lo /\ reg["xhi"] = R.xhi /\ reg["xlo"] = R.xlo
    BY <1>5 DEF Holds, Fresh
  <2>3. fl = run.fl /\ Val("lo") = R.lo
    BY <1>5, <2>2, Values DEF Fresh
  <2> DEFINE o == op_test(w, run.fl, R.lo, R.lo)
  <2>4. LeavesFlags(op_test(w, fl, reg["lo"], Val("lo")).fl)
    BY <2>1, Executes
  <2>5. fl' = o.fl /\ code' = Tail(code) /\ trap' = trap /\ reg' = reg
    BY <2>2, <2>3, <2>4 DEF LeavesFlags, Onward
  <2>6. reg'["hi"] = R.hi /\ reg'["lo"] = R.lo /\ reg'["xhi"] = R.xhi /\ reg'["xlo"] = R.xlo
    BY <2>2, <2>5
  <2> HIDE DEF o
  <2>7. o.fl.cf = 0 /\ o.fl.of = 0 /\ o.fl.sf = Msb(w, R.lo) /\ o.fl.zf = (IF R.lo = 0 THEN 1 ELSE 0)
    BY TypedFacts, WithItself DEF o
  <2> QED BY <1>1, <2>1, <2>5, <2>6, <2>7 DEF Holds
<1> HIDE DEF S0, S1
<1>6. ~S1
  BY <1>1 DEF S1
<1> QED BY <1>1, <1>2, <1>3, <1>5, <1>6, Zenon

\* OR of a number with itself leaves the number, its sign, and whether it is zero; so does AND.
AtOr ==
    run.prog.name = "or" =>
        /\ trap = "none"
        /\ \/ code = Listing("or") /\ Fresh
           \/ Line1(code, I("and", "lo", "lo")) /\ Holds(R.hi, R.lo, R.xhi, R.xlo) /\ fl.cf = 0 /\ fl.of = 0 /\ fl.sf = Msb(w, R.lo) /\ fl.zf = (IF R.lo = 0 THEN 1 ELSE 0)
           \/ code = << >> /\ Holds(R.hi, R.lo, R.xhi, R.xlo) /\ fl.cf = 0 /\ fl.of = 0 /\ fl.sf = Msb(w, R.lo) /\ fl.zf = (IF R.lo = 0 THEN 1 ELSE 0)

\* Every step of the program takes it to its next stage.
LEMMA OrStep ==
    ASSUME Typed, Next, AtOr
    PROVE  AtOr'
<1> DEFINE S0 == code = Listing("or") /\ Fresh
           S1 == Line1(code, I("and", "lo", "lo")) /\ Holds(R.hi, R.lo, R.xhi, R.xlo) /\ fl.cf = 0 /\ fl.of = 0 /\ fl.sf = Msb(w, R.lo) /\ fl.zf = (IF R.lo = 0 THEN 1 ELSE 0)
           S2 == code = << >> /\ Holds(R.hi, R.lo, R.xhi, R.xlo) /\ fl.cf = 0 /\ fl.of = 0 /\ fl.sf = Msb(w, R.lo) /\ fl.zf = (IF R.lo = 0 THEN 1 ELSE 0)
<1>1. run' = run /\ R' = R /\ w' = w /\ code # << >>
  BY Dispatch DEF R, w
<1>2. AtOr <=> (run.prog.name = "or" => trap = "none" /\ (S0 \/ S1 \/ S2))
  BY Zenon DEF AtOr
<1>3. AtOr' <=> (run'.prog.name = "or" => trap' = "none" /\ (S0' \/ S1' \/ S2'))
  BY Zenon DEF AtOr
<1>4. Line2(Listing("or"), I("or", "lo", "lo"), I("and", "lo", "lo"))
  BY DEF Listing, Line2
<1>5. ASSUME S0, run.prog.name = "or" PROVE trap' = trap /\ S1'
  <2>1. Head(code) = I("or", "lo", "lo") /\ Line1(Tail(code), I("and", "lo", "lo"))
    BY <1>4, <1>5, Ahead2
  <2>2. reg["hi"] = R.hi /\ reg["lo"] = R.lo /\ reg["xhi"] = R.xhi /\ reg["xlo"] = R.xlo
    BY <1>5 DEF Holds, Fresh
  <2>3. fl = run.fl /\ Val("lo") = R.lo
    BY <1>5, <2>2, Values DEF Fresh
  <2> DEFINE o == op_or(w, run.fl, R.lo, R.lo)
  <2>4. Leaves("lo", op_or(w, fl, reg["lo"], Val("lo")))
    BY <2>1, Executes
  <2>5. Leaves("lo", o)
    BY <2>2, <2>3, <2>4
  <2> HIDE DEF o
  <2>6. /\ fl' = o.fl /\ code' = Tail(code) /\ trap' = trap
        /\ reg'["hi"] = R.hi /\ reg'["lo"] = o.ret /\ reg'["xhi"] = R.xhi /\ reg'["xlo"] = R.xlo
    BY <2>2, <2>5, Left DEF Regs
  <2>7. o.fl.cf = 0 /\ o.fl.of = 0 /\ o.fl.sf = Msb(w, R.lo) /\ o.fl.zf = (IF R.lo = 0 THEN 1 ELSE 0) /\ o.ret = R.lo
    BY TypedFacts, WithItself DEF o
  <2> QED BY <1>1, <2>1, <2>5, <2>6, <2>7 DEF Holds
<1>6. ASSUME S1, run.prog.name = "or" PROVE trap' = trap /\ S2'
  <2>1. Head(code) = I("and", "lo", "lo") /\ Tail(code) = << >>
    BY <1>6, Ahead1
  <2>2. reg["hi"] = R.hi /\ reg["lo"] = R.lo /\ reg["xhi"] = R.xhi /\ reg["xlo"] = R.xlo
    BY <1>6 DEF Holds
  <2>3. Val("lo") = R.lo
    BY <2>2, Values
  <2> DEFINE o == op_and(w, fl, R.lo, R.lo)
  <2>4. Leaves("lo", op_and(w, fl, reg["lo"], Val("lo")))
    BY <2>1, Executes
  <2>5. Leaves("lo", o)
    BY <2>2, <2>3, <2>4
  <2> HIDE DEF o
  <2>6. /\ fl' = o.fl /\ code' = Tail(code) /\ trap' = trap
        /\ reg'["hi"] = R.hi /\ reg'["lo"] = o.ret /\ reg'["xhi"] = R.xhi /\ reg'["xlo"] = R.xlo
    BY <2>2, <2>5, Left DEF Regs
  <2>7. o.fl.cf = 0 /\ o.fl.of = 0 /\ o.fl.sf = Msb(w, R.lo) /\ o.fl.zf = (IF R.lo = 0 THEN 1 ELSE 0) /\ o.ret = R.lo
    BY TypedFacts, WithItself DEF o
  <2> QED BY <1>1, <2>1, <2>5, <2>6, <2>7 DEF Holds
<1> HIDE DEF S0, S1, S2
<1>7. ~S2
  BY <1>1 DEF S2
<1> QED BY <1>1, <1>2, <1>3, <1>5, <1>6, <1>7, Zenon

\* The borrow of CMP, complemented, comes to be bit 2, with a 1 shifted in below.
AtCmpCmc ==
    run.prog.name = "cmp cmc" =>
        /\ trap = "none"
        /\ \/ code = Listing("cmp cmc") /\ Fresh
           \/ Line6(code, I("cmc", "lo", "lo"), I("adc", "hi", "zero"), I("clc", "lo", "lo"), I("rcl", "hi", "one"), I("stc", "lo", "lo"), I("rcl", "hi", "one")) /\ Holds(0, R.lo, R.xhi, R.xlo) /\ fl.cf = Borrow(R.lo, R.xlo)
           \/ Line5(code, I("adc", "hi", "zero"), I("clc", "lo", "lo"), I("rcl", "hi", "one"), I("stc", "lo", "lo"), I("rcl", "hi", "one")) /\ Holds(0, R.lo, R.xhi, R.xlo) /\ fl.cf = 1 - Borrow(R.lo, R.xlo)
           \/ Line4(code, I("clc", "lo", "lo"), I("rcl", "hi", "one"), I("stc", "lo", "lo"), I("rcl", "hi", "one")) /\ Holds(1 - Borrow(R.lo, R.xlo), R.lo, R.xhi, R.xlo) /\ fl.cf = 0
           \/ Line3(code, I("rcl", "hi", "one"), I("stc", "lo", "lo"), I("rcl", "hi", "one")) /\ Holds(1 - Borrow(R.lo, R.xlo), R.lo, R.xhi, R.xlo) /\ fl.cf = 0
           \/ Line2(code, I("stc", "lo", "lo"), I("rcl", "hi", "one")) /\ Holds(2 * (1 - Borrow(R.lo, R.xlo)), R.lo, R.xhi, R.xlo) /\ fl.cf = 0
           \/ Line1(code, I("rcl", "hi", "one")) /\ Holds(2 * (1 - Borrow(R.lo, R.xlo)), R.lo, R.xhi, R.xlo) /\ fl.cf = 1
           \/ code = << >> /\ Holds(4 * (1 - Borrow(R.lo, R.xlo)) + 1, R.lo, R.xhi, R.xlo)

\* Every step of the program takes it to its next stage.
LEMMA CmpCmcStep ==
    ASSUME Typed, Next, AtCmpCmc
    PROVE  AtCmpCmc'
<1> DEFINE S0 == code = Listing("cmp cmc") /\ Fresh
           S1 == Line6(code, I("cmc", "lo", "lo"), I("adc", "hi", "zero"), I("clc", "lo", "lo"), I("rcl", "hi", "one"), I("stc", "lo", "lo"), I("rcl", "hi", "one")) /\ Holds(0, R.lo, R.xhi, R.xlo) /\ fl.cf = Borrow(R.lo, R.xlo)
           S2 == Line5(code, I("adc", "hi", "zero"), I("clc", "lo", "lo"), I("rcl", "hi", "one"), I("stc", "lo", "lo"), I("rcl", "hi", "one")) /\ Holds(0, R.lo, R.xhi, R.xlo) /\ fl.cf = 1 - Borrow(R.lo, R.xlo)
           S3 == Line4(code, I("clc", "lo", "lo"), I("rcl", "hi", "one"), I("stc", "lo", "lo"), I("rcl", "hi", "one")) /\ Holds(1 - Borrow(R.lo, R.xlo), R.lo, R.xhi, R.xlo) /\ fl.cf = 0
           S4 == Line3(code, I("rcl", "hi", "one"), I("stc", "lo", "lo"), I("rcl", "hi", "one")) /\ Holds(1 - Borrow(R.lo, R.xlo), R.lo, R.xhi, R.xlo) /\ fl.cf = 0
           S5 == Line2(code, I("stc", "lo", "lo"), I("rcl", "hi", "one")) /\ Holds(2 * (1 - Borrow(R.lo, R.xlo)), R.lo, R.xhi, R.xlo) /\ fl.cf = 0
           S6 == Line1(code, I("rcl", "hi", "one")) /\ Holds(2 * (1 - Borrow(R.lo, R.xlo)), R.lo, R.xhi, R.xlo) /\ fl.cf = 1
           S7 == code = << >> /\ Holds(4 * (1 - Borrow(R.lo, R.xlo)) + 1, R.lo, R.xhi, R.xlo)
<1>1. run' = run /\ R' = R /\ w' = w /\ code # << >>
  BY Dispatch DEF R, w
<1>2. AtCmpCmc <=> (run.prog.name = "cmp cmc" => trap = "none" /\ (S0 \/ S1 \/ S2 \/ S3 \/ S4 \/ S5 \/ S6 \/ S7))
  BY Zenon DEF AtCmpCmc
<1>3. AtCmpCmc' <=> (run'.prog.name = "cmp cmc" => trap' = "none" /\ (S0' \/ S1' \/ S2' \/ S3' \/ S4' \/ S5' \/ S6' \/ S7'))
  BY Zenon DEF AtCmpCmc
<1>4. Line7(Listing("cmp cmc"), I("cmp", "lo", "xlo"), I("cmc", "lo", "lo"), I("adc", "hi", "zero"), I("clc", "lo", "lo"), I("rcl", "hi", "one"), I("stc", "lo", "lo"), I("rcl", "hi", "one"))
  BY DEF Listing, Line7
<1>5. R.hi = 0 \/ run.prog.name # "cmp cmc"
  BY ProgramsAssumption DEF Typed, Started, Regs, R
<1>6. Borrow(R.lo, R.xlo) \in {0, 1} /\ 0 \in Word(w) /\ 1 \in Word(w)
  BY TypedFacts, PlusMinus
<1>7. ASSUME S0, run.prog.name = "cmp cmc" PROVE trap' = trap /\ S1'
  <2>1. Head(code) = I("cmp", "lo", "xlo") /\ Line6(Tail(code), I("cmc", "lo", "lo"), I("adc", "hi", "zero"), I("clc", "lo", "lo"), I("rcl", "hi", "one"), I("stc", "lo", "lo"), I("rcl", "hi", "one"))
    BY <1>4, <1>7, Ahead7
  <2>2. reg["hi"] = R.hi /\ reg["lo"] = R.lo /\ reg["xhi"] = R.xhi /\ reg["xlo"] = R.xlo
    BY <1>7 DEF Holds, Fresh
  <2>3. fl = run.fl /\ Val("xlo") = R.xlo
    BY <1>7, <2>2, Values DEF Fresh
  <2> DEFINE o == op_sub(w, run.fl, R.lo, R.xlo)
  <2>4. LeavesFlags(op_sub(w, fl, reg["lo"], Val("xlo")).fl)
    BY <2>1, Executes
  <2>5. fl' = o.fl /\ code' = Tail(code) /\ trap' = trap /\ reg' = reg
    BY <2>2, <2>3, <2>4 DEF LeavesFlags, Onward
  <2>6. reg'["hi"] = R.hi /\ reg'["lo"] = R.lo /\ reg'["xhi"] = R.xhi /\ reg'["xlo"] = R.xlo
    BY <2>2, <2>5
  <2> HIDE DEF o
  <2>7. o.fl.cf = Borrow(R.lo, R.xlo)
    BY Compared DEF o
  <2> QED BY <1>1, <2>1, <2>5, <2>6, <1>5, <1>7, <2>7 DEF Holds
<1>8. ASSUME S1, run.prog.name = "cmp cmc" PROVE trap' = trap /\ S2'
  <2>1. Head(code) = I("cmc", "lo", "lo") /\ Line5(Tail(code), I("adc", "hi", "zero"), I("clc", "lo", "lo"), I("rcl", "hi", "one"), I("stc", "lo", "lo"), I("rcl", "hi", "one"))
    BY <1>8, Ahead6
  <2>2. reg["hi"] = 0 /\ reg["lo"] = R.lo /\ reg["xhi"] = R.xhi /\ reg["xlo"] = R.xlo
    BY <1>8 DEF Holds
  <2>3. Val("lo") = R.lo
    BY <2>2, Values
  <2> DEFINE o == [fl EXCEPT !.cf = 1 - @]
  <2>4. LeavesFlags([fl EXCEPT !.cf = 1 - @])
    BY <2>1, Executes
  <2>5. fl' = o /\ code' = Tail(code) /\ trap' = trap /\ reg' = reg
    BY <2>2, <2>3, <2>4 DEF LeavesFlags, Onward
  <2>6. reg'["hi"] = 0 /\ reg'["lo"] = R.lo /\ reg'["xhi"] = R.xhi /\ reg'["xlo"] = R.xlo
    BY <2>2, <2>5
  <2> HIDE DEF o
  <2>7. o.cf = 1 - Borrow(R.lo, R.xlo)
    BY TypedFacts, <1>8 DEF o, FlagSet, FlagNames
  <2> QED BY <1>1, <2>1, <2>5, <2>6, <2>7 DEF Holds
<1>9. ASSUME S2, run.prog.name = "cmp cmc" PROVE trap' = trap /\ S3'
  <2>1. Head(code) = I("adc", "hi", "zero") /\ Line4(Tail(code), I("clc", "lo", "lo"), I("rcl", "hi", "one"), I("stc", "lo", "lo"), I("rcl", "hi", "one"))
    BY <1>9, Ahead5
  <2>2. reg["hi"] = 0 /\ reg["lo"] = R.lo /\ reg["xhi"] = R.xhi /\ reg["xlo"] = R.xlo
    BY <1>9 DEF Holds
  <2>3. Val("zero") = 0
    BY <2>2, Values
  <2> DEFINE o == op_adc(w, fl, 0, 0)
  <2>4. Leaves("hi", op_adc(w, fl, reg["hi"], Val("zero")))
    BY <2>1, Executes
  <2>5. Leaves("hi", o)
    BY <2>2, <2>3, <2>4
  <2> HIDE DEF o
  <2>6. /\ fl' = o.fl /\ code' = Tail(code) /\ trap' = trap
        /\ reg'["hi"] = o.ret /\ reg'["lo"] = R.lo /\ reg'["xhi"] = R.xhi /\ reg'["xlo"] = R.xlo
    BY <2>2, <2>5, Left DEF Regs
  <2> DEFINE c == fl.cf
             z == Size(w)
  <2>7. c = 1 - Borrow(R.lo, R.xlo) /\ z \in Nat /\ z >= 256
    <3>1. fl.cf = 1 - Borrow(R.lo, R.xlo)
      BY <1>9
    <3>2. z \in Nat /\ z >= 256
      BY TypedFacts, Sizes
    <3> QED BY <3>1, <3>2
  <2>8. ~(fl.cf = 1 /\ 0 = Ones(w) /\ 0 # Ones(w))
    OBVIOUS
  <2>9. o.ret = Plus(w, 0, 0 + c) /\ o.fl.cf = Carry(w, 0, 0 + c)
    BY <1>6, <2>8, TypedFacts, Sums DEF o
  <2>10. Plus(w, 0, 0 + c) = (IF 0 + (0 + c) < z THEN 0 + (0 + c) ELSE (0 + (0 + c)) - z)
         /\ Carry(w, 0, 0 + c) = (IF 0 + (0 + c) < z THEN 0 ELSE 1)
    BY DEF Plus, Carry
  <2> HIDE DEF c, z
  <2>11. o.ret = 1 - Borrow(R.lo, R.xlo) /\ o.fl.cf = 0
    BY <1>6, <2>7, <2>9, <2>10
  <2> QED BY <1>1, <2>1, <2>5, <2>6, <2>11 DEF Holds
<1>10. ASSUME S3, run.prog.name = "cmp cmc" PROVE trap' = trap /\ S4'
  <2>1. Head(code) = I("clc", "lo", "lo") /\ Line3(Tail(code), I("rcl", "hi", "one"), I("stc", "lo", "lo"), I("rcl", "hi", "one"))
    BY <1>10, Ahead4
  <2>2. reg["hi"] = 1 - Borrow(R.lo, R.xlo) /\ reg["lo"] = R.lo /\ reg["xhi"] = R.xhi /\ reg["xlo"] = R.xlo
    BY <1>10 DEF Holds
  <2>3. Val("lo") = R.lo
    BY <2>2, Values
  <2> DEFINE o == [fl EXCEPT !.cf = 0]
  <2>4. LeavesFlags([fl EXCEPT !.cf = 0])
    BY <2>1, Executes
  <2>5. fl' = o /\ code' = Tail(code) /\ trap' = trap /\ reg' = reg
    BY <2>2, <2>3, <2>4 DEF LeavesFlags, Onward
  <2>6. reg'["hi"] = 1 - Borrow(R.lo, R.xlo) /\ reg'["lo"] = R.lo /\ reg'["xhi"] = R.xhi /\ reg'["xlo"] = R.xlo
    BY <2>2, <2>5
  <2> HIDE DEF o
  <2>7. o.cf = 0
    BY TypedFacts DEF o, FlagSet, FlagNames
  <2> QED BY <1>1, <2>1, <2>5, <2>6, <2>7 DEF Holds
<1>11. ASSUME S4, run.prog.name = "cmp cmc" PROVE trap' = trap /\ S5'
  <2>1. Head(code) = I("rcl", "hi", "one") /\ Line2(Tail(code), I("stc", "lo", "lo"), I("rcl", "hi", "one"))
    BY <1>11, Ahead3
  <2>2. reg["hi"] = 1 - Borrow(R.lo, R.xlo) /\ reg["lo"] = R.lo /\ reg["xhi"] = R.xhi /\ reg["xlo"] = R.xlo
    BY <1>11 DEF Holds
  <2>3. Val("one") = 1
    BY <2>2, Values
  <2> DEFINE o == op_rcl(w, fl, 1 - Borrow(R.lo, R.xlo), 1)
  <2>4. Leaves("hi", op_rcl(w, fl, reg["hi"], Val("one")))
    BY <2>1, Executes
  <2>5. Leaves("hi", o)
    BY <2>2, <2>3, <2>4
  <2> HIDE DEF o
  <2>6. /\ fl' = o.fl /\ code' = Tail(code) /\ trap' = trap
        /\ reg'["hi"] = o.ret /\ reg'["lo"] = R.lo /\ reg'["xhi"] = R.xhi /\ reg'["xlo"] = R.xlo
    BY <2>2, <2>5, Left DEF Regs
  <2> DEFINE z == Size(w)
             s == 1 - Borrow(R.lo, R.xlo)
             x == o.ret
             c == o.fl.cf
  <2>7. s \in {0, 1} /\ z \in Nat /\ z >= 256 /\ s \in Word(w) /\ fl.cf = 0
    <3>1. fl.cf = 0
      BY <1>11
    <3>2. z \in Nat /\ z >= 256
      BY TypedFacts, Sizes
    <3>3. s \in {0, 1}
      BY <1>6
    <3> QED BY <1>6, <3>1, <3>2, <3>3
  <2>8. c * z + x = 2 * s + fl.cf
    BY <2>7, TypedFacts, RotatedByOne DEF o
  <2>9. c \in {0, 1} /\ x \in 0..(z - 1)
    BY <1>6, <2>7, TypedFacts, CarryRotationsFit, FlagTypes, Sizes DEF o, Fits, Word
  <2> HIDE DEF c, z, s, x
  <2>10. x = 2 * s /\ c = 0
    BY <2>7, <2>8, <2>9
  <2>11. o.ret = 2 * (1 - Borrow(R.lo, R.xlo)) /\ o.fl.cf = 0
    BY <2>10 DEF x, c, s
  <2> QED BY <1>1, <2>1, <2>5, <2>6, <2>11 DEF Holds
<1>12. ASSUME S5, run.prog.name = "cmp cmc" PROVE trap' = trap /\ S6'
  <2>1. Head(code) = I("stc", "lo", "lo") /\ Line1(Tail(code), I("rcl", "hi", "one"))
    BY <1>12, Ahead2
  <2>2. reg["hi"] = 2 * (1 - Borrow(R.lo, R.xlo)) /\ reg["lo"] = R.lo /\ reg["xhi"] = R.xhi /\ reg["xlo"] = R.xlo
    BY <1>12 DEF Holds
  <2>3. Val("lo") = R.lo
    BY <2>2, Values
  <2> DEFINE o == [fl EXCEPT !.cf = 1]
  <2>4. LeavesFlags([fl EXCEPT !.cf = 1])
    BY <2>1, Executes
  <2>5. fl' = o /\ code' = Tail(code) /\ trap' = trap /\ reg' = reg
    BY <2>2, <2>3, <2>4 DEF LeavesFlags, Onward
  <2>6. reg'["hi"] = 2 * (1 - Borrow(R.lo, R.xlo)) /\ reg'["lo"] = R.lo /\ reg'["xhi"] = R.xhi /\ reg'["xlo"] = R.xlo
    BY <2>2, <2>5
  <2> HIDE DEF o
  <2>7. o.cf = 1
    BY TypedFacts DEF o, FlagSet, FlagNames
  <2> QED BY <1>1, <2>1, <2>5, <2>6, <2>7 DEF Holds
<1>13. ASSUME S6, run.prog.name = "cmp cmc" PROVE trap' = trap /\ S7'
  <2>1. Head(code) = I("rcl", "hi", "one") /\ Tail(code) = << >>
    BY <1>13, Ahead1
  <2>2. reg["hi"] = 2 * (1 - Borrow(R.lo, R.xlo)) /\ reg["lo"] = R.lo /\ reg["xhi"] = R.xhi /\ reg["xlo"] = R.xlo
    BY <1>13 DEF Holds
  <2>3. Val("one") = 1
    BY <2>2, Values
  <2> DEFINE o == op_rcl(w, fl, 2 * (1 - Borrow(R.lo, R.xlo)), 1)
  <2>4. Leaves("hi", op_rcl(w, fl, reg["hi"], Val("one")))
    BY <2>1, Executes
  <2>5. Leaves("hi", o)
    BY <2>2, <2>3, <2>4
  <2> HIDE DEF o
  <2>6. /\ fl' = o.fl /\ code' = Tail(code) /\ trap' = trap
        /\ reg'["hi"] = o.ret /\ reg'["lo"] = R.lo /\ reg'["xhi"] = R.xhi /\ reg'["xlo"] = R.xlo
    BY <2>2, <2>5, Left DEF Regs
  <2> DEFINE z == Size(w)
             s == 2 * (1 - Borrow(R.lo, R.xlo))
             x == o.ret
             c == o.fl.cf
  <2>7. s \in {0, 2} /\ z \in Nat /\ z >= 256 /\ s \in Word(w) /\ fl.cf = 1
    <3>1. fl.cf = 1
      BY <1>13
    <3>2. z \in Nat /\ z >= 256 /\ Ones(w) = z - 1
      BY TypedFacts, Sizes
    <3>3. s \in {0, 2}
      BY <1>6
    <3> QED BY <3>1, <3>2, <3>3 DEF Word
  <2>8. c * z + x = 2 * s + fl.cf
    BY <2>7, TypedFacts, RotatedByOne DEF o
  <2>9. c \in {0, 1} /\ x \in 0..(z - 1)
    BY <1>6, <2>7, TypedFacts, CarryRotationsFit, FlagTypes, Sizes DEF o, Fits, Word
  <2> HIDE DEF c, z, s, x
  <2>10. x = 2 * s + 1
    BY <2>7, <2>8, <2>9
  <2>11. o.ret = 4 * (1 - Borrow(R.lo, R.xlo)) + 1
    BY <1>6, <2>10 DEF x, s
  <2> QED BY <1>1, <2>1, <2>5, <2>6, <2>11 DEF Holds
<1> HIDE DEF S0, S1, S2, S3, S4, S5, S6, S7
<1>14. ~S7
  BY <1>1 DEF S7
<1> QED BY <1>1, <1>2, <1>3, <1>7, <1>8, <1>9, <1>10, <1>11, <1>12, <1>13, <1>14, Zenon

-----------------------------------------------------------------------------
(***************************************************************************)
(* Comparisons order their operands.                                       *)
(***************************************************************************)
\* The programs that compare.
Comparing == Typed /\ AtCmp /\ AtWideCmp /\ AtCmpCmc /\ AtTest /\ AtOr

\* They are at their first stage at the start.
LEMMA ComparingInit == Init => Comparing
  BY TypedInit, FreshInit DEF Comparing, AtCmp, AtWideCmp, AtCmpCmc, AtTest, AtOr

\* And at one of their stages after every step.
LEMMA ComparingStep == Comparing /\ [Next]_vars => Comparing'
<1>1. ASSUME Comparing, UNCHANGED vars PROVE Comparing'
  <2>1. R' = R /\ w' = w /\ run' = run /\ code' = code /\ trap' = trap /\ reg' = reg /\ fl' = fl
        /\ mask_5bit_shiftcount' = mask_5bit_shiftcount
    BY <1>1 DEF vars, R, w
  <2>2. Typed'
    BY <1>1, <2>1 DEF Comparing, Typed, Started, Machine, Program, Registers
  <2>3. AtCmp' /\ AtWideCmp' /\ AtTest' /\ AtOr'
    BY <1>1, <2>1 DEF Comparing, AtCmp, AtWideCmp, AtTest, AtOr, Holds, Fresh
  <2>4. AtCmpCmc'
    BY <1>1, <2>1 DEF Comparing, AtCmpCmc, Holds, Fresh
  <2> QED BY <2>2, <2>3, <2>4 DEF Comparing
<1> QED BY <1>1, TypedStep, CmpStep, WideCmpStep, CmpCmcStep, TestStep, OrStep DEF Comparing

\* What the conditions of Jcc look at.
LEMMA Conditions ==
    ASSUME NEW f \in FlagSet
    PROVE  /\ (Taken("JC", f) <=> f.cf = 1) /\ (Taken("JNC", f) <=> f.cf = 0)
           /\ (Taken("JZ", f) <=> f.zf = 1) /\ (Taken("JS", f) <=> f.sf = 1)
           /\ (Taken("JBE", f) <=> f.zf = 1 \/ f.cf = 1)
           /\ (Taken("JA", f) <=> f.zf = 0 /\ f.cf = 0)
           /\ (Taken("JL", f) <=> SignDiffers(f)) /\ (Taken("JGE", f) <=> ~SignDiffers(f))
           /\ (Taken("JLE", f) <=> SignDiffers(f) \/ f.zf = 1)
           /\ (Taken("JG", f) <=> ~SignDiffers(f) /\ f.zf = 0)
           /\ (SignDiffers(f) <=> f.sf = 1 \/ f.of = 1)
<1>1. f.sf \in {0, 1} /\ f.of \in {0, 1}
  BY FlagTypes
<1>2. SignDiffers(f) <=> f.sf = 1 \/ f.of = 1
  BY <1>1 DEF SignDiffers
<1> HIDE DEF SignDiffers
<1> QED BY <1>2, Zenon DEF Taken

\* The borrow of both words together.
LEMMA WideBorrow ==
    ASSUME NEW v \in Widths, NEW a \in Word(v), NEW b \in Word(v), NEW c \in Word(v), NEW d \in Word(v)
    PROVE  Borrow(a, c + Borrow(b, d)) = 1 <=> Joined(v, a, b) < Joined(v, c, d)
<1> DEFINE n == Size(v)
           e == a - c
<1>1. n \in Nat /\ n > 0 /\ a \in 0..(n - 1) /\ b \in 0..(n - 1) /\ c \in 0..(n - 1) /\ d \in 0..(n - 1)
  BY Sizes DEF Word
<1>2. Joined(v, a, b) = a * n + b /\ Joined(v, c, d) = c * n + d
  BY DEF Joined
<1>3. Borrow(a, c + Borrow(b, d)) = 1 <=> a < c + (IF b >= d THEN 0 ELSE 1)
  <2>1. c + Borrow(b, d) = c + (IF b >= d THEN 0 ELSE 1)
    BY DEF Borrow
  <2>2. \A x \in Int : Borrow(a, x) = 1 <=> a < x
    BY <1>1 DEF Borrow
  <2>3. c + (IF b >= d THEN 0 ELSE 1) \in Int
    BY <1>1
  <2> QED BY <2>1, <2>2, <2>3
<1>4. a * n = c * n + e * n /\ e \in Int
  BY <1>1
<1> HIDE DEF n, e
<1>5. CASE e >= 1
  <2>1. e * n >= 1 * n
    BY <1>1, <1>4, <1>5
  <2>2. a > c
    BY <1>1, <1>5 DEF e
  <2> QED BY <1>1, <1>2, <1>3, <1>4, <2>1, <2>2
<1>6. CASE e = 0
  <2>1. e * n = 0 /\ a = c
    BY <1>1, <1>6 DEF e
  <2> QED BY <1>1, <1>2, <1>3, <1>4, <2>1
<1>7. CASE e <= -1
  <2>1. e * n <= (-1) * n
    BY <1>1, <1>4, <1>7
  <2>2. a < c
    BY <1>1, <1>7 DEF e
  <2> QED BY <1>1, <1>2, <1>3, <1>4, <2>1, <2>2
<1> QED BY <1>4, <1>5, <1>6, <1>7

\* At their ends the comparing programs have their flags right.
LEMMA ComparingOrders ==
    ASSUME Comparing
    PROVE  UnsignedOrder
<1>0. /\ w \in Widths /\ fl \in FlagSet /\ R.hi \in Word(w) /\ R.lo \in Word(w) /\ R.xhi \in Word(w) /\ R.xlo \in Word(w)
      /\ R.lo \in Int /\ R.xlo \in Int
  BY TypedFacts DEF Comparing, Word
<1>1. ASSUME Ended("cmp")
      PROVE  /\ Taken("JC", fl) <=> R.lo < R.xlo
             /\ Taken("JNC", fl) <=> R.lo >= R.xlo
             /\ Taken("JBE", fl) <=> R.lo <= R.xlo
             /\ Taken("JA", fl) <=> R.lo > R.xlo
             /\ Taken("JZ", fl) <=> R.lo = R.xlo
  <2>1. fl.cf = Borrow(R.lo, R.xlo) /\ fl.zf = IF R.lo = R.xlo THEN 1 ELSE 0
    BY <1>1, Listed DEF Comparing, AtCmp, Ended
  <2>2. Borrow(R.lo, R.xlo) = IF R.lo >= R.xlo THEN 0 ELSE 1
    BY DEF Borrow
  <2>3. /\ (fl.cf = 1 <=> R.lo < R.xlo) /\ (fl.cf = 0 <=> R.lo >= R.xlo)
        /\ (fl.zf = 1 \/ fl.cf = 1 <=> R.lo <= R.xlo) /\ (fl.zf = 0 /\ fl.cf = 0 <=> R.lo > R.xlo)
        /\ (fl.zf = 1 <=> R.lo = R.xlo)
    BY <1>0, <2>1, <2>2
  <2> QED BY <1>0, <2>3, Conditions, Zenon
<1>2. ASSUME Ended("wide cmp") PROVE Taken("JC", fl) <=> A < X
  <2>1. fl.cf = Borrow(R.hi, R.xhi + Borrow(R.lo, R.xlo))
    BY <1>2, Listed DEF Comparing, AtWideCmp, Ended
  <2>2. fl.cf = 1 <=> A < X
    BY <1>0, <2>1, WideBorrow DEF A, X
  <2> QED BY <1>0, <2>2, Conditions, Zenon
<1>3. ASSUME Ended("cmp cmc") PROVE reg["hi"] = (IF R.lo >= R.xlo THEN 4 ELSE 0) + 1
  <2>1. reg["hi"] = 4 * (1 - Borrow(R.lo, R.xlo)) + 1
    BY <1>3, Listed DEF Comparing, AtCmpCmc, Ended, Holds
  <2> QED BY <2>1 DEF Borrow
<1>4. ASSUME Ended("test") \/ Ended("or")
      PROVE  /\ Taken("JZ", fl) <=> R.lo = 0
             /\ Taken("JS", fl) <=> Signed(w, R.lo) < 0
             /\ Taken("JLE", fl) <=> Signed(w, R.lo) <= 0
             /\ Taken("JBE", fl) <=> R.lo = 0
  <2>1. fl.cf = 0 /\ fl.of = 0 /\ fl.sf = Msb(w, R.lo) /\ fl.zf = IF R.lo = 0 THEN 1 ELSE 0
    BY <1>4, Listed DEF Comparing, AtTest, AtOr, Ended
  <2>2. Msb(w, R.lo) = (IF R.lo >= Half(w) THEN 1 ELSE 0) /\ R.lo < Size(w)
    BY <1>0, SignBit
  <2>3. Signed(w, R.lo) = (IF R.lo >= Half(w) THEN R.lo - Size(w) ELSE R.lo)
    BY <1>0, SignedWord
  <2>4. Half(w) \in Nat /\ Half(w) > 0 /\ Size(w) \in Nat /\ R.lo \in Nat
    BY <1>0, Sizes, SignBit
  <2>5. /\ (fl.zf = 1 <=> R.lo = 0) /\ (fl.sf = 1 <=> Signed(w, R.lo) < 0) /\ fl.cf # 1 /\ fl.of # 1
        /\ (fl.sf = 1 \/ fl.zf = 1 <=> Signed(w, R.lo) <= 0)
    BY <2>1, <2>2, <2>3, <2>4
  <2> QED BY <1>0, <2>5, Conditions, Zenon
<1> QED BY <1>1, <1>2, <1>3, <1>4, Zenon DEF UnsignedOrder

\* And the signed conditions, where the signs are the same.
LEMMA ComparingSigned ==
    ASSUME Comparing
    PROVE  SignedOrder
<1>0. w \in Widths /\ fl \in FlagSet /\ R.lo \in Word(w) /\ R.xlo \in Word(w)
  BY TypedFacts DEF Comparing
<1>1. SUFFICES ASSUME Ended("cmp"), SameSign(R.lo, R.xlo)
               PROVE  /\ Taken("JL", fl) <=> Signed(w, R.lo) < Signed(w, R.xlo)
                      /\ Taken("JGE", fl) <=> Signed(w, R.lo) >= Signed(w, R.xlo)
                      /\ Taken("JLE", fl) <=> Signed(w, R.lo) <= Signed(w, R.xlo)
                      /\ Taken("JG", fl) <=> Signed(w, R.lo) > Signed(w, R.xlo)
  BY Zenon DEF SignedOrder
<1> DEFINE a == R.lo
           b == R.xlo
           h == Half(w)
           n == Size(w)
           m == Minus(w, R.lo, R.xlo)
           sa == Signed(w, R.lo)
           sb == Signed(w, R.xlo)
           sf == fl.sf
           of == fl.of
           zf == fl.zf
<1>2. of = Borrow(a, b) /\ zf = (IF a = b THEN 1 ELSE 0) /\ sf = Msb(w, m)
  BY <1>1, Listed DEF Comparing, AtCmp, Ended
<1>3. h \in Nat /\ h > 0 /\ n = 2 * h /\ a \in 0..(n - 1) /\ b \in 0..(n - 1)
  BY <1>0, Sizes DEF Word
<1>4. m \in Word(w) /\ m = (IF a >= b THEN a - b ELSE (a - b) + n) /\ Borrow(a, b) = (IF a >= b THEN 0 ELSE 1)
  BY <1>0, PlusMinus DEF Minus, Borrow
<1>5. Msb(w, m) = (IF m >= h THEN 1 ELSE 0)
  BY <1>0, <1>4, SignBit
<1>6. a >= h <=> b >= h
  <2>1. Msb(w, a) = (IF a >= h THEN 1 ELSE 0) /\ Msb(w, b) = (IF b >= h THEN 1 ELSE 0)
    BY <1>0, SignBit
  <2>2. Msb(w, a) = Msb(w, b)
    BY <1>1 DEF SameSign
  <2> HIDE DEF a, b, h
  <2> QED BY <2>1, <2>2
<1>7. sa = (IF a >= h THEN a - n ELSE a) /\ sb = (IF b >= h THEN b - n ELSE b)
  BY <1>0, SignedWord
<1>8. (Taken("JL", fl) <=> sf = 1 \/ of = 1) /\ (Taken("JGE", fl) <=> ~(sf = 1 \/ of = 1))
      /\ (Taken("JLE", fl) <=> sf = 1 \/ of = 1 \/ zf = 1) /\ (Taken("JG", fl) <=> ~(sf = 1 \/ of = 1) /\ zf = 0)
  BY <1>0, Conditions, Zenon
<1> HIDE DEF a, b, h, n, m, sa, sb, sf, of, zf
<1>9. (sf = 1 \/ of = 1 <=> a < b) /\ (zf = 1 <=> a = b) /\ (zf = 0 <=> a # b)
  BY <1>2, <1>3, <1>4, <1>5, <1>6
<1>10. (sf = 1 \/ of = 1 <=> sa < sb) /\ (~(sf = 1 \/ of = 1) <=> sa >= sb)
       /\ (sf = 1 \/ of = 1 \/ zf = 1 <=> sa <= sb) /\ (~(sf = 1 \/ of = 1) /\ zf = 0 <=> sa > sb)
  BY <1>3, <1>6, <1>7, <1>9
<1> QED BY <1>8, <1>10, Zenon DEF sa, sb

\* After CMP, of one word or two, TEST or OR, the unsigned conditions order the
\* operands (the property UnsignedOrder), through every stage of the programs.
THEOREM Softx86AluUnsignedOrder == Spec => []UnsignedOrder
<1> QED BY ComparingInit, ComparingStep, ComparingOrders, PTL DEF Spec

\* After CMP of numbers of the same sign so do the signed ones (SignedOrder): the
\* two divergences, OF that is CF and conditions that take set flags for different,
\* make up for one another, for words of any width.
THEOREM Softx86AluSignedOrder == Spec => []SignedOrder
<1> QED BY ComparingInit, ComparingStep, ComparingSigned, PTL DEF Spec

-----------------------------------------------------------------------------
(***************************************************************************)
(* Numbers of two words.                                                   *)
(***************************************************************************)
\* Two words make a number below the square of the size.
LEMMA JoinedRange ==
    ASSUME NEW v \in Widths, NEW a \in Word(v), NEW b \in Word(v)
    PROVE  /\ Joined(v, a, b) = a * Size(v) + b
           /\ Joined(v, a, b) \in 0..(Size(v) * Size(v) - 1)
           /\ Size(v) * Size(v) \in Nat /\ Size(v) * Size(v) > 0
<1> DEFINE n == Size(v)
<1>1. n \in Nat /\ n > 0 /\ a \in 0..(n - 1) /\ b \in 0..(n - 1)
  BY Sizes DEF Word
<1> HIDE DEF n
<1>2. a * n <= (n - 1) * n /\ a * n >= 0 /\ a * n \in Int
  BY <1>1
<1>3. (n - 1) * n = n * n - n /\ n * n \in Nat
  BY <1>1
<1>4. n * n >= 1 * n
  BY <1>1
<1>5. a * n + b \in 0..(n * n - 1)
  <2> DEFINE p == a * n
             s == n * n
  <2>1. p <= s - n /\ p >= 0 /\ p \in Int /\ s \in Nat
    BY <1>2, <1>3
  <2> HIDE DEF p, s
  <2>2. p + b \in 0..(s - 1)
    BY <1>1, <2>1
  <2> QED BY <2>2 DEF p, s
<1> QED BY <1>1, <1>3, <1>4, <1>5 DEF n, Joined

\* What a sum or difference of words is, with what is carried out of it.
LEMMA Carries ==
    ASSUME NEW v \in Widths, NEW s \in Word(v), NEW u \in 0..Size(v)
    PROVE  /\ Plus(v, s, u) \in Word(v) /\ Minus(v, s, u) \in Word(v)
           /\ Carry(v, s, u) \in {0, 1} /\ Borrow(s, u) \in {0, 1}
           /\ s + u = Carry(v, s, u) * Size(v) + Plus(v, s, u)
           /\ s - u = Minus(v, s, u) - Borrow(s, u) * Size(v)
<1> DEFINE n == Size(v)
           p == Plus(v, s, u)
           m == Minus(v, s, u)
           c == Carry(v, s, u)
           b == Borrow(s, u)
<1>1. n \in Nat /\ n > 1 /\ Ones(v) = n - 1 /\ s \in 0..(n - 1) /\ u \in 0..n
  BY Sizes DEF Word
<1>2. p = (IF s + u < n THEN s + u ELSE (s + u) - n) /\ c = (IF s + u < n THEN 0 ELSE 1)
  BY DEF Plus, Carry
<1>3. m = (IF s >= u THEN s - u ELSE (s - u) + n) /\ b = (IF s >= u THEN 0 ELSE 1)
  BY DEF Minus, Borrow
<1> HIDE DEF n, p, m, c, b
<1>4. p \in 0..(n - 1) /\ c \in {0, 1} /\ s + u = c * n + p
  <2>1. CASE s + u < n
    BY <1>1, <1>2, <2>1
  <2>2. CASE ~(s + u < n)
    BY <1>1, <1>2, <2>2
  <2> QED BY <2>1, <2>2
<1>5. m \in 0..(n - 1) /\ b \in {0, 1} /\ s - u = m - b * n
  <2>1. CASE s >= u
    BY <1>1, <1>3, <2>1
  <2>2. CASE ~(s >= u)
    BY <1>1, <1>3, <2>2
  <2> QED BY <2>1, <2>2
<1>6. Word(v) = 0..(n - 1)
  BY <1>1 DEF Word
<1> QED BY <1>4, <1>5, <1>6 DEF n, p, m, c, b

\* A number of two words, give or take the square of the size.
LEMMA WideCut ==
    ASSUME NEW v \in Widths, NEW a \in Word(v), NEW b \in Word(v), NEW k \in {-1, 0, 1}, NEW x \in Int,
           x = k * (Size(v) * Size(v)) + Joined(v, a, b)
    PROVE  /\ Joined(v, a, b) = x % (Size(v) * Size(v))
           /\ (k = 1 => x >= Size(v) * Size(v)) /\ (k = 0 => x >= 0 /\ x < Size(v) * Size(v)) /\ (k = -1 => x < 0)
<1> DEFINE s == Size(v) * Size(v)
           j == Joined(v, a, b)
<1>1. s \in Nat /\ s > 0 /\ j \in 0..(s - 1)
  BY JoinedRange
<1>2. x = s * k + j
  BY <1>1
<1> HIDE DEF s, j
<1>3. x % s = j
  BY <1>1, <1>2, DivModUnique
<1>4. (k = 1 => x >= s) /\ (k = 0 => x >= 0 /\ x < s) /\ (k = -1 => x < 0)
  <2>1. CASE k = 1
    BY <1>1, <1>2, <2>1
  <2>2. CASE k = 0
    BY <1>1, <1>2, <2>2
  <2>3. CASE k = -1
    BY <1>1, <1>2, <2>3
  <2> QED BY <2>1, <2>2, <2>3
<1> QED BY <1>3, <1>4 DEF s, j

\* Limb by limb: addition.
LEMMA WideSum ==
    ASSUME NEW v \in Widths, NEW a \in Word(v), NEW b \in Word(v), NEW c \in Word(v), NEW d \in Word(v)
    PROVE  LET k == Carry(v, b, d)
               x == Joined(v, a, b) + Joined(v, c, d)
           IN  /\ Joined(v, Plus(v, a, c + k), Plus(v, b, d)) = x % (Size(v) * Size(v))
               /\ Carry(v, a, c + k) = 1 <=> x >= Size(v) * Size(v)
<1> DEFINE n == Size(v)
           k == Carry(v, b, d)
           p == Plus(v, b, d)
           l == Carry(v, a, c + k)
           q == Plus(v, a, c + k)
           x == Joined(v, a, b) + Joined(v, c, d)
<1>1. n \in Nat /\ n > 1 /\ a \in 0..(n - 1) /\ b \in 0..(n - 1) /\ c \in 0..(n - 1) /\ d \in 0..(n - 1) /\ Ones(v) = n - 1
  BY Sizes DEF Word
<1>2. p \in Word(v) /\ k \in {0, 1} /\ b + d = k * n + p
  <2>1. d \in 0..n
    BY <1>1
  <2> QED BY <2>1, Carries
<1>3. q \in Word(v) /\ l \in {0, 1} /\ a + (c + k) = l * n + q
  <2>1. c + k \in 0..n
    BY <1>1, <1>2
  <2> HIDE DEF k
  <2> QED BY <2>1, Carries
<1>4. p \in 0..(n - 1) /\ q \in 0..(n - 1)
  BY <1>1, <1>2, <1>3 DEF Word
<1>5. x = l * (n * n) + Joined(v, q, p)
  <2>1. Joined(v, a, b) = a * n + b /\ Joined(v, c, d) = c * n + d /\ Joined(v, q, p) = q * n + p
    BY DEF Joined
  <2> HIDE DEF n, k, p, l, q
  <2>2. (a + (c + k)) * n = (l * n + q) * n
    BY <1>3
  <2>3. (a + (c + k)) * n = a * n + (c * n + k * n)
    BY <1>1, <1>2
  <2>4. (l * n + q) * n = l * (n * n) + q * n
    BY <1>1, <1>3, <1>4
  <2> DEFINE an == a * n
             cn == c * n
             kn == k * n
             qn == q * n
             sq == l * (n * n)
  <2>5. an \in Int /\ cn \in Int /\ kn \in Int /\ qn \in Int /\ sq \in Int
    BY <1>1, <1>2, <1>3, <1>4
  <2>6. an + (cn + kn) = sq + qn /\ b + d = kn + p
    BY <1>2, <2>2, <2>3, <2>4
  <2>7. x = (an + b) + (cn + d) /\ Joined(v, q, p) = qn + p
    BY <2>1
  <2> HIDE DEF an, cn, kn, qn, sq, x
  <2>8. x = sq + (qn + p)
    BY <1>1, <1>4, <2>5, <2>6, <2>7
  <2> QED BY <2>7, <2>8 DEF sq
<1>6. x \in Int
  BY JoinedRange
<1> HIDE DEF l, q, p, k, x, n
<1>7. Joined(v, q, p) = x % (n * n) /\ (l = 1 => x >= n * n) /\ (l = 0 => x >= 0 /\ x < n * n)
  <2>1. l \in {-1, 0, 1}
    BY <1>3
  <2> QED BY <1>2, <1>3, <1>5, <1>6, <2>1, WideCut DEF n
<1>8. n * n \in Int
  BY <1>1
<1>9. l = 1 <=> x >= n * n
  BY <1>3, <1>6, <1>7, <1>8
<1> QED BY <1>7, <1>9 DEF l, q, p, k, x, n

\* And subtraction.
LEMMA WideDifference ==
    ASSUME NEW v \in Widths, NEW a \in Word(v), NEW b \in Word(v), NEW c \in Word(v), NEW d \in Word(v)
    PROVE  LET k == Borrow(b, d)
               x == Joined(v, a, b) - Joined(v, c, d)
           IN  /\ Joined(v, Minus(v, a, c + k), Minus(v, b, d)) = x % (Size(v) * Size(v))
               /\ Borrow(a, c + k) = 1 <=> Joined(v, a, b) < Joined(v, c, d)
<1> DEFINE n == Size(v)
           k == Borrow(b, d)
           p == Minus(v, b, d)
           l == Borrow(a, c + k)
           q == Minus(v, a, c + k)
           x == Joined(v, a, b) - Joined(v, c, d)
<1>1. n \in Nat /\ n > 1 /\ a \in 0..(n - 1) /\ b \in 0..(n - 1) /\ c \in 0..(n - 1) /\ d \in 0..(n - 1) /\ Ones(v) = n - 1
  BY Sizes DEF Word
<1>2. p \in Word(v) /\ k \in {0, 1} /\ b - d = p - k * n
  <2>1. d \in 0..n
    BY <1>1
  <2> QED BY <2>1, Carries
<1>3. q \in Word(v) /\ l \in {0, 1} /\ a - (c + k) = q - l * n
  <2>1. c + k \in 0..n
    BY <1>1, <1>2
  <2> HIDE DEF k
  <2> QED BY <2>1, Carries
<1>4. p \in 0..(n - 1) /\ q \in 0..(n - 1)
  BY <1>1, <1>2, <1>3 DEF Word
<1>5. x = (0 - l) * (n * n) + Joined(v, q, p)
  <2>1. Joined(v, a, b) = a * n + b /\ Joined(v, c, d) = c * n + d /\ Joined(v, q, p) = q * n + p
    BY DEF Joined
  <2> HIDE DEF n, k, p, l, q
  <2>2. (a - (c + k)) * n = (q - l * n) * n
    BY <1>3
  <2>3. (a - (c + k)) * n = a * n - (c * n + k * n)
    BY <1>1, <1>2
  <2>4. (q - l * n) * n = q * n + (0 - l) * (n * n)
    BY <1>1, <1>3, <1>4
  <2> DEFINE an == a * n
             cn == c * n
             kn == k * n
             qn == q * n
             sq == (0 - l) * (n * n)
  <2>5. an \in Int /\ cn \in Int /\ kn \in Int /\ qn \in Int /\ sq \in Int
    BY <1>1, <1>2, <1>3, <1>4
  <2>6. an - (cn + kn) = qn + sq /\ b - d = p - kn
    BY <1>2, <2>2, <2>3, <2>4
  <2>7. x = (an + b) - (cn + d) /\ Joined(v, q, p) = qn + p
    BY <2>1
  <2> HIDE DEF an, cn, kn, qn, sq, x
  <2>8. x = sq + (qn + p)
    BY <1>1, <1>4, <2>5, <2>6, <2>7
  <2> QED BY <2>7, <2>8 DEF sq
<1>6. x \in Int /\ (x < 0 <=> Joined(v, a, b) < Joined(v, c, d))
  <2>1. Joined(v, a, b) \in Int /\ Joined(v, c, d) \in Int
    BY JoinedRange
  <2> QED BY <2>1
<1> HIDE DEF l, q, p, k, x, n
<1>7. Joined(v, q, p) = x % (n * n) /\ (0 - l = -1 => x < 0) /\ (0 - l = 0 => x >= 0 /\ x < n * n)
  <2>1. 0 - l \in {-1, 0, 1}
    BY <1>3
  <2> QED BY <1>2, <1>3, <1>5, <1>6, <2>1, WideCut DEF n
<1>8. l = 1 <=> x < 0
  BY <1>3, <1>6, <1>7
<1> QED BY <1>6, <1>7, <1>8 DEF l, q, p, k, x, n

\* NOT and NEG.
LEMMA Signs ==
    ASSUME NEW v \in Widths, NEW f \in FlagSet, NEW s \in Word(v)
    PROVE  /\ op_not(v, f, s).ret = Ones(v) - s /\ op_not(v, f, s).ret \in Word(v)
           /\ op_neg(v, f, s).ret = Minus(v, 0, s) /\ op_neg(v, f, s).ret \in Word(v)
           /\ 0 \in Word(v) /\ 1 \in Word(v)
<1> DEFINE n == Size(v)
<1>1. n \in Nat /\ n > 1 /\ Ones(v) = n - 1 /\ s \in 0..(n - 1)
  BY Sizes DEF Word
<1>2. op_neg(v, f, s).ret = (n - s) % n
  BY DEF op_neg, Outcome
<1>3. (n - s) % n = IF s = 0 THEN 0 ELSE n - s
  <2>1. n - s \in Int
    BY <1>1
  <2> QED BY <1>1, <2>1, Cut
<1>4. Minus(v, 0, s) = IF 0 >= s THEN 0 - s ELSE (0 - s) + n
  BY DEF Minus
<1> HIDE DEF n
<1>5. op_neg(v, f, s).ret = Minus(v, 0, s)
  BY <1>1, <1>2, <1>3, <1>4
<1>6. 0 \in Word(v) /\ 1 \in Word(v)
  BY <1>1 DEF Word
<1> QED BY <1>5, <1>6, SignsFit DEF op_not, Fits

\* The complement of both words, and one more.
LEMMA WideNegation ==
    ASSUME NEW v \in Widths, NEW a \in Word(v), NEW b \in Word(v)
    PROVE  Joined(v, Plus(v, Ones(v) - a, Borrow(Minus(v, 0, b), 1)), Minus(v, 0, b))
           = (0 - Joined(v, a, b)) % (Size(v) * Size(v))
<1> DEFINE n == Size(v)
           p == Minus(v, 0, b)
           k == Borrow(p, 1)
           q == Plus(v, Ones(v) - a, k)
           x == 0 - Joined(v, a, b)
           l == IF a = 0 /\ b = 0 THEN 0 ELSE -1
<1>1. n \in Nat /\ n > 1 /\ a \in 0..(n - 1) /\ b \in 0..(n - 1) /\ Ones(v) = n - 1
  BY Sizes DEF Word
<1>2. p = (IF b = 0 THEN 0 ELSE n - b) /\ p \in 0..(n - 1)
  <2>1. p = IF 0 >= b THEN 0 - b ELSE (0 - b) + n
    BY DEF Minus
  <2> HIDE DEF p, n
  <2> QED BY <1>1, <2>1
<1>3. k = (IF p >= 1 THEN 0 ELSE 1)
  BY DEF Borrow
<1>4. q = IF ((n - 1) - a) + k < n THEN ((n - 1) - a) + k ELSE (((n - 1) - a) + k) - n
  BY <1>1 DEF Plus
<1> HIDE DEF n, p, k, q, x, l
<1>5. q \in 0..(n - 1) /\ q = IF b # 0 THEN (n - 1) - a ELSE IF a = 0 THEN 0 ELSE n - a
  BY <1>1, <1>2, <1>3, <1>4
<1>6. p \in Word(v) /\ q \in Word(v)
  BY <1>1, <1>2, <1>5 DEF Word
<1>7. Joined(v, a, b) = a * n + b /\ Joined(v, q, p) = q * n + p /\ x = 0 - (a * n + b)
  BY DEF Joined, x, n
<1>8. x = l * (n * n) + (q * n + p)
  <2>1. CASE a = 0 /\ b = 0
    <3>1. l = 0 /\ q = 0 /\ p = 0 /\ a * n = 0 /\ q * n = 0 /\ l * (n * n) = 0
      BY <1>1, <1>2, <1>5, <2>1 DEF l
    <3> QED BY <1>7, <2>1, <3>1
  <2>2. CASE a # 0 /\ b = 0
    <3>1. l = -1 /\ q = n - a /\ p = 0
      BY <1>1, <1>2, <1>5, <2>2 DEF l
    <3>2. q * n = n * n - a * n /\ l * (n * n) = 0 - n * n
      BY <1>1, <3>1
    <3>3. a * n \in Int /\ n * n \in Int
      BY <1>1
    <3> QED BY <1>7, <2>2, <3>1, <3>2, <3>3
  <2>3. CASE b # 0
    <3>1. l = -1 /\ q = (n - 1) - a /\ p = n - b
      BY <1>1, <1>2, <1>5, <2>3 DEF l
    <3>2. q * n = (n * n - n) - a * n /\ l * (n * n) = 0 - n * n
      BY <1>1, <3>1
    <3>3. a * n \in Int /\ n * n \in Int
      BY <1>1
    <3> QED BY <1>1, <1>7, <3>1, <3>2, <3>3
  <2> QED BY <2>1, <2>2, <2>3
<1>9. x \in Int /\ l \in {-1, 0, 1}
  BY JoinedRange DEF x, l
<1>10. Joined(v, q, p) = x % (n * n)
  BY <1>6, <1>7, <1>8, <1>9, WideCut DEF n
<1> QED BY <1>10 DEF q, k, p, x, n

\* The carry survives LAHF and SAHF.
LEMMA SavedCarry ==
    ASSUME NEW f \in FlagSet, NEW g \in FlagSet
    PROVE  WithLowFlags(g, LowFlags(f)).cf = f.cf
<1> DEFINE x == LowFlags(f)
           y == ((64 * f.sf) + (32 * f.zf) + (8 * f.af) + (2 * f.pf)) + 1
<1>1. f.cf \in {0, 1} /\ f.sf \in {0, 1} /\ f.zf \in {0, 1} /\ f.af \in {0, 1} /\ f.pf \in {0, 1}
  BY FlagTypes
<1>2. x \in Nat /\ y \in Nat /\ x = 2 * y + f.cf
  BY <1>1 DEF LowFlags
<1>3. WithLowFlags(g, x).cf = BitAt(x, 0)
  BY DEF WithLowFlags, FlagSet, FlagNames
<1> HIDE DEF x, y
<1>4. x % 2 = f.cf
  BY <1>1, <1>2
<1>5. BitAt(x, 0) = x % 2
  BY <1>2, Powers DEF BitAt
<1> QED BY <1>3, <1>4, <1>5 DEF x

-----------------------------------------------------------------------------
(***************************************************************************)
(* The programs that add and subtract.                                     *)
(***************************************************************************)
\* Two limbs are added, and the counters counted up and down between them.
AtWideAdd ==
    run.prog.name = "wide add" =>
        /\ trap = "none"
        /\ \/ code = Listing("wide add") /\ Fresh
           \/ Line3(code, I("inc", "xlo", "one"), I("dec", "xlo", "one"), I("adc", "hi", "xhi")) /\ Holds(R.hi, Plus(w, R.lo, R.xlo), R.xhi, R.xlo) /\ fl.cf = Carry(w, R.lo, R.xlo)
           \/ Line2(code, I("dec", "xlo", "one"), I("adc", "hi", "xhi")) /\ Holds(R.hi, Plus(w, R.lo, R.xlo), R.xhi, Plus(w, R.xlo, 1)) /\ fl.cf = Carry(w, R.lo, R.xlo)
           \/ Line1(code, I("adc", "hi", "xhi")) /\ Holds(R.hi, Plus(w, R.lo, R.xlo), R.xhi, R.xlo) /\ fl.cf = Carry(w, R.lo, R.xlo)
           \/ code = << >> /\ Holds(reg["hi"], Plus(w, R.lo, R.xlo), R.xhi, R.xlo) /\ fl.cf = Carry(w, R.hi, R.xhi + Carry(w, R.lo, R.xlo)) /\ ((Carry(w, R.lo, R.xlo) = 1 /\ R.xhi = Ones(w) /\ R.hi # Ones(w)) \/ reg["hi"] = Plus(w, R.hi, R.xhi + Carry(w, R.lo, R.xlo)))

\* Every step of the program takes it to its next stage.
LEMMA WideAddStep ==
    ASSUME Typed, Next, AtWideAdd
    PROVE  AtWideAdd'
<1> DEFINE S0 == code = Listing("wide add") /\ Fresh
           S1 == Line3(code, I("inc", "xlo", "one"), I("dec", "xlo", "one"), I("adc", "hi", "xhi")) /\ Holds(R.hi, Plus(w, R.lo, R.xlo), R.xhi, R.xlo) /\ fl.cf = Carry(w, R.lo, R.xlo)
           S2 == Line2(code, I("dec", "xlo", "one"), I("adc", "hi", "xhi")) /\ Holds(R.hi, Plus(w, R.lo, R.xlo), R.xhi, Plus(w, R.xlo, 1)) /\ fl.cf = Carry(w, R.lo, R.xlo)
           S3 == Line1(code, I("adc", "hi", "xhi")) /\ Holds(R.hi, Plus(w, R.lo, R.xlo), R.xhi, R.xlo) /\ fl.cf = Carry(w, R.lo, R.xlo)
           S4 == code = << >> /\ Holds(reg["hi"], Plus(w, R.lo, R.xlo), R.xhi, R.xlo) /\ fl.cf = Carry(w, R.hi, R.xhi + Carry(w, R.lo, R.xlo)) /\ ((Carry(w, R.lo, R.xlo) = 1 /\ R.xhi = Ones(w) /\ R.hi # Ones(w)) \/ reg["hi"] = Plus(w, R.hi, R.xhi + Carry(w, R.lo, R.xlo)))
<1>1. run' = run /\ R' = R /\ w' = w /\ code # << >>
  BY Dispatch DEF R, w
<1>2. AtWideAdd <=> (run.prog.name = "wide add" => trap = "none" /\ (S0 \/ S1 \/ S2 \/ S3 \/ S4))
  BY Zenon DEF AtWideAdd
<1>3. AtWideAdd' <=> (run'.prog.name = "wide add" => trap' = "none" /\ (S0' \/ S1' \/ S2' \/ S3' \/ S4'))
  BY Zenon DEF AtWideAdd
<1>4. Line4(Listing("wide add"), I("add", "lo", "xlo"), I("inc", "xlo", "one"), I("dec", "xlo", "one"), I("adc", "hi", "xhi"))
  BY DEF Listing, Line4, CountUp, CountDown
<1>5. /\ Plus(w, R.lo, R.xlo) \in Word(w) /\ Carry(w, R.lo, R.xlo) \in {0, 1} /\ Plus(w, R.xlo, 1) \in Word(w)
      /\ Minus(w, Plus(w, R.xlo, 1), 1) = R.xlo
  BY TypedFacts, PlusMinus
<1>6. ASSUME S0, run.prog.name = "wide add" PROVE trap' = trap /\ S1'
  <2>1. Head(code) = I("add", "lo", "xlo") /\ Line3(Tail(code), I("inc", "xlo", "one"), I("dec", "xlo", "one"), I("adc", "hi", "xhi"))
    BY <1>4, <1>6, Ahead4
  <2>2. reg["hi"] = R.hi /\ reg["lo"] = R.lo /\ reg["xhi"] = R.xhi /\ reg["xlo"] = R.xlo
    BY <1>6 DEF Holds, Fresh
  <2>3. fl = run.fl /\ Val("xlo") = R.xlo
    BY <1>6, <2>2, Values DEF Fresh
  <2> DEFINE o == op_add(w, run.fl, R.lo, R.xlo)
  <2>4. Leaves("lo", op_add(w, fl, reg["lo"], Val("xlo")))
    BY <2>1, Executes
  <2>5. Leaves("lo", o)
    BY <2>2, <2>3, <2>4
  <2> HIDE DEF o
  <2>6. /\ fl' = o.fl /\ code' = Tail(code) /\ trap' = trap
        /\ reg'["hi"] = R.hi /\ reg'["lo"] = o.ret /\ reg'["xhi"] = R.xhi /\ reg'["xlo"] = R.xlo
    BY <2>2, <2>5, Left DEF Regs
  <2>7. o.ret = Plus(w, R.lo, R.xlo) /\ o.fl.cf = Carry(w, R.lo, R.xlo)
    BY TypedFacts, Sums DEF o
  <2> QED BY <1>1, <2>1, <2>5, <2>6, <2>7 DEF Holds
<1>7. ASSUME S1, run.prog.name = "wide add" PROVE trap' = trap /\ S2'
  <2>1. Head(code) = I("inc", "xlo", "one") /\ Line2(Tail(code), I("dec", "xlo", "one"), I("adc", "hi", "xhi"))
    BY <1>7, Ahead3
  <2>2. reg["hi"] = R.hi /\ reg["lo"] = Plus(w, R.lo, R.xlo) /\ reg["xhi"] = R.xhi /\ reg["xlo"] = R.xlo
    BY <1>7 DEF Holds
  <2>3. Val("one") = 1
    BY <2>2, Values
  <2> DEFINE o == op_inc(w, fl, R.xlo)
  <2>4. Leaves("xlo", op_inc(w, fl, reg["xlo"]))
    BY <2>1, Executes
  <2>5. Leaves("xlo", o)
    BY <2>2, <2>3, <2>4
  <2> HIDE DEF o
  <2>6. /\ fl' = o.fl /\ code' = Tail(code) /\ trap' = trap
        /\ reg'["hi"] = R.hi /\ reg'["lo"] = Plus(w, R.lo, R.xlo) /\ reg'["xhi"] = R.xhi /\ reg'["xlo"] = o.ret
    BY <2>2, <2>5, Left DEF Regs
  <2>7. o.ret = Plus(w, R.xlo, 1) /\ o.fl.cf = Carry(w, R.lo, R.xlo)
    <3>1. fl.cf = Carry(w, R.lo, R.xlo)
      BY <1>7
    <3> QED BY <3>1, TypedFacts, Counts DEF o
  <2> QED BY <1>1, <2>1, <2>5, <2>6, <2>7 DEF Holds
<1>8. ASSUME S2, run.prog.name = "wide add" PROVE trap' = trap /\ S3'
  <2>1. Head(code) = I("dec", "xlo", "one") /\ Line1(Tail(code), I("adc", "hi", "xhi"))
    BY <1>8, Ahead2
  <2>2. reg["hi"] = R.hi /\ reg["lo"] = Plus(w, R.lo, R.xlo) /\ reg["xhi"] = R.xhi /\ reg["xlo"] = Plus(w, R.xlo, 1)
    BY <1>8 DEF Holds
  <2>3. Val("one") = 1
    BY <2>2, Values
  <2> DEFINE o == op_dec(w, fl, Plus(w, R.xlo, 1))
  <2>4. Leaves("xlo", op_dec(w, fl, reg["xlo"]))
    BY <2>1, Executes
  <2>5. Leaves("xlo", o)
    BY <2>2, <2>3, <2>4
  <2> HIDE DEF o
  <2>6. /\ fl' = o.fl /\ code' = Tail(code) /\ trap' = trap
        /\ reg'["hi"] = R.hi /\ reg'["lo"] = Plus(w, R.lo, R.xlo) /\ reg'["xhi"] = R.xhi /\ reg'["xlo"] = o.ret
    BY <2>2, <2>5, Left DEF Regs
  <2>7. o.ret = R.xlo /\ o.fl.cf = Carry(w, R.lo, R.xlo)
    <3>1. fl.cf = Carry(w, R.lo, R.xlo)
      BY <1>8
    <3> QED BY <1>5, <3>1, TypedFacts, Counts DEF o
  <2> QED BY <1>1, <2>1, <2>5, <2>6, <2>7 DEF Holds
<1>9. ASSUME S3, run.prog.name = "wide add" PROVE trap' = trap /\ S4'
  <2>1. Head(code) = I("adc", "hi", "xhi") /\ Tail(code) = << >>
    BY <1>9, Ahead1
  <2>2. reg["hi"] = R.hi /\ reg["lo"] = Plus(w, R.lo, R.xlo) /\ reg["xhi"] = R.xhi /\ reg["xlo"] = R.xlo
    BY <1>9 DEF Holds
  <2>3. Val("xhi") = R.xhi
    BY <2>2, Values
  <2> DEFINE o == op_adc(w, fl, R.hi, R.xhi)
  <2>4. Leaves("hi", op_adc(w, fl, reg["hi"], Val("xhi")))
    BY <2>1, Executes
  <2>5. Leaves("hi", o)
    BY <2>2, <2>3, <2>4
  <2> HIDE DEF o
  <2>6. /\ fl' = o.fl /\ code' = Tail(code) /\ trap' = trap
        /\ reg'["hi"] = o.ret /\ reg'["lo"] = Plus(w, R.lo, R.xlo) /\ reg'["xhi"] = R.xhi /\ reg'["xlo"] = R.xlo
    BY <2>2, <2>5, Left DEF Regs
  <2>7. o.fl.cf = Carry(w, R.hi, R.xhi + Carry(w, R.lo, R.xlo))
    <3>1. fl.cf = Carry(w, R.lo, R.xlo)
      BY <1>9
    <3>2. o.fl.cf = Carry(w, R.hi, R.xhi + fl.cf)
      BY TypedFacts, Sums DEF o
    <3> QED BY <3>1, <3>2
  <2>8. (Carry(w, R.lo, R.xlo) = 1 /\ R.xhi = Ones(w) /\ R.hi # Ones(w)) \/ o.ret = Plus(w, R.hi, R.xhi + Carry(w, R.lo, R.xlo))
    <3>1. fl.cf = Carry(w, R.lo, R.xlo)
      BY <1>9
    <3>2. (fl.cf = 1 /\ R.xhi = Ones(w) /\ R.hi # Ones(w)) \/ o.ret = Plus(w, R.hi, R.xhi + fl.cf)
      BY TypedFacts, Sums DEF o
    <3> QED BY <3>1, <3>2
  <2> QED BY <1>1, <2>1, <2>5, <2>6, <2>7, <2>8 DEF Holds
<1> HIDE DEF S0, S1, S2, S3, S4
<1>10. ~S4
  BY <1>1 DEF S4
<1> QED BY <1>1, <1>2, <1>3, <1>6, <1>7, <1>8, <1>9, <1>10, Zenon

\* And subtracted.
AtWideSub ==
    run.prog.name = "wide sub" =>
        /\ trap = "none"
        /\ \/ code = Listing("wide sub") /\ Fresh
           \/ Line3(code, I("inc", "xlo", "one"), I("dec", "xlo", "one"), I("sbb", "hi", "xhi")) /\ Holds(R.hi, Minus(w, R.lo, R.xlo), R.xhi, R.xlo) /\ fl.cf = Borrow(R.lo, R.xlo)
           \/ Line2(code, I("dec", "xlo", "one"), I("sbb", "hi", "xhi")) /\ Holds(R.hi, Minus(w, R.lo, R.xlo), R.xhi, Plus(w, R.xlo, 1)) /\ fl.cf = Borrow(R.lo, R.xlo)
           \/ Line1(code, I("sbb", "hi", "xhi")) /\ Holds(R.hi, Minus(w, R.lo, R.xlo), R.xhi, R.xlo) /\ fl.cf = Borrow(R.lo, R.xlo)
           \/ code = << >> /\ Holds(reg["hi"], Minus(w, R.lo, R.xlo), R.xhi, R.xlo) /\ fl.cf = Borrow(R.hi, R.xhi + Borrow(R.lo, R.xlo)) /\ ((Borrow(R.lo, R.xlo) = 1 /\ R.xhi = Ones(w) /\ R.hi # Ones(w)) \/ reg["hi"] = Minus(w, R.hi, R.xhi + Borrow(R.lo, R.xlo)))

\* Every step of the program takes it to its next stage.
LEMMA WideSubStep ==
    ASSUME Typed, Next, AtWideSub
    PROVE  AtWideSub'
<1> DEFINE S0 == code = Listing("wide sub") /\ Fresh
           S1 == Line3(code, I("inc", "xlo", "one"), I("dec", "xlo", "one"), I("sbb", "hi", "xhi")) /\ Holds(R.hi, Minus(w, R.lo, R.xlo), R.xhi, R.xlo) /\ fl.cf = Borrow(R.lo, R.xlo)
           S2 == Line2(code, I("dec", "xlo", "one"), I("sbb", "hi", "xhi")) /\ Holds(R.hi, Minus(w, R.lo, R.xlo), R.xhi, Plus(w, R.xlo, 1)) /\ fl.cf = Borrow(R.lo, R.xlo)
           S3 == Line1(code, I("sbb", "hi", "xhi")) /\ Holds(R.hi, Minus(w, R.lo, R.xlo), R.xhi, R.xlo) /\ fl.cf = Borrow(R.lo, R.xlo)
           S4 == code = << >> /\ Holds(reg["hi"], Minus(w, R.lo, R.xlo), R.xhi, R.xlo) /\ fl.cf = Borrow(R.hi, R.xhi + Borrow(R.lo, R.xlo)) /\ ((Borrow(R.lo, R.xlo) = 1 /\ R.xhi = Ones(w) /\ R.hi # Ones(w)) \/ reg["hi"] = Minus(w, R.hi, R.xhi + Borrow(R.lo, R.xlo)))
<1>1. run' = run /\ R' = R /\ w' = w /\ code # << >>
  BY Dispatch DEF R, w
<1>2. AtWideSub <=> (run.prog.name = "wide sub" => trap = "none" /\ (S0 \/ S1 \/ S2 \/ S3 \/ S4))
  BY Zenon DEF AtWideSub
<1>3. AtWideSub' <=> (run'.prog.name = "wide sub" => trap' = "none" /\ (S0' \/ S1' \/ S2' \/ S3' \/ S4'))
  BY Zenon DEF AtWideSub
<1>4. Line4(Listing("wide sub"), I("sub", "lo", "xlo"), I("inc", "xlo", "one"), I("dec", "xlo", "one"), I("sbb", "hi", "xhi"))
  BY DEF Listing, Line4, CountUp, CountDown
<1>5. /\ Minus(w, R.lo, R.xlo) \in Word(w) /\ Borrow(R.lo, R.xlo) \in {0, 1} /\ Plus(w, R.xlo, 1) \in Word(w)
      /\ Minus(w, Plus(w, R.xlo, 1), 1) = R.xlo
  BY TypedFacts, PlusMinus
<1>6. ASSUME S0, run.prog.name = "wide sub" PROVE trap' = trap /\ S1'
  <2>1. Head(code) = I("sub", "lo", "xlo") /\ Line3(Tail(code), I("inc", "xlo", "one"), I("dec", "xlo", "one"), I("sbb", "hi", "xhi"))
    BY <1>4, <1>6, Ahead4
  <2>2. reg["hi"] = R.hi /\ reg["lo"] = R.lo /\ reg["xhi"] = R.xhi /\ reg["xlo"] = R.xlo
    BY <1>6 DEF Holds, Fresh
  <2>3. fl = run.fl /\ Val("xlo") = R.xlo
    BY <1>6, <2>2, Values DEF Fresh
  <2> DEFINE o == op_sub(w, run.fl, R.lo, R.xlo)
  <2>4. Leaves("lo", op_sub(w, fl, reg["lo"], Val("xlo")))
    BY <2>1, Executes
  <2>5. Leaves("lo", o)
    BY <2>2, <2>3, <2>4
  <2> HIDE DEF o
  <2>6. /\ fl' = o.fl /\ code' = Tail(code) /\ trap' = trap
        /\ reg'["hi"] = R.hi /\ reg'["lo"] = o.ret /\ reg'["xhi"] = R.xhi /\ reg'["xlo"] = R.xlo
    BY <2>2, <2>5, Left DEF Regs
  <2>7. o.ret = Minus(w, R.lo, R.xlo) /\ o.fl.cf = Borrow(R.lo, R.xlo)
    BY TypedFacts, Differences DEF o
  <2> QED BY <1>1, <2>1, <2>5, <2>6, <2>7 DEF Holds
<1>7. ASSUME S1, run.prog.name = "wide sub" PROVE trap' = trap /\ S2'
  <2>1. Head(code) = I("inc", "xlo", "one") /\ Line2(Tail(code), I("dec", "xlo", "one"), I("sbb", "hi", "xhi"))
    BY <1>7, Ahead3
  <2>2. reg["hi"] = R.hi /\ reg["lo"] = Minus(w, R.lo, R.xlo) /\ reg["xhi"] = R.xhi /\ reg["xlo"] = R.xlo
    BY <1>7 DEF Holds
  <2>3. Val("one") = 1
    BY <2>2, Values
  <2> DEFINE o == op_inc(w, fl, R.xlo)
  <2>4. Leaves("xlo", op_inc(w, fl, reg["xlo"]))
    BY <2>1, Executes
  <2>5. Leaves("xlo", o)
    BY <2>2, <2>3, <2>4
  <2> HIDE DEF o
  <2>6. /\ fl' = o.fl /\ code' = Tail(code) /\ trap' = trap
        /\ reg'["hi"] = R.hi /\ reg'["lo"] = Minus(w, R.lo, R.xlo) /\ reg'["xhi"] = R.xhi /\ reg'["xlo"] = o.ret
    BY <2>2, <2>5, Left DEF Regs
  <2>7. o.ret = Plus(w, R.xlo, 1) /\ o.fl.cf = Borrow(R.lo, R.xlo)
    <3>1. fl.cf = Borrow(R.lo, R.xlo)
      BY <1>7
    <3> QED BY <3>1, TypedFacts, Counts DEF o
  <2> QED BY <1>1, <2>1, <2>5, <2>6, <2>7 DEF Holds
<1>8. ASSUME S2, run.prog.name = "wide sub" PROVE trap' = trap /\ S3'
  <2>1. Head(code) = I("dec", "xlo", "one") /\ Line1(Tail(code), I("sbb", "hi", "xhi"))
    BY <1>8, Ahead2
  <2>2. reg["hi"] = R.hi /\ reg["lo"] = Minus(w, R.lo, R.xlo) /\ reg["xhi"] = R.xhi /\ reg["xlo"] = Plus(w, R.xlo, 1)
    BY <1>8 DEF Holds
  <2>3. Val("one") = 1
    BY <2>2, Values
  <2> DEFINE o == op_dec(w, fl, Plus(w, R.xlo, 1))
  <2>4. Leaves("xlo", op_dec(w, fl, reg["xlo"]))
    BY <2>1, Executes
  <2>5. Leaves("xlo", o)
    BY <2>2, <2>3, <2>4
  <2> HIDE DEF o
  <2>6. /\ fl' = o.fl /\ code' = Tail(code) /\ trap' = trap
        /\ reg'["hi"] = R.hi /\ reg'["lo"] = Minus(w, R.lo, R.xlo) /\ reg'["xhi"] = R.xhi /\ reg'["xlo"] = o.ret
    BY <2>2, <2>5, Left DEF Regs
  <2>7. o.ret = R.xlo /\ o.fl.cf = Borrow(R.lo, R.xlo)
    <3>1. fl.cf = Borrow(R.lo, R.xlo)
      BY <1>8
    <3> QED BY <1>5, <3>1, TypedFacts, Counts DEF o
  <2> QED BY <1>1, <2>1, <2>5, <2>6, <2>7 DEF Holds
<1>9. ASSUME S3, run.prog.name = "wide sub" PROVE trap' = trap /\ S4'
  <2>1. Head(code) = I("sbb", "hi", "xhi") /\ Tail(code) = << >>
    BY <1>9, Ahead1
  <2>2. reg["hi"] = R.hi /\ reg["lo"] = Minus(w, R.lo, R.xlo) /\ reg["xhi"] = R.xhi /\ reg["xlo"] = R.xlo
    BY <1>9 DEF Holds
  <2>3. Val("xhi") = R.xhi
    BY <2>2, Values
  <2> DEFINE o == op_sbb(w, fl, R.hi, R.xhi)
  <2>4. Leaves("hi", op_sbb(w, fl, reg["hi"], Val("xhi")))
    BY <2>1, Executes
  <2>5. Leaves("hi", o)
    BY <2>2, <2>3, <2>4
  <2> HIDE DEF o
  <2>6. /\ fl' = o.fl /\ code' = Tail(code) /\ trap' = trap
        /\ reg'["hi"] = o.ret /\ reg'["lo"] = Minus(w, R.lo, R.xlo) /\ reg'["xhi"] = R.xhi /\ reg'["xlo"] = R.xlo
    BY <2>2, <2>5, Left DEF Regs
  <2>7. o.fl.cf = Borrow(R.hi, R.xhi + Borrow(R.lo, R.xlo))
    <3>1. fl.cf = Borrow(R.lo, R.xlo)
      BY <1>9
    <3>2. o.fl.cf = Borrow(R.hi, R.xhi + fl.cf)
      BY TypedFacts, Differences DEF o
    <3> QED BY <3>1, <3>2
  <2>8. (Borrow(R.lo, R.xlo) = 1 /\ R.xhi = Ones(w) /\ R.hi # Ones(w)) \/ o.ret = Minus(w, R.hi, R.xhi + Borrow(R.lo, R.xlo))
    <3>1. fl.cf = Borrow(R.lo, R.xlo)
      BY <1>9
    <3>2. (fl.cf = 1 /\ R.xhi = Ones(w) /\ R.hi # Ones(w)) \/ o.ret = Minus(w, R.hi, R.xhi + fl.cf)
      BY TypedFacts, Differences DEF o
    <3> QED BY <3>1, <3>2
  <2> QED BY <1>1, <2>1, <2>5, <2>6, <2>7, <2>8 DEF Holds
<1> HIDE DEF S0, S1, S2, S3, S4
<1>10. ~S4
  BY <1>1 DEF S4
<1> QED BY <1>1, <1>2, <1>3, <1>6, <1>7, <1>8, <1>9, <1>10, Zenon

\* A number of two limbs is negated: both are complemented, and one is added.
AtWideNeg ==
    run.prog.name = "wide neg" =>
        /\ trap = "none"
        /\ \/ code = Listing("wide neg") /\ Fresh
           \/ Line3(code, I("neg", "lo", "lo"), I("cmp", "lo", "one"), I("adc", "hi", "zero")) /\ Holds(Ones(w) - R.hi, R.lo, R.xhi, R.xlo)
           \/ Line2(code, I("cmp", "lo", "one"), I("adc", "hi", "zero")) /\ Holds(Ones(w) - R.hi, Minus(w, 0, R.lo), R.xhi, R.xlo)
           \/ Line1(code, I("adc", "hi", "zero")) /\ Holds(Ones(w) - R.hi, Minus(w, 0, R.lo), R.xhi, R.xlo) /\ fl.cf = Borrow(Minus(w, 0, R.lo), 1)
           \/ code = << >> /\ Holds(Plus(w, Ones(w) - R.hi, Borrow(Minus(w, 0, R.lo), 1)), Minus(w, 0, R.lo), R.xhi, R.xlo)

\* Every step of the program takes it to its next stage.
LEMMA WideNegStep ==
    ASSUME Typed, Next, AtWideNeg
    PROVE  AtWideNeg'
<1> DEFINE S0 == code = Listing("wide neg") /\ Fresh
           S1 == Line3(code, I("neg", "lo", "lo"), I("cmp", "lo", "one"), I("adc", "hi", "zero")) /\ Holds(Ones(w) - R.hi, R.lo, R.xhi, R.xlo)
           S2 == Line2(code, I("cmp", "lo", "one"), I("adc", "hi", "zero")) /\ Holds(Ones(w) - R.hi, Minus(w, 0, R.lo), R.xhi, R.xlo)
           S3 == Line1(code, I("adc", "hi", "zero")) /\ Holds(Ones(w) - R.hi, Minus(w, 0, R.lo), R.xhi, R.xlo) /\ fl.cf = Borrow(Minus(w, 0, R.lo), 1)
           S4 == code = << >> /\ Holds(Plus(w, Ones(w) - R.hi, Borrow(Minus(w, 0, R.lo), 1)), Minus(w, 0, R.lo), R.xhi, R.xlo)
<1>1. run' = run /\ R' = R /\ w' = w /\ code # << >>
  BY Dispatch DEF R, w
<1>2. AtWideNeg <=> (run.prog.name = "wide neg" => trap = "none" /\ (S0 \/ S1 \/ S2 \/ S3 \/ S4))
  BY Zenon DEF AtWideNeg
<1>3. AtWideNeg' <=> (run'.prog.name = "wide neg" => trap' = "none" /\ (S0' \/ S1' \/ S2' \/ S3' \/ S4'))
  BY Zenon DEF AtWideNeg
<1>4. Line4(Listing("wide neg"), I("not", "hi", "hi"), I("neg", "lo", "lo"), I("cmp", "lo", "one"), I("adc", "hi", "zero"))
  BY DEF Listing, Line4
<1>5. /\ Ones(w) - R.hi \in Word(w) /\ Minus(w, 0, R.lo) \in Word(w) /\ 0 \in Word(w) /\ 1 \in Word(w)
  BY TypedFacts, Signs
<1>6. Ones(w) \in Nat /\ Ones(w) > 0 /\ Size(w) = Ones(w) + 1
  BY TypedFacts, Sizes
<1>7. ASSUME S0, run.prog.name = "wide neg" PROVE trap' = trap /\ S1'
  <2>1. Head(code) = I("not", "hi", "hi") /\ Line3(Tail(code), I("neg", "lo", "lo"), I("cmp", "lo", "one"), I("adc", "hi", "zero"))
    BY <1>4, <1>7, Ahead4
  <2>2. reg["hi"] = R.hi /\ reg["lo"] = R.lo /\ reg["xhi"] = R.xhi /\ reg["xlo"] = R.xlo
    BY <1>7 DEF Holds, Fresh
  <2>3. fl = run.fl /\ Val("hi") = R.hi
    BY <1>7, <2>2, Values DEF Fresh
  <2> DEFINE o == op_not(w, run.fl, R.hi)
  <2>4. Leaves("hi", op_not(w, fl, reg["hi"]))
    BY <2>1, Executes
  <2>5. Leaves("hi", o)
    BY <2>2, <2>3, <2>4
  <2> HIDE DEF o
  <2>6. /\ fl' = o.fl /\ code' = Tail(code) /\ trap' = trap
        /\ reg'["hi"] = o.ret /\ reg'["lo"] = R.lo /\ reg'["xhi"] = R.xhi /\ reg'["xlo"] = R.xlo
    BY <2>2, <2>5, Left DEF Regs
  <2>7. o.ret = Ones(w) - R.hi
    BY TypedFacts, Signs DEF o
  <2> QED BY <1>1, <2>1, <2>5, <2>6, <2>7 DEF Holds
<1>8. ASSUME S1, run.prog.name = "wide neg" PROVE trap' = trap /\ S2'
  <2>1. Head(code) = I("neg", "lo", "lo") /\ Line2(Tail(code), I("cmp", "lo", "one"), I("adc", "hi", "zero"))
    BY <1>8, Ahead3
  <2>2. reg["hi"] = Ones(w) - R.hi /\ reg["lo"] = R.lo /\ reg["xhi"] = R.xhi /\ reg["xlo"] = R.xlo
    BY <1>8 DEF Holds
  <2>3. Val("lo") = R.lo
    BY <2>2, Values
  <2> DEFINE o == op_neg(w, fl, R.lo)
  <2>4. Leaves("lo", op_neg(w, fl, reg["lo"]))
    BY <2>1, Executes
  <2>5. Leaves("lo", o)
    BY <2>2, <2>3, <2>4
  <2> HIDE DEF o
  <2>6. /\ fl' = o.fl /\ code' = Tail(code) /\ trap' = trap
        /\ reg'["hi"] = Ones(w) - R.hi /\ reg'["lo"] = o.ret /\ reg'["xhi"] = R.xhi /\ reg'["xlo"] = R.xlo
    BY <2>2, <2>5, Left DEF Regs
  <2>7. o.ret = Minus(w, 0, R.lo)
    BY TypedFacts, Signs DEF o
  <2> QED BY <1>1, <2>1, <2>5, <2>6, <2>7 DEF Holds
<1>9. ASSUME S2, run.prog.name = "wide neg" PROVE trap' = trap /\ S3'
  <2>1. Head(code) = I("cmp", "lo", "one") /\ Line1(Tail(code), I("adc", "hi", "zero"))
    BY <1>9, Ahead2
  <2>2. reg["hi"] = Ones(w) - R.hi /\ reg["lo"] = Minus(w, 0, R.lo) /\ reg["xhi"] = R.xhi /\ reg["xlo"] = R.xlo
    BY <1>9 DEF Holds
  <2>3. Val("one") = 1
    BY <2>2, Values
  <2> DEFINE o == op_sub(w, fl, Minus(w, 0, R.lo), 1)
  <2>4. LeavesFlags(op_sub(w, fl, reg["lo"], Val("one")).fl)
    BY <2>1, Executes
  <2>5. fl' = o.fl /\ code' = Tail(code) /\ trap' = trap /\ reg' = reg
    BY <2>2, <2>3, <2>4 DEF LeavesFlags, Onward
  <2>6. reg'["hi"] = Ones(w) - R.hi /\ reg'["lo"] = Minus(w, 0, R.lo) /\ reg'["xhi"] = R.xhi /\ reg'["xlo"] = R.xlo
    BY <2>2, <2>5
  <2> HIDE DEF o
  <2> DEFINE x == Minus(w, 0, R.lo)
  <2>7. x \in Word(w) /\ 1 \in Word(w) /\ w \in Widths /\ fl \in FlagSet /\ o = op_sub(w, fl, x, 1)
    BY <1>5, TypedFacts DEF o
  <2> HIDE DEF x
  <2>8. o.fl.cf = Borrow(x, 1)
    BY <2>7, Differences
  <2>9. o.fl.cf = Borrow(Minus(w, 0, R.lo), 1)
    BY <2>8 DEF x
  <2> QED BY <1>1, <2>1, <2>5, <2>6, <2>9 DEF Holds
<1>10. ASSUME S3, run.prog.name = "wide neg" PROVE trap' = trap /\ S4'
  <2>1. Head(code) = I("adc", "hi", "zero") /\ Tail(code) = << >>
    BY <1>10, Ahead1
  <2>2. reg["hi"] = Ones(w) - R.hi /\ reg["lo"] = Minus(w, 0, R.lo) /\ reg["xhi"] = R.xhi /\ reg["xlo"] = R.xlo
    BY <1>10 DEF Holds
  <2>3. Val("zero") = 0
    BY <2>2, Values
  <2> DEFINE o == op_adc(w, fl, Ones(w) - R.hi, 0)
  <2>4. Leaves("hi", op_adc(w, fl, reg["hi"], Val("zero")))
    BY <2>1, Executes
  <2>5. Leaves("hi", o)
    BY <2>2, <2>3, <2>4
  <2> HIDE DEF o
  <2>6. /\ fl' = o.fl /\ code' = Tail(code) /\ trap' = trap
        /\ reg'["hi"] = o.ret /\ reg'["lo"] = Minus(w, 0, R.lo) /\ reg'["xhi"] = R.xhi /\ reg'["xlo"] = R.xlo
    BY <2>2, <2>5, Left DEF Regs
  <2>7. fl.cf = Borrow(Minus(w, 0, R.lo), 1)
    BY <1>10
  <2>8. o.ret = Plus(w, Ones(w) - R.hi, 0 + fl.cf)
    <3>1. ~(fl.cf = 1 /\ 0 = Ones(w) /\ Ones(w) - R.hi # Ones(w))
      BY <1>6
    <3> QED BY <1>5, <3>1, TypedFacts, Sums DEF o
  <2>9. 0 + fl.cf = fl.cf
    BY TypedFacts, FlagTypes
  <2>10. o.ret = Plus(w, Ones(w) - R.hi, Borrow(Minus(w, 0, R.lo), 1))
    BY <2>7, <2>8, <2>9
  <2> QED BY <1>1, <2>1, <2>5, <2>6, <2>10 DEF Holds
<1> HIDE DEF S0, S1, S2, S3, S4
<1>11. ~S4
  BY <1>1 DEF S4
<1> QED BY <1>1, <1>2, <1>3, <1>7, <1>8, <1>9, <1>10, <1>11, Zenon

\* LAHF and SAHF keep the carry of an addition over an OR.
AtSavedAdd ==
    run.prog.name = "saved add" =>
        /\ trap = "none"
        /\ \/ code = Listing("saved add") /\ Fresh
           \/ Line4(code, I("lahf", "lo", "lo"), I("or", "xhi", "xhi"), I("sahf", "lo", "lo"), I("adc", "xhi", "zero")) /\ Holds(R.hi, Plus(w, R.lo, R.xlo), R.xhi, R.xlo) /\ fl.cf = Carry(w, R.lo, R.xlo)
           \/ Line3(code, I("or", "xhi", "xhi"), I("sahf", "lo", "lo"), I("adc", "xhi", "zero")) /\ Holds(reg["hi"], Plus(w, R.lo, R.xlo), R.xhi, R.xlo) /\ (\E f \in FlagSet : f.cf = Carry(w, R.lo, R.xlo) /\ reg["hi"] = LowFlags(f))
           \/ Line2(code, I("sahf", "lo", "lo"), I("adc", "xhi", "zero")) /\ Holds(reg["hi"], Plus(w, R.lo, R.xlo), R.xhi, R.xlo) /\ (\E f \in FlagSet : f.cf = Carry(w, R.lo, R.xlo) /\ reg["hi"] = LowFlags(f))
           \/ Line1(code, I("adc", "xhi", "zero")) /\ Holds(reg["hi"], Plus(w, R.lo, R.xlo), R.xhi, R.xlo) /\ fl.cf = Carry(w, R.lo, R.xlo)
           \/ code = << >> /\ Holds(reg["hi"], Plus(w, R.lo, R.xlo), Plus(w, R.xhi, Carry(w, R.lo, R.xlo)), R.xlo)

\* Every step of the program takes it to its next stage.
LEMMA SavedAddStep ==
    ASSUME Typed, Next, AtSavedAdd
    PROVE  AtSavedAdd'
<1> DEFINE S0 == code = Listing("saved add") /\ Fresh
           S1 == Line4(code, I("lahf", "lo", "lo"), I("or", "xhi", "xhi"), I("sahf", "lo", "lo"), I("adc", "xhi", "zero")) /\ Holds(R.hi, Plus(w, R.lo, R.xlo), R.xhi, R.xlo) /\ fl.cf = Carry(w, R.lo, R.xlo)
           S2 == Line3(code, I("or", "xhi", "xhi"), I("sahf", "lo", "lo"), I("adc", "xhi", "zero")) /\ Holds(reg["hi"], Plus(w, R.lo, R.xlo), R.xhi, R.xlo) /\ (\E f \in FlagSet : f.cf = Carry(w, R.lo, R.xlo) /\ reg["hi"] = LowFlags(f))
           S3 == Line2(code, I("sahf", "lo", "lo"), I("adc", "xhi", "zero")) /\ Holds(reg["hi"], Plus(w, R.lo, R.xlo), R.xhi, R.xlo) /\ (\E f \in FlagSet : f.cf = Carry(w, R.lo, R.xlo) /\ reg["hi"] = LowFlags(f))
           S4 == Line1(code, I("adc", "xhi", "zero")) /\ Holds(reg["hi"], Plus(w, R.lo, R.xlo), R.xhi, R.xlo) /\ fl.cf = Carry(w, R.lo, R.xlo)
           S5 == code = << >> /\ Holds(reg["hi"], Plus(w, R.lo, R.xlo), Plus(w, R.xhi, Carry(w, R.lo, R.xlo)), R.xlo)
<1>1. run' = run /\ R' = R /\ w' = w /\ code # << >>
  BY Dispatch DEF R, w
<1>2. AtSavedAdd <=> (run.prog.name = "saved add" => trap = "none" /\ (S0 \/ S1 \/ S2 \/ S3 \/ S4 \/ S5))
  BY Zenon DEF AtSavedAdd
<1>3. AtSavedAdd' <=> (run'.prog.name = "saved add" => trap' = "none" /\ (S0' \/ S1' \/ S2' \/ S3' \/ S4' \/ S5'))
  BY Zenon DEF AtSavedAdd
<1>4. Line5(Listing("saved add"), I("add", "lo", "xlo"), I("lahf", "lo", "lo"), I("or", "xhi", "xhi"), I("sahf", "lo", "lo"), I("adc", "xhi", "zero"))
  BY DEF Listing, Line5
<1>5. /\ Plus(w, R.lo, R.xlo) \in Word(w) /\ Carry(w, R.lo, R.xlo) \in {0, 1} /\ 0 \in Word(w)
  BY TypedFacts, PlusMinus
<1>6. Ones(w) \in Nat /\ Ones(w) > 0 /\ Size(w) = Ones(w) + 1
  BY TypedFacts, Sizes
<1>7. ASSUME S0, run.prog.name = "saved add" PROVE trap' = trap /\ S1'
  <2>1. Head(code) = I("add", "lo", "xlo") /\ Line4(Tail(code), I("lahf", "lo", "lo"), I("or", "xhi", "xhi"), I("sahf", "lo", "lo"), I("adc", "xhi", "zero"))
    BY <1>4, <1>7, Ahead5
  <2>2. reg["hi"] = R.hi /\ reg["lo"] = R.lo /\ reg["xhi"] = R.xhi /\ reg["xlo"] = R.xlo
    BY <1>7 DEF Holds, Fresh
  <2>3. fl = run.fl /\ Val("xlo") = R.xlo
    BY <1>7, <2>2, Values DEF Fresh
  <2> DEFINE o == op_add(w, run.fl, R.lo, R.xlo)
  <2>4. Leaves("lo", op_add(w, fl, reg["lo"], Val("xlo")))
    BY <2>1, Executes
  <2>5. Leaves("lo", o)
    BY <2>2, <2>3, <2>4
  <2> HIDE DEF o
  <2>6. /\ fl' = o.fl /\ code' = Tail(code) /\ trap' = trap
        /\ reg'["hi"] = R.hi /\ reg'["lo"] = o.ret /\ reg'["xhi"] = R.xhi /\ reg'["xlo"] = R.xlo
    BY <2>2, <2>5, Left DEF Regs
  <2>7. o.ret = Plus(w, R.lo, R.xlo) /\ o.fl.cf = Carry(w, R.lo, R.xlo)
    BY TypedFacts, Sums DEF o
  <2> QED BY <1>1, <2>1, <2>5, <2>6, <2>7 DEF Holds
<1>8. ASSUME S1, run.prog.name = "saved add" PROVE trap' = trap /\ S2'
  <2>1. Head(code) = I("lahf", "lo", "lo") /\ Line3(Tail(code), I("or", "xhi", "xhi"), I("sahf", "lo", "lo"), I("adc", "xhi", "zero"))
    BY <1>8, Ahead4
  <2>2. reg["hi"] = R.hi /\ reg["lo"] = Plus(w, R.lo, R.xlo) /\ reg["xhi"] = R.xhi /\ reg["xlo"] = R.xlo
    BY <1>8 DEF Holds
  <2>4. reg' = [reg EXCEPT !["hi"] = LowFlags(fl)] /\ fl' = fl /\ Onward
    BY <2>1, Executes
  <2>5. code' = Tail(code) /\ trap' = trap
    BY <2>4 DEF Onward
  <2>6. reg'["hi"] = LowFlags(fl) /\ reg'["lo"] = Plus(w, R.lo, R.xlo) /\ reg'["xhi"] = R.xhi /\ reg'["xlo"] = R.xlo
    BY <2>2, <2>4 DEF Typed, Machine, Registers, Regs
  <2>7. fl.cf = Carry(w, R.lo, R.xlo) /\ fl \in FlagSet
    BY <1>8, TypedFacts
  <2>8. \E f \in FlagSet : f.cf = Carry(w, R.lo, R.xlo) /\ reg'["hi"] = LowFlags(f)
    BY <2>6, <2>7
  <2> QED BY <1>1, <2>1, <2>5, <2>6, <2>8 DEF Holds
<1>9. ASSUME S2, run.prog.name = "saved add" PROVE trap' = trap /\ S3'
  <2>1. Head(code) = I("or", "xhi", "xhi") /\ Line2(Tail(code), I("sahf", "lo", "lo"), I("adc", "xhi", "zero"))
    BY <1>9, Ahead3
  <2>2. reg["hi"] = reg["hi"] /\ reg["lo"] = Plus(w, R.lo, R.xlo) /\ reg["xhi"] = R.xhi /\ reg["xlo"] = R.xlo
    BY <1>9 DEF Holds
  <2>3. Val("xhi") = R.xhi
    BY <2>2, Values
  <2> DEFINE o == op_or(w, fl, R.xhi, R.xhi)
  <2>4. Leaves("xhi", op_or(w, fl, reg["xhi"], Val("xhi")))
    BY <2>1, Executes
  <2>5. Leaves("xhi", o)
    BY <2>2, <2>3, <2>4
  <2> HIDE DEF o
  <2>6. /\ fl' = o.fl /\ code' = Tail(code) /\ trap' = trap
        /\ reg'["hi"] = reg["hi"] /\ reg'["lo"] = Plus(w, R.lo, R.xlo) /\ reg'["xhi"] = o.ret /\ reg'["xlo"] = R.xlo
    BY <2>2, <2>5, Left DEF Regs
  <2>7. o.ret = R.xhi
    BY TypedFacts, WithItself DEF o
  <2>8. (\E f \in FlagSet : f.cf = Carry(w, R.lo, R.xlo) /\ reg'["hi"] = LowFlags(f))
    BY <1>9, <2>6
  <2> QED BY <1>1, <2>1, <2>5, <2>6, <2>7, <2>8 DEF Holds
<1>10. ASSUME S3, run.prog.name = "saved add" PROVE trap' = trap /\ S4'
  <2>1. Head(code) = I("sahf", "lo", "lo") /\ Line1(Tail(code), I("adc", "xhi", "zero"))
    BY <1>10, Ahead2
  <2>2. reg["hi"] = reg["hi"] /\ reg["lo"] = Plus(w, R.lo, R.xlo) /\ reg["xhi"] = R.xhi /\ reg["xlo"] = R.xlo
    BY <1>10 DEF Holds
  <2>4. LeavesFlags(WithLowFlags(fl, reg["hi"]))
    BY <2>1, Executes
  <2>5. fl' = WithLowFlags(fl, reg["hi"]) /\ code' = Tail(code) /\ trap' = trap /\ reg' = reg
    BY <2>4 DEF LeavesFlags, Onward
  <2>6. reg'["lo"] = Plus(w, R.lo, R.xlo) /\ reg'["xhi"] = R.xhi /\ reg'["xlo"] = R.xlo
    BY <2>2, <2>5
  <2>7. PICK f \in FlagSet : f.cf = Carry(w, R.lo, R.xlo) /\ reg["hi"] = LowFlags(f)
    BY <1>10
  <2>8. fl'.cf = Carry(w, R.lo, R.xlo)
    BY <2>5, <2>7, SavedCarry, TypedFacts
  <2> QED BY <1>1, <2>1, <2>5, <2>6, <2>8 DEF Holds
<1>11. ASSUME S4, run.prog.name = "saved add" PROVE trap' = trap /\ S5'
  <2>1. Head(code) = I("adc", "xhi", "zero") /\ Tail(code) = << >>
    BY <1>11, Ahead1
  <2>2. reg["hi"] = reg["hi"] /\ reg["lo"] = Plus(w, R.lo, R.xlo) /\ reg["xhi"] = R.xhi /\ reg["xlo"] = R.xlo
    BY <1>11 DEF Holds
  <2>3. Val("zero") = 0
    BY <2>2, Values
  <2> DEFINE o == op_adc(w, fl, R.xhi, 0)
  <2>4. Leaves("xhi", op_adc(w, fl, reg["xhi"], Val("zero")))
    BY <2>1, Executes
  <2>5. Leaves("xhi", o)
    BY <2>2, <2>3, <2>4
  <2> HIDE DEF o
  <2>6. /\ fl' = o.fl /\ code' = Tail(code) /\ trap' = trap
        /\ reg'["hi"] = reg["hi"] /\ reg'["lo"] = Plus(w, R.lo, R.xlo) /\ reg'["xhi"] = o.ret /\ reg'["xlo"] = R.xlo
    BY <2>2, <2>5, Left DEF Regs
  <2>7. fl.cf = Carry(w, R.lo, R.xlo)
    BY <1>11
  <2>8. o.ret = Plus(w, R.xhi, 0 + fl.cf)
    <3>1. ~(fl.cf = 1 /\ 0 = Ones(w) /\ R.xhi # Ones(w))
      BY <1>6
    <3> QED BY <1>5, <3>1, TypedFacts, Sums DEF o
  <2>9. 0 + fl.cf = fl.cf
    BY TypedFacts, FlagTypes
  <2>10. o.ret = Plus(w, R.xhi, Carry(w, R.lo, R.xlo))
    BY <2>7, <2>8, <2>9
  <2> QED BY <1>1, <2>1, <2>5, <2>6, <2>10 DEF Holds
<1> HIDE DEF S0, S1, S2, S3, S4, S5
<1>12. ~S5
  BY <1>1 DEF S5
<1> QED BY <1>1, <1>2, <1>3, <1>7, <1>8, <1>9, <1>10, <1>11, <1>12, Zenon

\* The programs that add and subtract.
Adding == Typed /\ AtWideAdd /\ AtWideSub /\ AtWideNeg /\ AtSavedAdd

\* They are at their first stage at the start.
LEMMA AddingInit == Init => Adding
  BY TypedInit, FreshInit DEF Adding, AtWideAdd, AtWideSub, AtWideNeg, AtSavedAdd

\* And at one of their stages after every step.
LEMMA AddingStep == Adding /\ [Next]_vars => Adding'
<1>1. ASSUME Adding, UNCHANGED vars PROVE Adding'
  <2>1. R' = R /\ w' = w /\ run' = run /\ code' = code /\ trap' = trap /\ reg' = reg /\ fl' = fl
        /\ mask_5bit_shiftcount' = mask_5bit_shiftcount
    BY <1>1 DEF vars, R, w
  <2>2. Typed'
    BY <1>1, <2>1 DEF Adding, Typed, Started, Machine, Program, Registers
  <2>3. AtWideAdd' /\ AtWideSub'
    BY <1>1, <2>1 DEF Adding, AtWideAdd, AtWideSub, Holds, Fresh
  <2>4. AtWideNeg' /\ AtSavedAdd'
    BY <1>1, <2>1 DEF Adding, AtWideNeg, AtSavedAdd, Holds, Fresh
  <2> QED BY <2>2, <2>3, <2>4 DEF Adding
<1> QED BY <1>1, TypedStep, WideAddStep, WideSubStep, WideNegStep, SavedAddStep DEF Adding

\* At their ends the words make up the result.
LEMMA AddingIsWide ==
    ASSUME Adding
    PROVE  WideArithmetic
<1>0. /\ w \in Widths /\ R.hi \in Word(w) /\ R.lo \in Word(w) /\ R.xhi \in Word(w) /\ R.xlo \in Word(w)
      /\ fl \in FlagSet /\ Size(w) \in Nat
      /\ R.lo \in Nat /\ R.xlo \in Nat
  BY TypedFacts, Sizes DEF Adding, Word
<1>1. ASSUME Ended("wide add"), ~SpecialCase(R.lo + R.xlo >= Size(w))
      PROVE  V = (A + X) % Square /\ (fl.cf = 1 <=> A + X >= Square)
  <2> DEFINE k == Carry(w, R.lo, R.xlo)
  <2>1. /\ reg["lo"] = Plus(w, R.lo, R.xlo) /\ fl.cf = Carry(w, R.hi, R.xhi + k)
        /\ (k = 1 /\ R.xhi = Ones(w) /\ R.hi # Ones(w)) \/ reg["hi"] = Plus(w, R.hi, R.xhi + k)
    BY <1>1, Listed DEF Adding, AtWideAdd, Ended, Holds
  <2>2. ~(k = 1 /\ R.xhi = Ones(w) /\ R.hi # Ones(w))
    <3>1. k = 1 => R.lo + R.xlo >= Size(w)
      BY <1>0 DEF Carry
    <3> HIDE DEF k
    <3> QED BY <1>1, <3>1 DEF SpecialCase
  <2>3. V = Joined(w, Plus(w, R.hi, R.xhi + k), Plus(w, R.lo, R.xlo))
    BY <2>1, <2>2 DEF V
  <2>4. A + X = Joined(w, R.hi, R.lo) + Joined(w, R.xhi, R.xlo) /\ Square = Size(w) * Size(w)
    BY DEF A, X, Square
  <2>5. /\ Joined(w, Plus(w, R.hi, R.xhi + k), Plus(w, R.lo, R.xlo))
           = (Joined(w, R.hi, R.lo) + Joined(w, R.xhi, R.xlo)) % (Size(w) * Size(w))
        /\ Carry(w, R.hi, R.xhi + k) = 1 <=> Joined(w, R.hi, R.lo) + Joined(w, R.xhi, R.xlo) >= Size(w) * Size(w)
    BY <1>0, WideSum
  <2> HIDE DEF k
  <2> QED BY <2>1, <2>3, <2>4, <2>5, Zenon
<1>2. ASSUME Ended("wide sub"), ~SpecialCase(R.lo < R.xlo)
      PROVE  V = (A - X) % Square /\ (fl.cf = 1 <=> A < X)
  <2> DEFINE k == Borrow(R.lo, R.xlo)
  <2>1. /\ reg["lo"] = Minus(w, R.lo, R.xlo) /\ fl.cf = Borrow(R.hi, R.xhi + k)
        /\ (k = 1 /\ R.xhi = Ones(w) /\ R.hi # Ones(w)) \/ reg["hi"] = Minus(w, R.hi, R.xhi + k)
    BY <1>2, Listed DEF Adding, AtWideSub, Ended, Holds
  <2>2. ~(k = 1 /\ R.xhi = Ones(w) /\ R.hi # Ones(w))
    <3>1. k = 1 => R.lo < R.xlo
      BY <1>0 DEF Borrow
    <3> HIDE DEF k
    <3> QED BY <1>2, <3>1 DEF SpecialCase
  <2>3. V = Joined(w, Minus(w, R.hi, R.xhi + k), Minus(w, R.lo, R.xlo))
    BY <2>1, <2>2 DEF V
  <2>4. A = Joined(w, R.hi, R.lo) /\ X = Joined(w, R.xhi, R.xlo) /\ Square = Size(w) * Size(w)
    BY DEF A, X, Square
  <2>5. /\ Joined(w, Minus(w, R.hi, R.xhi + k), Minus(w, R.lo, R.xlo))
           = (Joined(w, R.hi, R.lo) - Joined(w, R.xhi, R.xlo)) % (Size(w) * Size(w))
        /\ Borrow(R.hi, R.xhi + k) = 1 <=> Joined(w, R.hi, R.lo) < Joined(w, R.xhi, R.xlo)
    BY <1>0, WideDifference
  <2> HIDE DEF k
  <2> QED BY <2>1, <2>3, <2>4, <2>5, Zenon
<1>3. ASSUME Ended("wide neg") PROVE V = (0 - A) % Square
  <2>1. reg["lo"] = Minus(w, 0, R.lo) /\ reg["hi"] = Plus(w, Ones(w) - R.hi, Borrow(Minus(w, 0, R.lo), 1))
    BY <1>3, Listed DEF Adding, AtWideNeg, Ended, Holds
  <2> QED BY <1>0, <2>1, WideNegation DEF V, A, Square
<1>4. ASSUME Ended("saved add")
      PROVE  Joined(w, reg["xhi"], reg["lo"]) = (Joined(w, R.xhi, R.lo) + R.xlo) % Square
  <2> DEFINE k == Carry(w, R.lo, R.xlo)
  <2>1. reg["lo"] = Plus(w, R.lo, R.xlo) /\ reg["xhi"] = Plus(w, R.xhi, k)
    BY <1>4, Listed DEF Adding, AtSavedAdd, Ended, Holds
  <2>2. k \in {0, 1} /\ 0 \in Word(w)
    BY <1>0, PlusMinus
  <2>3. 0 + k = k /\ Joined(w, 0, R.xlo) = R.xlo
    BY <1>0, <2>2 DEF Joined
  <2>4. Joined(w, Plus(w, R.xhi, 0 + k), Plus(w, R.lo, R.xlo))
        = (Joined(w, R.xhi, R.lo) + Joined(w, 0, R.xlo)) % (Size(w) * Size(w))
    BY <1>0, <2>2, WideSum
  <2> HIDE DEF k
  <2> QED BY <2>1, <2>3, <2>4 DEF Square
<1> QED BY <1>1, <1>2, <1>3, <1>4, Zenon DEF WideArithmetic

\* Limb by limb, with the carry in CF or in AH between them, the numbers as a whole
\* are added, subtracted and negated (the property WideArithmetic).
THEOREM Softx86AluWideArithmetic == Spec => []WideArithmetic
<1> QED BY AddingInit, AddingStep, AddingIsWide, PTL DEF Spec

-----------------------------------------------------------------------------
(***************************************************************************)
(* Shifts and rotations, one after the other.                              *)
(***************************************************************************)
\* Doubling: RCL by one adds a number to itself and to the carry, SHL by one to itself.
LEMMA Doubled ==
    ASSUME NEW v \in Widths, NEW f \in FlagSet, NEW s \in Word(v)
    PROVE  /\ op_rcl(v, f, s, 1).ret = Plus(v, s, s + f.cf)
           /\ op_rcl(v, f, s, 1).fl.cf = Carry(v, s, s + f.cf)
           /\ op_shl(v, f, s, 1).ret = Plus(v, s, s) /\ op_shl(v, f, s, 1).fl.cf = Carry(v, s, s)
           /\ \A c \in {0, 1} : Carry(v, s, s + c) = Msb(v, s)
<1> DEFINE n == Size(v)
           h == Half(v)
           l == op_rcl(v, f, s, 1)
           x == l.ret
           c == l.fl.cf
           u == s + f.cf
<1>1. /\ n \in Nat /\ h \in Nat /\ h > 0 /\ n = 2 * h /\ s \in 0..(n - 1) /\ Ones(v) = n - 1
      /\ f.cf \in {0, 1} /\ 1 \in Word(v)
  BY Sizes, FlagTypes DEF Word
<1>2. c * n + x = 2 * s + f.cf
  BY RotatedByOne
<1>3. Fits(v, l)
  BY <1>1, CarryRotationsFit
<1>4. x \in 0..(n - 1) /\ c \in {0, 1}
  BY <1>1, <1>3, FlagTypes DEF Fits, Word
<1>5. /\ Plus(v, s, u) = (IF s + u < n THEN s + u ELSE (s + u) - n)
      /\ Carry(v, s, u) = (IF s + u < n THEN 0 ELSE 1)
  BY DEF Plus, Carry
<1> HIDE DEF x, c, l, n, h
<1>6. x = Plus(v, s, u) /\ c = Carry(v, s, u)
  <2>1. u \in Int /\ s + u = 2 * s + f.cf /\ s + u < 2 * n
    BY <1>1
  <2>2. CASE c = 0
    BY <1>1, <1>2, <1>4, <1>5, <2>1, <2>2
  <2>3. CASE c = 1
    BY <1>1, <1>2, <1>4, <1>5, <2>1, <2>3
  <2> QED BY <1>4, <2>2, <2>3
<1>7. Msb(v, s) = IF s >= h THEN 1 ELSE 0
  BY SignBit DEF h
<1>8. \A k \in {0, 1} : Carry(v, s, s + k) = Msb(v, s)
  <2>1. ASSUME NEW k \in {0, 1} PROVE Carry(v, s, s + k) = Msb(v, s)
    <3>1. Carry(v, s, s + k) = IF s + (s + k) < n THEN 0 ELSE 1
      BY DEF Carry, n
    <3> QED BY <1>1, <1>7, <3>1
  <2> QED BY <2>1
<1>9. op_shl(v, f, s, 1).ret = Plus(v, s, s) /\ op_shl(v, f, s, 1).fl.cf = Msb(v, s)
  <2>1. Bits(v) \in Nat /\ Bits(v) >= 8 /\ Pow2[0] = 1 /\ Pow2[1] = 2
    BY Sizes, Powers, SmallPowers
  <2>2. ShiftLeft(v, s, 0) = s
    <3>1. ShiftLeft(v, s, 0) = (s * 1) % n
      BY <2>1 DEF ShiftLeft, n
    <3>2. s * 1 = s /\ s % n = s
      BY <1>1, Cut DEF n
    <3> QED BY <3>1, <3>2
  <2>3. ShiftLeft(v, s, 1) = (2 * s) % n
    <3>1. ShiftLeft(v, s, 1) = (s * 2) % n
      BY <2>1 DEF ShiftLeft, n
    <3> QED BY <1>1, <3>1
  <2>4. (2 * s) % n = Plus(v, s, s)
    <3>1. 2 * s \in Int /\ 2 * s < 2 * n /\ 2 * s >= 0
      BY <1>1
    <3>2. (2 * s) % n = IF 2 * s < n THEN 2 * s ELSE 2 * s - n
      <4>1. ASSUME NEW z \in Int
            PROVE  /\ (z \in 0..(n - 1) => z % n = z)
                   /\ (z >= n /\ z < 2 * n => z % n = z - n)
        BY <1>1, Cut DEF n
      <4> DEFINE z == 2 * s
      <4>2. z \in Int /\ z < 2 * n /\ z >= 0
        BY <3>1
      <4> HIDE DEF z
      <4>3. z % n = IF z < n THEN z ELSE z - n
        BY <1>1, <4>1, <4>2
      <4> QED BY <4>3 DEF z
    <3>3. Plus(v, s, s) = IF s + s < n THEN s + s ELSE (s + s) - n
      BY DEF Plus, n
    <3> QED BY <1>1, <3>2, <3>3
  <2>5. 1 - 1 = 0 /\ 1 # 0
    OBVIOUS
  <2> QED BY <2>2, <2>3, <2>4, <2>5 DEF op_shl, Outcome, Flags
<1>10. s + 0 = s
  BY <1>1
<1> QED BY <1>6, <1>8, <1>9, <1>10 DEF x, c, l

\* Halving: SHR and SAR by one.
LEMMA Halved ==
    ASSUME NEW v \in Widths, NEW f \in FlagSet, NEW s \in Word(v)
    PROVE  /\ op_shr(v, f, s, 1).ret = s \div 2 /\ op_shr(v, f, s, 1).fl.cf = s % 2
           /\ op_sar(v, f, s, 1).fl.cf = s % 2
           /\ v = "byte" => op_sar(v, f, s, 1).ret = (s \div 2) + 128 * Msb(v, s)
<1>1. ShiftRight(v, s, 0) = s
  <2>1. 0 \in Nat /\ Pow2[0] = 1
    BY Powers
  <2>2. ShiftRight(v, s, 0) = s \div Pow2[0]
    BY <2>1, ShiftsRight
  <2>3. s \div 1 = s
    BY SignBit
  <2> QED BY <2>1, <2>2, <2>3
<1>2. 1 - 1 = 0 /\ 1 # 0
  OBVIOUS
<1>3. ASSUME NEW fill
      PROVE  /\ ShiftedRight(v, f, s, 1, fill).ret = (s \div 2) + fill
             /\ ShiftedRight(v, f, s, 1, fill).fl.cf = s % 2
  BY <1>1, <1>2 DEF ShiftedRight, Outcome, Flags
<1>4. op_shr(v, f, s, 1).ret = s \div 2 /\ op_shr(v, f, s, 1).fl.cf = s % 2
  <2>1. (s \div 2) + 0 = s \div 2
    BY SignBit
  <2> QED BY <1>3, <2>1 DEF op_shr
<1>5. op_sar(v, f, s, 1).fl.cf = s % 2
  BY <1>3, Zenon DEF op_sar
<1>6. ASSUME v = "byte" PROVE op_sar(v, f, s, 1).ret = (s \div 2) + 128 * Msb(v, s)
  <2> DEFINE fill == IF v = "byte" /\ Msb(v, s) = 1 /\ 1 <= ByteBits THEN Size(v) - Pow2[ByteBits - 1] ELSE 0
  <2>1. op_sar(v, f, s, 1).ret = (s \div 2) + fill
    BY <1>3, Zenon DEF op_sar
  <2>2. Size(v) = 256 /\ Pow2[ByteBits - 1] = 128 /\ 1 <= ByteBits
    <3>1. ByteBits - 1 = 7 /\ 1 <= ByteBits
      BY DEF ByteBits
    <3> QED BY <1>6, <3>1, Sizes, SmallPowers
  <2>3. Msb(v, s) \in {0, 1}
    BY SignBit
  <2>4. fill = 128 * Msb(v, s)
    BY <1>6, <2>2, <2>3
  <2> QED BY <2>1, <2>4
<1> QED BY <1>4, <1>5, <1>6

\* Halves of a number of two words.
LEMMA WideHalf ==
    ASSUME NEW v \in Widths, NEW a \in Word(v), NEW b \in Word(v)
    PROVE  /\ Joined(v, a \div 2, Half(v) * (a % 2) + (b \div 2)) = Joined(v, a, b) \div 2
           /\ (v = "byte" => Joined(v, (a \div 2) + 128 * Msb(v, a), Half(v) * (a % 2) + (b \div 2))
                             = (SignedJoined(v, a, b) \div 2) % (Size(v) * Size(v)))
<1> DEFINE n == Size(v)
           h == Half(v)
           p == a \div 2
           q == a % 2
           r == b \div 2
           s == b % 2
           y == p * n + (h * q + r)
           x == a * n + b
<1>1. /\ n \in Nat /\ h \in Nat /\ h > 0 /\ n = 2 * h /\ a \in 0..(n - 1) /\ b \in 0..(n - 1)
      /\ (v = "byte" => h = 128)
  BY Sizes DEF Word
<1>2. p \in Nat /\ q \in {0, 1} /\ r \in Nat /\ s \in {0, 1} /\ a = 2 * p + q /\ b = 2 * r + s
  BY <1>1
<1> HIDE DEF n, h, p, q, r, s
<1>3. y \in Int /\ x = 2 * y + s
  <2>1. a * n = 2 * (p * n) + q * n /\ q * n = 2 * (h * q)
    BY <1>1, <1>2
  <2>2. p * n \in Int /\ h * q \in Int
    BY <1>1, <1>2
  <2> QED BY <1>2, <2>1, <2>2
<1>4. x \div 2 = y
  <2>1. x \in Int /\ s \in 0..(2 - 1)
    BY <1>2, <1>3
  <2> HIDE DEF x, y
  <2> QED BY <1>3, <2>1, DivModUnique
<1>5. Joined(v, p, h * q + r) = y /\ Joined(v, a, b) = x
  BY DEF Joined, n
<1> HIDE DEF x, y
<1>6. ASSUME v = "byte"
      PROVE  Joined(v, p + 128 * Msb(v, a), h * q + r) = (SignedJoined(v, a, b) \div 2) % (n * n)
  <2> DEFINE m == Msb(v, a)
             z == SignedJoined(v, a, b)
             g == h * n
             k == n * n
             pn == p * n
             hq == h * q
  <2>1. h = 128
    BY <1>1, <1>6
  <2>2. m = (IF a >= h THEN 1 ELSE 0) /\ m \in {0, 1}
    BY SignBit DEF h
  <2>3. g \in Nat /\ g > 0 /\ k = 2 * g
    BY <1>1
  <2>4. y = pn + (hq + r) /\ pn <= g - n /\ pn >= 0 /\ pn \in Int /\ hq >= 0 /\ hq <= h /\ hq \in Int /\ r <= h - 1
    <3>1. p <= h - 1 /\ r <= h - 1
      BY <1>1, <1>2
    <3>2. p * n <= (h - 1) * n /\ p * n >= 0 /\ p * n \in Int
      BY <1>1, <1>2, <3>1
    <3>3. (h - 1) * n = g - n
      BY <1>1
    <3>4. hq = IF q = 1 THEN h ELSE 0
      BY <1>1, <1>2
    <3>5. y = pn + (hq + r)
      BY DEF y
    <3> HIDE DEF pn, hq, g
    <3> QED BY <1>1, <3>1, <3>2, <3>3, <3>4, <3>5 DEF pn
  <2>5. z = x - (IF m = 1 THEN k ELSE 0)
    <3>1. z = Signed(v, a) * n + b /\ Signed(v, a) = (IF a >= h THEN a - n ELSE a)
      BY SignedWord DEF SignedJoined, n, h
    <3>2. x = a * n + b
      BY DEF x
    <3>3. (a - n) * n = a * n - k /\ a * n \in Int /\ k \in Int
      BY <1>1
    <3> HIDE DEF z, m, k
    <3> QED BY <1>1, <2>2, <3>1, <3>2, <3>3
  <2>6. Joined(v, p + 128 * m, h * q + r) = y + (IF m = 1 THEN g ELSE 0)
    <3>1. Joined(v, p + 128 * m, h * q + r) = (p + h * m) * n + (hq + r)
      BY <2>1 DEF Joined, n
    <3>2. (p + h * m) * n = pn + (IF m = 1 THEN g ELSE 0)
      <4>1. ASSUME NEW u \in {0, 1} PROVE (p + h * u) * n = p * n + (IF u = 1 THEN h * n ELSE 0)
        <5>1. h * u = IF u = 1 THEN h ELSE 0
          BY <1>1
        <5>2. (p + h) * n = p * n + h * n /\ (p + 0) * n = p * n + 0
          BY <1>1, <1>2
        <5> QED BY <5>1, <5>2
      <4> QED BY <2>2, <4>1
    <3> HIDE DEF pn, hq, g, m
    <3> QED BY <1>2, <2>3, <2>4, <3>1, <3>2
  <2> HIDE DEF m, z, g, k, pn, hq
  <2>7. y >= 0 /\ y < g /\ y \in Int /\ x \in Int
    <3>1. g - n + (h + (h - 1)) = g - 1
      BY <1>1, <2>3
    <3>2. y >= 0 /\ y <= (g - n) + (h + (h - 1))
      BY <1>1, <1>2, <2>3, <2>4
    <3>3. g - n \in Int /\ y \in Int /\ x \in Int
      BY <1>1, <1>2, <1>3, <2>3
    <3> QED BY <1>1, <2>3, <3>1, <3>2, <3>3
  <2>8. z \div 2 = y - (IF m = 1 THEN g ELSE 0)
    <3> DEFINE e == y - (IF m = 1 THEN g ELSE 0)
    <3>1. e \in Int /\ z = 2 * e + s
      BY <1>2, <1>3, <2>3, <2>5, <2>7
    <3>2. s \in 0..(2 - 1) /\ z \in Int
      BY <1>2, <3>1
    <3> HIDE DEF e
    <3>3. z \div 2 = e
      BY <3>1, <3>2, DivModUnique
    <3> QED BY <3>3 DEF e
  <2>9. (y - (IF m = 1 THEN g ELSE 0)) % k = y + (IF m = 1 THEN g ELSE 0)
    <3>1. CASE m = 1
      <4> DEFINE e == y - g
                 f == y + g
      <4>1. e \in Int /\ e = k * (-1) + f /\ f \in 0..(k - 1) /\ k \in Nat /\ k > 0
        BY <2>3, <2>7
      <4> HIDE DEF e, f
      <4>2. e % k = f
        BY <4>1, DivModUnique
      <4> QED BY <3>1, <4>2 DEF e, f
    <3>2. CASE m = 0
      <4>1. y = k * 0 + y /\ y \in 0..(k - 1) /\ k \in Nat /\ k > 0
        BY <2>3, <2>7
      <4>2. y % k = y
        BY <2>7, <4>1, DivModUnique
      <4> QED BY <2>7, <3>2, <4>2
    <3> QED BY <2>2, <3>1, <3>2 DEF m
  <2> QED BY <2>6, <2>8, <2>9 DEF z, m, k
<1> QED BY <1>4, <1>5, <1>6 DEF p, q, r, h, n

\* Rotated by no place, a number is as it was; rotated by one place less than all, a
\* rotation goes one place back.
LEMMA RotatedBack ==
    ASSUME NEW bits \in Nat, bits > 0, NEW x \in 0..(Pow2[bits] - 1)
    PROVE  /\ RotatedLeft(x, 0, bits) = x
           /\ \A n \in Nat : n + 1 <= bits =>
                 RotatedLeft(RotatedLeft(x, n + 1, bits), bits - 1, bits) = RotatedLeft(x, n, bits)
<1>1. RotatedLeft(x, 0, bits) = x
  <2>1. 0 \in 0..bits /\ bits - 0 = bits /\ Pow2[0] = 1 /\ Pow2[bits] \in Nat
    BY Powers
  <2>2. 0 \in 0..(Pow2[0] - 1) /\ x \in 0..(Pow2[bits - 0] - 1)
    BY <2>1
  <2>3. RotatedLeft(Pow2[bits - 0] * 0 + x, 0, bits) = Pow2[0] * x + 0
    BY <2>1, <2>2, Rotation
  <2>4. Pow2[bits - 0] * 0 + x = x /\ Pow2[0] * x + 0 = x
    BY <2>1
  <2> QED BY <2>3, <2>4
<1>2. ASSUME NEW n \in Nat, n + 1 <= bits
      PROVE  RotatedLeft(RotatedLeft(x, n + 1, bits), bits - 1, bits) = RotatedLeft(x, n, bits)
  <2> DEFINE m == n + 1
             k == bits - m
  <2>1. m \in 0..bits /\ n \in 0..bits /\ bits - 1 \in 0..bits /\ k \in Nat /\ bits - (bits - 1) = 1
        /\ bits - n = k + 1 /\ bits - 1 = n + k
    BY <1>2
  <2> HIDE DEF m
  <2>2. PICK q \in 0..(Pow2[m] - 1), r \in 0..(Pow2[bits - m] - 1) : x = Pow2[bits - m] * q + r
    BY <2>1, TwoParts
  <2> DEFINE c == q \div 2
             d == q % 2
             P == Pow2[k]
             N == Pow2[n]
             y == Pow2[m] * r + q
  <2>3. RotatedLeft(x, m, bits) = y
    BY <2>1, <2>2, Rotation
  <2>4. /\ P \in Nat /\ P > 0 /\ N \in Nat /\ N > 0 /\ Pow2[m] = 2 * N /\ Pow2[k + 1] = 2 * P
        /\ Pow2[1] = 2 /\ Pow2[n + k] = N * P
    <3>1. m = n + 1
      BY DEF m
    <3> HIDE DEF k
    <3>2. Pow2[k] \in Nat /\ Pow2[k] > 0 /\ Pow2[n] \in Nat /\ Pow2[n] > 0
      BY <2>1, Powers
    <3>3. Pow2[n + 1] = 2 * Pow2[n] /\ Pow2[k + 1] = 2 * Pow2[k] /\ Pow2[1] = 2
      BY <2>1, Powers, SmallPowers
    <3>4. Pow2[n + k] = Pow2[n] * Pow2[k]
      BY <2>1, PowerOfSum
    <3> QED BY <3>1, <3>2, <3>3, <3>4
  <2>5. c \in 0..(N - 1) /\ d \in {0, 1} /\ q = 2 * c + d /\ r \in 0..(P - 1)
    <3>1. q \in 0..(2 * N - 1)
      BY <2>4
    <3>2. r \in 0..(P - 1)
      OBVIOUS
    <3> HIDE DEF N, P
    <3> QED BY <2>4, <3>1, <3>2
  <2> HIDE DEF c, d, P, N, k, y
  <2>6. N * r + c \in 0..(N * P - 1)
    <3>1. N * r <= N * (P - 1)
      BY <2>4, <2>5
    <3>2. N * (P - 1) = N * P - N /\ N * r \in Nat /\ N * P \in Nat
      BY <2>4, <2>5
    <3> DEFINE e == N * r
               g == N * P
    <3>3. e <= g - N /\ e \in Nat /\ g \in Nat
      BY <3>1, <3>2
    <3> HIDE DEF e, g
    <3>4. e + c \in 0..(g - 1)
      BY <2>4, <2>5, <3>3
    <3> QED BY <3>4 DEF e, g
  <2>7. RotatedLeft(y, bits - 1, bits) = (N * P) * d + (N * r + c)
    <3>1. N * r + c \in 0..(Pow2[bits - 1] - 1) /\ d \in 0..(Pow2[bits - (bits - 1)] - 1)
      BY <2>1, <2>4, <2>5, <2>6
    <3>2. RotatedLeft(Pow2[bits - (bits - 1)] * (N * r + c) + d, bits - 1, bits)
          = Pow2[bits - 1] * d + (N * r + c)
      BY <2>1, <3>1, Rotation
    <3>3. Pow2[bits - (bits - 1)] * (N * r + c) + d = y
      <4>1. y = (2 * N) * r + q
        BY <2>4 DEF y
      <4>2. (2 * N) * r = 2 * (N * r) /\ N * r \in Int
        BY <2>4, <2>5
      <4>3. 2 * (N * r + c) = 2 * (N * r) + 2 * c
        BY <2>4, <2>5, <4>2
      <4>4. Pow2[bits - (bits - 1)] * (N * r + c) = 2 * (N * r + c)
        BY <2>1, <2>4
      <4> DEFINE e == N * r
                 g == (2 * N) * r
      <4>5. g = 2 * e /\ e \in Int /\ y = g + q /\ 2 * (e + c) = 2 * e + 2 * c
        BY <4>1, <4>2, <4>3
      <4> HIDE DEF e, g
      <4>6. 2 * (e + c) + d = y
        BY <2>5, <4>5
      <4> QED BY <4>4, <4>6 DEF e
    <3> QED BY <2>1, <2>4, <3>2, <3>3
  <2>8. RotatedLeft(x, n, bits) = N * (P * d + r) + c
    <3>1. c \in 0..(Pow2[n] - 1)
      BY <2>5 DEF N
    <3>2. P * d + r \in 0..(Pow2[bits - n] - 1)
      BY <2>1, <2>4, <2>5
    <3>3. RotatedLeft(Pow2[bits - n] * c + (P * d + r), n, bits) = Pow2[n] * (P * d + r) + c
      BY <2>1, <3>1, <3>2, Rotation
    <3>4. x = P * q + r
      BY <2>2 DEF P, k
    <3>5. P * q = (2 * P) * c + P * d
      BY <2>4, <2>5
    <3>6. Pow2[bits - n] * c + (P * d + r) = x
      <4>1. Pow2[bits - n] = 2 * P
        BY <2>1, <2>4
      <4>2. (2 * P) * c \in Int /\ P * d \in Int /\ r \in Int
        BY <2>4, <2>5
      <4> QED BY <3>4, <3>5, <4>1, <4>2
    <3> QED BY <3>3, <3>6 DEF N
  <2>9. N * (P * d + r) + c = (N * P) * d + (N * r + c)
    <3>1. N * (P * d + r) = (N * P) * d + N * r
      BY <2>4, <2>5
    <3>2. (N * P) * d \in Int /\ N * r \in Int
      BY <2>4, <2>5
    <3> QED BY <2>5, <3>1, <3>2
  <2> QED BY <2>3, <2>7, <2>8, <2>9 DEF m
<1> QED BY <1>1, <1>2

\* A number shifted left keeps what is not shifted out; shifted back, it has lost the rest.
LEMMA ShiftedLeft ==
    ASSUME NEW v \in Widths, NEW f \in FlagSet, NEW s \in Word(v), NEW n \in 0..Bits(v)
    PROVE  LET r == s % Pow2[Bits(v) - n]
           IN  /\ r \in 0..(Pow2[Bits(v) - n] - 1) /\ op_shl(v, f, s, n).ret = Pow2[n] * r
               /\ Pow2[n] * r \in Word(v)
<1> DEFINE b == Bits(v)
           P == Pow2[n]
           Q == Pow2[b - n]
           z == Size(v)
           q == s \div Q
           r == s % Q
<1>1. b \in Nat /\ b >= 8 /\ n \in 0..b /\ b - n \in Nat /\ n \in Nat
  BY Sizes
<1>2. P \in Nat /\ P > 0 /\ Q \in Nat /\ Q > 0 /\ z = P * Q /\ z \in Nat /\ z > 0
  <2>1. P \in Nat /\ P > 0 /\ Q \in Nat /\ Q > 0
    BY <1>1, Powers
  <2>2. Pow2[b] = P * Q
    BY <1>1, PowersGrow
  <2>3. z = Pow2[b] /\ z \in Nat /\ z > 0
    BY Sizes DEF Size
  <2> QED BY <2>1, <2>2, <2>3
<1>3. s \in 0..(z - 1) /\ Word(v) = 0..(z - 1)
  BY Sizes DEF Word
<1> HIDE DEF P, Q, z, b
<1>4. q \in Int /\ r \in 0..(Q - 1) /\ s = Q * q + r /\ s \in Int
  BY <1>2, <1>3, DivMod
<1> HIDE DEF q, r
<1>5. P * r \in 0..(z - 1) /\ s * P = z * q + P * r
  <2>1. P * r <= P * (Q - 1) /\ P * (Q - 1) = P * Q - P /\ P * r >= 0 /\ P * r \in Int
    BY <1>2, <1>4
  <2>2. s * P = (Q * q) * P + r * P /\ (Q * q) * P = (P * Q) * q /\ r * P = P * r
    BY <1>2, <1>4
  <2>3. P * r \in 0..(z - 1)
    BY <1>2, <2>1
  <2>4. s * P = z * q + P * r
    BY <1>2, <2>2
  <2> QED BY <2>3, <2>4
<1>6. CASE n = 0
  <2>1. P = 1 /\ Q = z
    BY <1>1, <1>2, <1>6, Powers DEF P
  <2>2. s = z * 0 + s
    BY <1>2, <1>3
  <2>3. s % Q = s
    BY <1>2, <1>3, <2>1, <2>2, DivModUnique
  <2>4. op_shl(v, f, s, n).ret = s
    BY <1>6 DEF op_shl, Unchanged
  <2>5. P * r = s /\ r = s
    BY <1>3, <2>1, <2>3 DEF r
  <2> QED BY <1>4, <1>5, <1>3, <2>4, <2>5 DEF r, P, Q, b
<1>7. CASE n # 0
  <2> DEFINE m == n - 1
             H == Pow2[m]
             part == (s * H) % z
             d == (s * H) \div z
  <2>1. m \in Nat /\ m < b /\ n = m + 1
    BY <1>1, <1>7
  <2>2. H \in Nat /\ H > 0 /\ P = 2 * H
    <3>1. \A k \in Nat : Pow2[k] \in Nat /\ Pow2[k] > 0 /\ Pow2[k + 1] = 2 * Pow2[k]
      BY Powers
    <3> HIDE DEF m
    <3>2. Pow2[n] = 2 * Pow2[m]
      BY <2>1, <3>1
    <3> QED BY <2>1, <3>1, <3>2 DEF P
  <2>3. ShiftLeft(v, s, m) = part
    <3>1. ~(m >= Bits(v))
      BY <1>1, <2>1 DEF b
    <3> QED BY <3>1 DEF ShiftLeft, z
  <2>4. ShiftLeft(v, part, 1) = (part * 2) % z
    <3>1. ~(1 >= Bits(v)) /\ Pow2[1] = 2
      BY <1>1, SmallPowers DEF b
    <3> QED BY <3>1 DEF ShiftLeft, z
  <2>5. op_shl(v, f, s, n).ret = (part * 2) % z
    BY <1>7, <2>3, <2>4 DEF op_shl, Outcome
  <2> HIDE DEF H, m
  <2>6. s * H \in Int
    BY <1>3, <2>2
  <2>7. part \in Int /\ d \in Int /\ s * H = z * d + part
    <3> DEFINE e == s * H
    <3>1. e \in Int
      BY <2>6
    <3> HIDE DEF e
    <3>2. e % z \in 0..(z - 1) /\ e \div z \in Int /\ e = z * (e \div z) + (e % z)
      BY <1>2, <3>1, DivMod
    <3>3. e % z \in Int
      BY <1>2, <3>2
    <3> QED BY <3>2, <3>3 DEF e
  <2> HIDE DEF part, d
  <2>8. part * 2 = z * (q - 2 * d) + P * r
    <3>1. s * P = 2 * (s * H)
      BY <1>3, <2>2
    <3>2. z * (q - 2 * d) = z * q - 2 * (z * d)
      BY <1>2, <1>4, <2>7
    <3> DEFINE sH == s * H
               sP == s * P
               zq == z * q
               zd == z * d
               Pr == P * r
    <3>3. sP = 2 * sH /\ sH = zd + part /\ sP = zq + Pr
      BY <1>5, <2>7, <3>1
    <3>4. zq \in Int /\ zd \in Int /\ Pr \in Int
      BY <1>2, <1>4, <1>5, <2>7
    <3> HIDE DEF sH, sP, zq, zd, Pr
    <3>5. part * 2 = (zq - 2 * zd) + Pr
      BY <2>7, <3>3, <3>4
    <3> QED BY <3>2, <3>5 DEF zq, zd, Pr
  <2>9. (part * 2) % z = P * r
    <3> DEFINE e == q - 2 * d
               g == P * r
    <3>1. e \in Int /\ part * 2 \in Int /\ part * 2 = z * e + g /\ g \in 0..(z - 1)
      BY <1>4, <1>5, <2>7, <2>8
    <3> HIDE DEF e, g
    <3> QED BY <1>2, <3>1, DivModUnique DEF g
  <2> QED BY <1>3, <1>4, <1>5, <2>5, <2>9 DEF P, Q, b, r
<1> QED BY <1>6, <1>7

\* And shifted back to the right, what is left of it.
LEMMA ShiftedBack ==
    ASSUME NEW v \in Widths, NEW f \in FlagSet, NEW n \in 0..Bits(v), NEW r \in Nat,
           Pow2[n] * r \in Word(v)
    PROVE  op_shr(v, f, Pow2[n] * r, n).ret = r
<1> DEFINE P == Pow2[n]
           s == P * r
<1>1. n \in Nat /\ P \in Nat /\ P > 0 /\ s \in Word(v)
  BY Powers, Sizes
<1>2. CASE n = 0
  <2>1. P = 1
    BY <1>2, Powers
  <2>2. s = r
    BY <2>1
  <2> HIDE DEF s
  <2>3. op_shr(v, f, s, n).ret = s
    BY <1>2 DEF op_shr, ShiftedRight, Unchanged
  <2> QED BY <2>2, <2>3 DEF s
<1>3. CASE n # 0
  <2> DEFINE m == n - 1
             H == Pow2[m]
  <2>1. m \in Nat /\ n = m + 1
    BY <1>1, <1>3
  <2>2. H \in Nat /\ H > 0 /\ P = 2 * H
    <3>1. \A k \in Nat : Pow2[k] \in Nat /\ Pow2[k] > 0 /\ Pow2[k + 1] = 2 * Pow2[k]
      BY Powers
    <3> HIDE DEF m
    <3>2. Pow2[n] = 2 * Pow2[m]
      BY <2>1, <3>1
    <3> QED BY <2>1, <3>1, <3>2
  <2>3. ShiftRight(v, s, m) = s \div H
    <3> HIDE DEF s, m
    <3> QED BY <1>1, <2>1, ShiftsRight
  <2>4. s \div H = 2 * r
    <3> HIDE DEF H
    <3> DEFINE e == 2 * r
    <3>1. s = H * e + 0 /\ e \in Int /\ s \in Int
      <4>1. (2 * H) * r = H * (2 * r) /\ (2 * H) * r \in Int
        BY <2>2
      <4>2. s = (2 * H) * r
        BY <2>2
      <4> QED BY <4>1, <4>2
    <3> HIDE DEF e, s
    <3>2. 0 \in 0..(H - 1)
      BY <2>2
    <3> QED BY <2>2, <3>1, <3>2, DivModUnique DEF e
  <2>5. ((2 * r) \div 2) + 0 = r
    OBVIOUS
  <2>6. op_shr(v, f, s, n).ret = (ShiftRight(v, s, m) \div 2) + 0
    BY <1>3 DEF op_shr, ShiftedRight, Outcome
  <2> HIDE DEF s, m, H
  <2>7. op_shr(v, f, s, n).ret = r
    BY <2>3, <2>4, <2>5, <2>6
  <2> QED BY <2>7 DEF s
<1> QED BY <1>2, <1>3

\* XOR with a number undoes XOR with it.
LEMMA XorBack ==
    ASSUME NEW v \in Widths, NEW f \in FlagSet, NEW g \in FlagSet, NEW a \in Word(v), NEW b \in Word(v)
    PROVE  LET x == op_xor(v, f, a, b).ret
           IN  x \in Word(v) /\ op_xor(v, g, b, x).ret = a /\ op_xor(v, g, x, a).ret = b
<1> DEFINE x == op_xor(v, f, a, b).ret
           y == op_xor(v, g, b, x).ret
           z == op_xor(v, g, x, a).ret
<1>1. x \in Word(v) /\ \A k \in Places(v) : BitAt(x, k) = Xor(BitAt(a, k), BitAt(b, k))
  BY LogicFits DEF Fits
<1> HIDE DEF x
<1>2. y \in Word(v) /\ \A k \in Places(v) : BitAt(y, k) = Xor(BitAt(b, k), BitAt(x, k))
  BY <1>1, LogicFits DEF Fits
<1>3. z \in Word(v) /\ \A k \in Places(v) : BitAt(z, k) = Xor(BitAt(x, k), BitAt(a, k))
  BY <1>1, LogicFits DEF Fits
<1> HIDE DEF y, z
<1>4. \A c \in {0, 1}, d \in {0, 1} : Xor(d, Xor(c, d)) = c /\ Xor(Xor(c, d), c) = d
  BY DEF Xor
<1>5. ASSUME NEW k \in Places(v)
      PROVE  BitAt(a, k) \in {0, 1} /\ BitAt(b, k) \in {0, 1}
  <2>1. k \in Nat /\ a \in Nat /\ b \in Nat
    BY Sizes DEF Places, Word
  <2> QED BY <2>1, BitRange
<1>6. \A k \in Places(v) : BitAt(y, k) = BitAt(a, k) /\ BitAt(z, k) = BitAt(b, k)
  BY <1>1, <1>2, <1>3, <1>4, <1>5
<1>7. y = a /\ z = b
  BY <1>2, <1>3, <1>6, SameBits
<1> QED BY <1>1, <1>7 DEF x, y, z

\* ROR undoes ROL.
LEMMA RolRor ==
    ASSUME NEW v \in Widths, NEW f \in FlagSet, NEW g \in FlagSet, NEW s \in Word(v), NEW u \in Word(v)
    PROVE  op_ror(v, g, op_rol(v, f, s, u).ret, u).ret = s
<1> DEFINE b == Bits(v)
           n == u % b
           x == op_rol(v, f, s, u).ret
<1>1. b \in Nat /\ b > 0 /\ u \in Int /\ Word(v) = 0..(Pow2[b] - 1)
  BY Sizes DEF Word, Ones, Size
<1>2. n \in 0..(b - 1)
  BY <1>1, DivMod
<1>3. x \in Word(v)
  BY RotationsFit DEF Fits
<1>4. x = RotatedLeft(s, n, b) \/ n = 0
  BY RotationsFit
<1>5. n = 0 => x = s
  BY RotationsFit
<1> HIDE DEF x
<1>6. op_ror(v, g, x, u).ret = RotatedLeft(x, b - n, b) \/ n = 0
  BY <1>3, RotationsFit
<1>7. n = 0 => op_ror(v, g, x, u).ret = x
  BY <1>3, RotationsFit
<1> HIDE DEF n, b
<1>8. n \in 0..b /\ s \in 0..(Pow2[b] - 1)
  BY <1>1, <1>2
<1>9. RotatedLeft(RotatedLeft(s, n, b), b - n, b) = s
  BY <1>1, <1>8, RotationUndone
<1>10. op_ror(v, g, x, u).ret = s
  BY <1>4, <1>5, <1>6, <1>7, <1>9
<1> QED BY <1>10 DEF x

\* RCL and RCR turn CF and the operand together, one way and back.
LEMMA CarryTurned ==
    ASSUME NEW v \in Widths, NEW f \in FlagSet, NEW s \in Word(v), NEW u \in Word(v)
    PROVE  LET b == Bits(v) + 1
               n == u % b
               l == op_rcl(v, f, s, u)
               r == op_rcr(v, f, s, u)
               T == Through(v, f, s)
           IN  /\ b \in Nat /\ b > 0 /\ n \in 0..(b - 1) /\ T \in 0..(Pow2[b] - 1)
               /\ Fits(v, l) /\ Fits(v, r)
               /\ Through(v, l.fl, l.ret) = RotatedLeft(T, n, b)
               /\ Through(v, r.fl, r.ret) = IF n = 0 THEN T ELSE RotatedLeft(T, b - n, b)
<1> DEFINE b == Bits(v) + 1
           n == u % b
           l == op_rcl(v, f, s, u)
           r == op_rcr(v, f, s, u)
           T == Through(v, f, s)
<1>1. b \in Nat /\ b > 0 /\ u \in Int
  BY Sizes DEF Word
<1>2. n \in 0..(b - 1)
  BY <1>1, DivMod
<1>3. T \in 0..(Pow2[b] - 1)
  BY WithCarry, FlagTypes DEF Through
<1>4. /\ Fits(v, l) /\ Fits(v, r)
      /\ n = 0 => l = Unchanged(f, s) /\ r = Unchanged(f, s)
      /\ n # 0 => /\ Through(v, l.fl, l.ret) = RotatedLeft(T, n, b)
                  /\ Through(v, r.fl, r.ret) = RotatedLeft(T, b - n, b)
  BY CarryRotationsFit DEF Turned
<1>5. Unchanged(f, s).fl = f /\ Unchanged(f, s).ret = s
  BY DEF Unchanged
<1> HIDE DEF n, b, l, r
<1>6. RotatedLeft(T, 0, b) = T
  BY <1>1, <1>3, RotatedBack
<1>7. n = 0 => Through(v, l.fl, l.ret) = T /\ Through(v, r.fl, r.ret) = T
  BY <1>4, <1>5
<1> QED BY <1>1, <1>2, <1>3, <1>4, <1>6, <1>7 DEF n, b, l, r

\* CF and the operand are what they make up.
LEMMA ThroughParts ==
    ASSUME NEW v \in Widths, NEW f \in FlagSet, NEW g \in FlagSet, NEW s \in Word(v), NEW u \in Word(v),
           Through(v, f, s) = Through(v, g, u)
    PROVE  s = u /\ f.cf = g.cf
<1>1. f.cf \in {0, 1} /\ g.cf \in {0, 1}
  BY FlagTypes
<1>2. /\ (f.cf * Size(v) + s) % Size(v) = s /\ (f.cf * Size(v) + s) \div Size(v) = f.cf
      /\ (g.cf * Size(v) + u) % Size(v) = u /\ (g.cf * Size(v) + u) \div Size(v) = g.cf
  BY <1>1, WithCarry
<1>3. f.cf * Size(v) + s = g.cf * Size(v) + u
  BY DEF Through
<1> DEFINE a == f.cf * Size(v) + s
           b == g.cf * Size(v) + u
           z == Size(v)
<1>4. a % z = s /\ a \div z = f.cf /\ b % z = u /\ b \div z = g.cf /\ a = b
  BY <1>2, <1>3
<1> HIDE DEF a, b, z
<1> QED BY <1>4

\* A count of 1 is 1, and one up to the width is what CL holds, whatever the bug switch says.
LEMMA ShiftCounts ==
    ASSUME Typed
    PROVE  /\ Shifts("one") = 1
           /\ R.xlo <= Bits(w) /\ reg["xlo"] = R.xlo => Shifts("xlo") = R.xlo /\ R.xlo \in 0..Bits(w)
<1>1. w \in Widths /\ R.xlo \in Nat
  BY TypedFacts DEF Word
<1>2. Bits(w) \in Nat /\ Bits(w) < 32
  BY <1>1, WordBitsAssumption DEF Bits, ByteBits, Widths
<1>3. Shifts("one") = 1
  <2>1. 1 % 32 = 1
    OBVIOUS
  <2> QED BY <2>1, Values DEF Shifts
<1>4. ASSUME R.xlo <= Bits(w), reg["xlo"] = R.xlo PROVE Shifts("xlo") = R.xlo /\ R.xlo \in 0..Bits(w)
  <2> DEFINE n == R.xlo
  <2>1. Shifts("xlo") = IF mask_5bit_shiftcount THEN n % 32 ELSE n
    BY <1>4, Values DEF Shifts
  <2>2. n \in Nat /\ n < 32 /\ n \in 0..Bits(w)
    BY <1>1, <1>2, <1>4
  <2> HIDE DEF n
  <2>3. n % 32 = n
    BY <2>2
  <2> QED BY <2>1, <2>2, <2>3 DEF n
<1> QED BY <1>3, <1>4

-----------------------------------------------------------------------------
(***************************************************************************)
(* The programs that shift and rotate.                                     *)
(***************************************************************************)
\* CF and a register, turned n places to the left since the program started.
TurnedBy(n) == Through(w, fl, reg["lo"]) = RotatedLeft(Through(w, run.fl, R.lo), n, Bits(w) + 1)

\* SHL of the lower word moves its top bit to CF, and RCL moves it into the higher word.
AtWideShl ==
    run.prog.name = "wide shl" =>
        /\ trap = "none"
        /\ \/ code = Listing("wide shl") /\ Fresh
           \/ Line1(code, I("rcl", "hi", "one")) /\ Holds(R.hi, Plus(w, R.lo, R.lo), R.xhi, R.xlo) /\ fl.cf = Carry(w, R.lo, R.lo)
           \/ code = << >> /\ Holds(Plus(w, R.hi, R.hi + Carry(w, R.lo, R.lo)), Plus(w, R.lo, R.lo), R.xhi, R.xlo) /\ fl.cf = Msb(w, R.hi)

\* Every step of the program takes it to its next stage.
LEMMA WideShlStep ==
    ASSUME Typed, Next, AtWideShl
    PROVE  AtWideShl'
<1> DEFINE S0 == code = Listing("wide shl") /\ Fresh
           S1 == Line1(code, I("rcl", "hi", "one")) /\ Holds(R.hi, Plus(w, R.lo, R.lo), R.xhi, R.xlo) /\ fl.cf = Carry(w, R.lo, R.lo)
           S2 == code = << >> /\ Holds(Plus(w, R.hi, R.hi + Carry(w, R.lo, R.lo)), Plus(w, R.lo, R.lo), R.xhi, R.xlo) /\ fl.cf = Msb(w, R.hi)
<1>1. run' = run /\ R' = R /\ w' = w /\ code # << >>
  BY Dispatch DEF R, w
<1>2. AtWideShl <=> (run.prog.name = "wide shl" => trap = "none" /\ (S0 \/ S1 \/ S2))
  BY Zenon DEF AtWideShl
<1>3. AtWideShl' <=> (run'.prog.name = "wide shl" => trap' = "none" /\ (S0' \/ S1' \/ S2'))
  BY Zenon DEF AtWideShl
<1>4. Line2(Listing("wide shl"), I("shl", "lo", "one"), I("rcl", "hi", "one"))
  BY DEF Listing, Line2
<1>5. ASSUME S0, run.prog.name = "wide shl" PROVE trap' = trap /\ S1'
  <2>1. Head(code) = I("shl", "lo", "one") /\ Line1(Tail(code), I("rcl", "hi", "one"))
    BY <1>4, <1>5, Ahead2
  <2>2. reg["hi"] = R.hi /\ reg["lo"] = R.lo /\ reg["xhi"] = R.xhi /\ reg["xlo"] = R.xlo
    BY <1>5 DEF Holds, Fresh
  <2>3. fl = run.fl /\ Val("one") = 1
    BY <1>5, <2>2, Values DEF Fresh
  <2> DEFINE o == op_shl(w, run.fl, R.lo, Shifts("one"))
  <2>4. Leaves("lo", op_shl(w, fl, reg["lo"], Shifts("one")))
    BY <2>1, Executes
  <2>5. Leaves("lo", o)
    BY <2>2, <2>3, <2>4
  <2> HIDE DEF o
  <2>6. /\ fl' = o.fl /\ code' = Tail(code) /\ trap' = trap
        /\ reg'["hi"] = R.hi /\ reg'["lo"] = o.ret /\ reg'["xhi"] = R.xhi /\ reg'["xlo"] = R.xlo
    BY <2>2, <2>5, Left DEF Regs
  <2>7. o.ret = Plus(w, R.lo, R.lo) /\ o.fl.cf = Carry(w, R.lo, R.lo)
    <3>1. Shifts("one") = 1
      BY ShiftCounts
    <3> QED BY <3>1, TypedFacts, Doubled DEF o
  <2> QED BY <1>1, <2>1, <2>5, <2>6, <2>7 DEF Holds
<1>6. ASSUME S1, run.prog.name = "wide shl" PROVE trap' = trap /\ S2'
  <2>1. Head(code) = I("rcl", "hi", "one") /\ Tail(code) = << >>
    BY <1>6, Ahead1
  <2>2. reg["hi"] = R.hi /\ reg["lo"] = Plus(w, R.lo, R.lo) /\ reg["xhi"] = R.xhi /\ reg["xlo"] = R.xlo
    BY <1>6 DEF Holds
  <2>3. Val("one") = 1
    BY <2>2, Values
  <2> DEFINE o == op_rcl(w, fl, R.hi, 1)
  <2>4. Leaves("hi", op_rcl(w, fl, reg["hi"], Val("one")))
    BY <2>1, Executes
  <2>5. Leaves("hi", o)
    BY <2>2, <2>3, <2>4
  <2> HIDE DEF o
  <2>6. /\ fl' = o.fl /\ code' = Tail(code) /\ trap' = trap
        /\ reg'["hi"] = o.ret /\ reg'["lo"] = Plus(w, R.lo, R.lo) /\ reg'["xhi"] = R.xhi /\ reg'["xlo"] = R.xlo
    BY <2>2, <2>5, Left DEF Regs
  <2>7. o.ret = Plus(w, R.hi, R.hi + Carry(w, R.lo, R.lo)) /\ o.fl.cf = Msb(w, R.hi)
    <3>1. fl.cf = Carry(w, R.lo, R.lo)
      BY <1>6
    <3>2. fl.cf \in {0, 1}
      BY TypedFacts, FlagTypes
    <3>3. o.ret = Plus(w, R.hi, R.hi + fl.cf) /\ o.fl.cf = Carry(w, R.hi, R.hi + fl.cf)
      BY TypedFacts, Doubled DEF o
    <3>4. \A c \in {0, 1} : Carry(w, R.hi, R.hi + c) = Msb(w, R.hi)
      BY TypedFacts, Doubled
    <3> QED BY <3>1, <3>2, <3>3, <3>4
  <2> QED BY <1>1, <2>1, <2>5, <2>6, <2>7 DEF Holds
<1> HIDE DEF S0, S1, S2
<1>7. ~S2
  BY <1>1 DEF S2
<1> QED BY <1>1, <1>2, <1>3, <1>5, <1>6, <1>7, Zenon

\* SHR of the higher word moves its last bit to CF, and RCR moves it into the lower word.
AtWideShr ==
    run.prog.name = "wide shr" =>
        /\ trap = "none"
        /\ \/ code = Listing("wide shr") /\ Fresh
           \/ Line1(code, I("rcr", "lo", "one")) /\ Holds(R.hi \div 2, R.lo, R.xhi, R.xlo) /\ fl.cf = R.hi % 2
           \/ code = << >> /\ Holds(R.hi \div 2, (Half(w) * (R.hi % 2)) + (R.lo \div 2), R.xhi, R.xlo) /\ fl.cf = R.lo % 2

\* Every step of the program takes it to its next stage.
LEMMA WideShrStep ==
    ASSUME Typed, Next, AtWideShr
    PROVE  AtWideShr'
<1> DEFINE S0 == code = Listing("wide shr") /\ Fresh
           S1 == Line1(code, I("rcr", "lo", "one")) /\ Holds(R.hi \div 2, R.lo, R.xhi, R.xlo) /\ fl.cf = R.hi % 2
           S2 == code = << >> /\ Holds(R.hi \div 2, (Half(w) * (R.hi % 2)) + (R.lo \div 2), R.xhi, R.xlo) /\ fl.cf = R.lo % 2
<1>1. run' = run /\ R' = R /\ w' = w /\ code # << >>
  BY Dispatch DEF R, w
<1>2. AtWideShr <=> (run.prog.name = "wide shr" => trap = "none" /\ (S0 \/ S1 \/ S2))
  BY Zenon DEF AtWideShr
<1>3. AtWideShr' <=> (run'.prog.name = "wide shr" => trap' = "none" /\ (S0' \/ S1' \/ S2'))
  BY Zenon DEF AtWideShr
<1>4. Line2(Listing("wide shr"), I("shr", "hi", "one"), I("rcr", "lo", "one"))
  BY DEF Listing, Line2
<1>5. ASSUME S0, run.prog.name = "wide shr" PROVE trap' = trap /\ S1'
  <2>1. Head(code) = I("shr", "hi", "one") /\ Line1(Tail(code), I("rcr", "lo", "one"))
    BY <1>4, <1>5, Ahead2
  <2>2. reg["hi"] = R.hi /\ reg["lo"] = R.lo /\ reg["xhi"] = R.xhi /\ reg["xlo"] = R.xlo
    BY <1>5 DEF Holds, Fresh
  <2>3. fl = run.fl /\ Val("one") = 1
    BY <1>5, <2>2, Values DEF Fresh
  <2> DEFINE o == op_shr(w, run.fl, R.hi, Shifts("one"))
  <2>4. Leaves("hi", op_shr(w, fl, reg["hi"], Shifts("one")))
    BY <2>1, Executes
  <2>5. Leaves("hi", o)
    BY <2>2, <2>3, <2>4
  <2> HIDE DEF o
  <2>6. /\ fl' = o.fl /\ code' = Tail(code) /\ trap' = trap
        /\ reg'["hi"] = o.ret /\ reg'["lo"] = R.lo /\ reg'["xhi"] = R.xhi /\ reg'["xlo"] = R.xlo
    BY <2>2, <2>5, Left DEF Regs
  <2>7. o.fl.cf = R.hi % 2 /\ o.ret = R.hi \div 2
    <3>1. Shifts("one") = 1
      BY ShiftCounts
    <3> QED BY <3>1, TypedFacts, Halved DEF o
  <2> QED BY <1>1, <2>1, <2>5, <2>6, <2>7 DEF Holds
<1>6. ASSUME S1, run.prog.name = "wide shr" PROVE trap' = trap /\ S2'
  <2>1. Head(code) = I("rcr", "lo", "one") /\ Tail(code) = << >>
    BY <1>6, Ahead1
  <2>2. reg["hi"] = R.hi \div 2 /\ reg["lo"] = R.lo /\ reg["xhi"] = R.xhi /\ reg["xlo"] = R.xlo
    BY <1>6 DEF Holds
  <2>3. Val("one") = 1
    BY <2>2, Values
  <2> DEFINE o == op_rcr(w, fl, R.lo, 1)
  <2>4. Leaves("lo", op_rcr(w, fl, reg["lo"], Val("one")))
    BY <2>1, Executes
  <2>5. Leaves("lo", o)
    BY <2>2, <2>3, <2>4
  <2> HIDE DEF o
  <2>6. /\ fl' = o.fl /\ code' = Tail(code) /\ trap' = trap
        /\ reg'["hi"] = R.hi \div 2 /\ reg'["lo"] = o.ret /\ reg'["xhi"] = R.xhi /\ reg'["xlo"] = R.xlo
    BY <2>2, <2>5, Left DEF Regs
  <2>7. o.ret = (Half(w) * (R.hi % 2)) + (R.lo \div 2) /\ o.fl.cf = R.lo % 2
    <3>1. fl.cf = R.hi % 2
      BY <1>6
    <3>2. o.ret = (Half(w) * fl.cf) + (R.lo \div 2) /\ o.fl.cf = R.lo % 2
      BY TypedFacts, RotatedByOne DEF o
    <3> QED BY <3>1, <3>2
  <2> QED BY <1>1, <2>1, <2>5, <2>6, <2>7 DEF Holds
<1> HIDE DEF S0, S1, S2
<1>7. ~S2
  BY <1>1 DEF S2
<1> QED BY <1>1, <1>2, <1>3, <1>5, <1>6, <1>7, Zenon

\* So does SAR of a byte, which keeps the sign.
AtWideSar ==
    run.prog.name = "wide sar" =>
        /\ trap = "none"
        /\ \/ code = Listing("wide sar") /\ Fresh
           \/ Line1(code, I("rcr", "lo", "one")) /\ Holds(reg["hi"], R.lo, R.xhi, R.xlo) /\ fl.cf = R.hi % 2 /\ (w = "byte" => reg["hi"] = (R.hi \div 2) + 128 * Msb(w, R.hi))
           \/ code = << >> /\ Holds(reg["hi"], (Half(w) * (R.hi % 2)) + (R.lo \div 2), R.xhi, R.xlo) /\ fl.cf = R.lo % 2 /\ (w = "byte" => reg["hi"] = (R.hi \div 2) + 128 * Msb(w, R.hi))

\* Every step of the program takes it to its next stage.
LEMMA WideSarStep ==
    ASSUME Typed, Next, AtWideSar
    PROVE  AtWideSar'
<1> DEFINE S0 == code = Listing("wide sar") /\ Fresh
           S1 == Line1(code, I("rcr", "lo", "one")) /\ Holds(reg["hi"], R.lo, R.xhi, R.xlo) /\ fl.cf = R.hi % 2 /\ (w = "byte" => reg["hi"] = (R.hi \div 2) + 128 * Msb(w, R.hi))
           S2 == code = << >> /\ Holds(reg["hi"], (Half(w) * (R.hi % 2)) + (R.lo \div 2), R.xhi, R.xlo) /\ fl.cf = R.lo % 2 /\ (w = "byte" => reg["hi"] = (R.hi \div 2) + 128 * Msb(w, R.hi))
<1>1. run' = run /\ R' = R /\ w' = w /\ code # << >>
  BY Dispatch DEF R, w
<1>2. AtWideSar <=> (run.prog.name = "wide sar" => trap = "none" /\ (S0 \/ S1 \/ S2))
  BY Zenon DEF AtWideSar
<1>3. AtWideSar' <=> (run'.prog.name = "wide sar" => trap' = "none" /\ (S0' \/ S1' \/ S2'))
  BY Zenon DEF AtWideSar
<1>4. Line2(Listing("wide sar"), I("sar", "hi", "one"), I("rcr", "lo", "one"))
  BY DEF Listing, Line2
<1>5. ASSUME S0, run.prog.name = "wide sar" PROVE trap' = trap /\ S1'
  <2>1. Head(code) = I("sar", "hi", "one") /\ Line1(Tail(code), I("rcr", "lo", "one"))
    BY <1>4, <1>5, Ahead2
  <2>2. reg["hi"] = R.hi /\ reg["lo"] = R.lo /\ reg["xhi"] = R.xhi /\ reg["xlo"] = R.xlo
    BY <1>5 DEF Holds, Fresh
  <2>3. fl = run.fl /\ Val("one") = 1
    BY <1>5, <2>2, Values DEF Fresh
  <2> DEFINE o == op_sar(w, run.fl, R.hi, Shifts("one"))
  <2>4. Leaves("hi", op_sar(w, fl, reg["hi"], Shifts("one")))
    BY <2>1, Executes
  <2>5. Leaves("hi", o)
    BY <2>2, <2>3, <2>4
  <2> HIDE DEF o
  <2>6. /\ fl' = o.fl /\ code' = Tail(code) /\ trap' = trap
        /\ reg'["hi"] = o.ret /\ reg'["lo"] = R.lo /\ reg'["xhi"] = R.xhi /\ reg'["xlo"] = R.xlo
    BY <2>2, <2>5, Left DEF Regs
  <2>7. o.fl.cf = R.hi % 2 /\ (w = "byte" => o.ret = (R.hi \div 2) + 128 * Msb(w, R.hi))
    <3>1. Shifts("one") = 1
      BY ShiftCounts
    <3> QED BY <3>1, TypedFacts, Halved DEF o
  <2> QED BY <1>1, <2>1, <2>5, <2>6, <2>7 DEF Holds
<1>6. ASSUME S1, run.prog.name = "wide sar" PROVE trap' = trap /\ S2'
  <2>1. Head(code) = I("rcr", "lo", "one") /\ Tail(code) = << >>
    BY <1>6, Ahead1
  <2>2. reg["hi"] = reg["hi"] /\ reg["lo"] = R.lo /\ reg["xhi"] = R.xhi /\ reg["xlo"] = R.xlo
    BY <1>6 DEF Holds
  <2>3. Val("one") = 1
    BY <2>2, Values
  <2> DEFINE o == op_rcr(w, fl, R.lo, 1)
  <2>4. Leaves("lo", op_rcr(w, fl, reg["lo"], Val("one")))
    BY <2>1, Executes
  <2>5. Leaves("lo", o)
    BY <2>2, <2>3, <2>4
  <2> HIDE DEF o
  <2>6. /\ fl' = o.fl /\ code' = Tail(code) /\ trap' = trap
        /\ reg'["hi"] = reg["hi"] /\ reg'["lo"] = o.ret /\ reg'["xhi"] = R.xhi /\ reg'["xlo"] = R.xlo
    BY <2>2, <2>5, Left DEF Regs
  <2>7. o.ret = (Half(w) * (R.hi % 2)) + (R.lo \div 2) /\ o.fl.cf = R.lo % 2
    <3>1. fl.cf = R.hi % 2
      BY <1>6
    <3>2. o.ret = (Half(w) * fl.cf) + (R.lo \div 2) /\ o.fl.cf = R.lo % 2
      BY TypedFacts, RotatedByOne DEF o
    <3> QED BY <3>1, <3>2
  <2>8. w = "byte" => reg'["hi"] = (R.hi \div 2) + 128 * Msb(w, R.hi)
    BY <1>6, <2>6
  <2> QED BY <1>1, <2>1, <2>5, <2>6, <2>7, <2>8 DEF Holds
<1> HIDE DEF S0, S1, S2
<1>7. ~S2
  BY <1>1 DEF S2
<1> QED BY <1>1, <1>2, <1>3, <1>5, <1>6, <1>7, Zenon

\* ROL turns a register, and ROR turns it back.
AtRolRor ==
    run.prog.name = "rol ror" =>
        /\ trap = "none"
        /\ \/ code = Listing("rol ror") /\ Fresh
           \/ Line1(code, I("ror", "lo", "xlo")) /\ Holds(R.hi, reg["lo"], R.xhi, R.xlo) /\ reg["lo"] = op_rol(w, run.fl, R.lo, R.xlo).ret
           \/ code = << >> /\ Holds(R.hi, R.lo, R.xhi, R.xlo)

\* Every step of the program takes it to its next stage.
LEMMA RolRorStep ==
    ASSUME Typed, Next, AtRolRor
    PROVE  AtRolRor'
<1> DEFINE S0 == code = Listing("rol ror") /\ Fresh
           S1 == Line1(code, I("ror", "lo", "xlo")) /\ Holds(R.hi, reg["lo"], R.xhi, R.xlo) /\ reg["lo"] = op_rol(w, run.fl, R.lo, R.xlo).ret
           S2 == code = << >> /\ Holds(R.hi, R.lo, R.xhi, R.xlo)
<1>1. run' = run /\ R' = R /\ w' = w /\ code # << >>
  BY Dispatch DEF R, w
<1>2. AtRolRor <=> (run.prog.name = "rol ror" => trap = "none" /\ (S0 \/ S1 \/ S2))
  BY Zenon DEF AtRolRor
<1>3. AtRolRor' <=> (run'.prog.name = "rol ror" => trap' = "none" /\ (S0' \/ S1' \/ S2'))
  BY Zenon DEF AtRolRor
<1>4. Line2(Listing("rol ror"), I("rol", "lo", "xlo"), I("ror", "lo", "xlo"))
  BY DEF Listing, Line2
<1>5. ASSUME S0, run.prog.name = "rol ror" PROVE trap' = trap /\ S1'
  <2>1. Head(code) = I("rol", "lo", "xlo") /\ Line1(Tail(code), I("ror", "lo", "xlo"))
    BY <1>4, <1>5, Ahead2
  <2>2. reg["hi"] = R.hi /\ reg["lo"] = R.lo /\ reg["xhi"] = R.xhi /\ reg["xlo"] = R.xlo
    BY <1>5 DEF Holds, Fresh
  <2>3. fl = run.fl /\ Val("xlo") = R.xlo
    BY <1>5, <2>2, Values DEF Fresh
  <2> DEFINE o == op_rol(w, run.fl, R.lo, R.xlo)
  <2>4. Leaves("lo", op_rol(w, fl, reg["lo"], Val("xlo")))
    BY <2>1, Executes
  <2>5. Leaves("lo", o)
    BY <2>2, <2>3, <2>4
  <2> HIDE DEF o
  <2>6. /\ fl' = o.fl /\ code' = Tail(code) /\ trap' = trap
        /\ reg'["hi"] = R.hi /\ reg'["lo"] = o.ret /\ reg'["xhi"] = R.xhi /\ reg'["xlo"] = R.xlo
    BY <2>2, <2>5, Left DEF Regs
  <2>7. o.ret = op_rol(w, run.fl, R.lo, R.xlo).ret
    BY DEF o
  <2> QED BY <1>1, <2>1, <2>5, <2>6, <2>7 DEF Holds
<1>6. ASSUME S1, run.prog.name = "rol ror" PROVE trap' = trap /\ S2'
  <2>1. Head(code) = I("ror", "lo", "xlo") /\ Tail(code) = << >>
    BY <1>6, Ahead1
  <2>2. reg["hi"] = R.hi /\ reg["lo"] = reg["lo"] /\ reg["xhi"] = R.xhi /\ reg["xlo"] = R.xlo
    BY <1>6 DEF Holds
  <2>3. Val("xlo") = R.xlo
    BY <2>2, Values
  <2> DEFINE o == op_ror(w, fl, reg["lo"], R.xlo)
  <2>4. Leaves("lo", op_ror(w, fl, reg["lo"], Val("xlo")))
    BY <2>1, Executes
  <2>5. Leaves("lo", o)
    BY <2>2, <2>3, <2>4
  <2> HIDE DEF o
  <2>6. /\ fl' = o.fl /\ code' = Tail(code) /\ trap' = trap
        /\ reg'["hi"] = R.hi /\ reg'["lo"] = o.ret /\ reg'["xhi"] = R.xhi /\ reg'["xlo"] = R.xlo
    BY <2>2, <2>5, Left DEF Regs
  <2>7. o.ret = R.lo
    <3>1. reg["lo"] = op_rol(w, run.fl, R.lo, R.xlo).ret
      BY <1>6
    <3>2. op_ror(w, fl, op_rol(w, run.fl, R.lo, R.xlo).ret, R.xlo).ret = R.lo
      <4> DEFINE f == run.fl
                 s == R.lo
                 u == R.xlo
      <4>1. w \in Widths /\ fl \in FlagSet /\ f \in FlagSet /\ s \in Word(w) /\ u \in Word(w)
        BY TypedFacts
      <4> HIDE DEF f, s, u
      <4>2. op_ror(w, fl, op_rol(w, f, s, u).ret, u).ret = s
        BY <4>1, RolRor
      <4> QED BY <4>2 DEF f, s, u
    <3> QED BY <3>1, <3>2, Zenon DEF o
  <2> QED BY <1>1, <2>1, <2>5, <2>6, <2>7 DEF Holds
<1> HIDE DEF S0, S1, S2
<1>7. ~S2
  BY <1>1 DEF S2
<1> QED BY <1>1, <1>2, <1>3, <1>5, <1>6, <1>7, Zenon

\* RCL turns CF and a register, and RCR turns them back.
AtRclRcr ==
    run.prog.name = "rcl rcr" =>
        /\ trap = "none"
        /\ \/ code = Listing("rcl rcr") /\ Fresh
           \/ Line1(code, I("rcr", "lo", "xlo")) /\ Holds(R.hi, reg["lo"], R.xhi, R.xlo) /\ TurnedBy(R.xlo % (Bits(w) + 1))
           \/ code = << >> /\ Holds(R.hi, R.lo, R.xhi, R.xlo) /\ fl.cf = run.fl.cf

\* Every step of the program takes it to its next stage.
LEMMA RclRcrStep ==
    ASSUME Typed, Next, AtRclRcr
    PROVE  AtRclRcr'
<1> DEFINE S0 == code = Listing("rcl rcr") /\ Fresh
           S1 == Line1(code, I("rcr", "lo", "xlo")) /\ Holds(R.hi, reg["lo"], R.xhi, R.xlo) /\ TurnedBy(R.xlo % (Bits(w) + 1))
           S2 == code = << >> /\ Holds(R.hi, R.lo, R.xhi, R.xlo) /\ fl.cf = run.fl.cf
<1>1. run' = run /\ R' = R /\ w' = w /\ code # << >>
  BY Dispatch DEF R, w
<1>2. AtRclRcr <=> (run.prog.name = "rcl rcr" => trap = "none" /\ (S0 \/ S1 \/ S2))
  BY Zenon DEF AtRclRcr
<1>3. AtRclRcr' <=> (run'.prog.name = "rcl rcr" => trap' = "none" /\ (S0' \/ S1' \/ S2'))
  BY Zenon DEF AtRclRcr
<1>4. Line2(Listing("rcl rcr"), I("rcl", "lo", "xlo"), I("rcr", "lo", "xlo"))
  BY DEF Listing, Line2
<1>5. ASSUME S0, run.prog.name = "rcl rcr" PROVE trap' = trap /\ S1'
  <2>1. Head(code) = I("rcl", "lo", "xlo") /\ Line1(Tail(code), I("rcr", "lo", "xlo"))
    BY <1>4, <1>5, Ahead2
  <2>2. reg["hi"] = R.hi /\ reg["lo"] = R.lo /\ reg["xhi"] = R.xhi /\ reg["xlo"] = R.xlo
    BY <1>5 DEF Holds, Fresh
  <2>3. fl = run.fl /\ Val("xlo") = R.xlo
    BY <1>5, <2>2, Values DEF Fresh
  <2> DEFINE o == op_rcl(w, run.fl, R.lo, R.xlo)
  <2>4. Leaves("lo", op_rcl(w, fl, reg["lo"], Val("xlo")))
    BY <2>1, Executes
  <2>5. Leaves("lo", o)
    BY <2>2, <2>3, <2>4
  <2> HIDE DEF o
  <2>6. /\ fl' = o.fl /\ code' = Tail(code) /\ trap' = trap
        /\ reg'["hi"] = R.hi /\ reg'["lo"] = o.ret /\ reg'["xhi"] = R.xhi /\ reg'["xlo"] = R.xlo
    BY <2>2, <2>5, Left DEF Regs
  <2>7. Through(w, o.fl, o.ret) = RotatedLeft(Through(w, run.fl, R.lo), R.xlo % (Bits(w) + 1), Bits(w) + 1)
    BY TypedFacts, CarryTurned DEF o
  <2>8. TurnedBy(R.xlo % (Bits(w) + 1))'
    BY <1>1, <2>5, <2>6, <2>7 DEF TurnedBy, Through
  <2> QED BY <1>1, <2>1, <2>5, <2>6, <2>8 DEF Holds
<1>6. ASSUME S1, run.prog.name = "rcl rcr" PROVE trap' = trap /\ S2'
  <2>1. Head(code) = I("rcr", "lo", "xlo") /\ Tail(code) = << >>
    BY <1>6, Ahead1
  <2>2. reg["hi"] = R.hi /\ reg["lo"] = reg["lo"] /\ reg["xhi"] = R.xhi /\ reg["xlo"] = R.xlo
    BY <1>6 DEF Holds
  <2>3. Val("xlo") = R.xlo
    BY <2>2, Values
  <2> DEFINE o == op_rcr(w, fl, reg["lo"], R.xlo)
  <2>4. Leaves("lo", op_rcr(w, fl, reg["lo"], Val("xlo")))
    BY <2>1, Executes
  <2>5. Leaves("lo", o)
    BY <2>2, <2>3, <2>4
  <2> HIDE DEF o
  <2>6. /\ fl' = o.fl /\ code' = Tail(code) /\ trap' = trap
        /\ reg'["hi"] = R.hi /\ reg'["lo"] = o.ret /\ reg'["xhi"] = R.xhi /\ reg'["xlo"] = R.xlo
    BY <2>2, <2>5, Left DEF Regs
  <2>7. Through(w, o.fl, o.ret) = Through(w, run.fl, R.lo)
    <3> DEFINE b == Bits(w) + 1
               n == R.xlo % b
               x == Through(w, fl, reg["lo"])
               y == Through(w, run.fl, R.lo)
    <3>1. b \in Nat /\ b > 0 /\ n \in 0..(b - 1) /\ y \in 0..(Pow2[b] - 1)
      BY TypedFacts, CarryTurned
    <3>2. x = RotatedLeft(y, n, b)
      BY <1>6 DEF TurnedBy
    <3>3. Through(w, o.fl, o.ret) = IF n = 0 THEN x ELSE RotatedLeft(x, b - n, b)
      BY TypedFacts, CarryTurned DEF o
    <3> HIDE DEF n, b, x, y
    <3>4. RotatedLeft(x, b - n, b) = y /\ RotatedLeft(y, 0, b) = y
      BY <3>1, <3>2, RotationUndone, RotatedBack
    <3>5. Through(w, o.fl, o.ret) = y
      BY <3>2, <3>3, <3>4
    <3> QED BY <3>5 DEF y
  <2>8. o.ret = R.lo /\ o.fl.cf = run.fl.cf
    <3>1. o.ret \in Word(w) /\ o.fl \in FlagSet
      BY TypedFacts, CarryTurned DEF o, Fits
    <3> QED BY <2>7, <3>1, TypedFacts, ThroughParts
  <2> QED BY <1>1, <2>1, <2>5, <2>6, <2>8 DEF Holds
<1> HIDE DEF S0, S1, S2
<1>7. ~S2
  BY <1>1 DEF S2
<1> QED BY <1>1, <1>2, <1>3, <1>5, <1>6, <1>7, Zenon

\* One RCL by 3, and three RCR by 1.
AtRclThreeRcr ==
    run.prog.name = "rcl 3 rcr" =>
        /\ trap = "none"
        /\ \/ code = Listing("rcl 3 rcr") /\ Fresh
           \/ Line3(code, I("rcr", "lo", "one"), I("rcr", "lo", "one"), I("rcr", "lo", "one")) /\ Holds(R.hi, reg["lo"], R.xhi, R.xlo) /\ TurnedBy(3)
           \/ Line2(code, I("rcr", "lo", "one"), I("rcr", "lo", "one")) /\ Holds(R.hi, reg["lo"], R.xhi, R.xlo) /\ TurnedBy(2)
           \/ Line1(code, I("rcr", "lo", "one")) /\ Holds(R.hi, reg["lo"], R.xhi, R.xlo) /\ TurnedBy(1)
           \/ code = << >> /\ Holds(R.hi, R.lo, R.xhi, R.xlo) /\ fl.cf = run.fl.cf

\* Every step of the program takes it to its next stage.
LEMMA RclThreeRcrStep ==
    ASSUME Typed, Next, AtRclThreeRcr
    PROVE  AtRclThreeRcr'
<1> DEFINE S0 == code = Listing("rcl 3 rcr") /\ Fresh
           S1 == Line3(code, I("rcr", "lo", "one"), I("rcr", "lo", "one"), I("rcr", "lo", "one")) /\ Holds(R.hi, reg["lo"], R.xhi, R.xlo) /\ TurnedBy(3)
           S2 == Line2(code, I("rcr", "lo", "one"), I("rcr", "lo", "one")) /\ Holds(R.hi, reg["lo"], R.xhi, R.xlo) /\ TurnedBy(2)
           S3 == Line1(code, I("rcr", "lo", "one")) /\ Holds(R.hi, reg["lo"], R.xhi, R.xlo) /\ TurnedBy(1)
           S4 == code = << >> /\ Holds(R.hi, R.lo, R.xhi, R.xlo) /\ fl.cf = run.fl.cf
<1>1. run' = run /\ R' = R /\ w' = w /\ code # << >>
  BY Dispatch DEF R, w
<1>2. AtRclThreeRcr <=> (run.prog.name = "rcl 3 rcr" => trap = "none" /\ (S0 \/ S1 \/ S2 \/ S3 \/ S4))
  BY Zenon DEF AtRclThreeRcr
<1>3. AtRclThreeRcr' <=> (run'.prog.name = "rcl 3 rcr" => trap' = "none" /\ (S0' \/ S1' \/ S2' \/ S3' \/ S4'))
  BY Zenon DEF AtRclThreeRcr
<1>4. Line4(Listing("rcl 3 rcr"), I("rcl", "lo", "three"), I("rcr", "lo", "one"), I("rcr", "lo", "one"), I("rcr", "lo", "one"))
  BY DEF Listing, Line4
<1>5. ASSUME S0, run.prog.name = "rcl 3 rcr" PROVE trap' = trap /\ S1'
  <2>1. Head(code) = I("rcl", "lo", "three") /\ Line3(Tail(code), I("rcr", "lo", "one"), I("rcr", "lo", "one"), I("rcr", "lo", "one"))
    BY <1>4, <1>5, Ahead4
  <2>2. reg["hi"] = R.hi /\ reg["lo"] = R.lo /\ reg["xhi"] = R.xhi /\ reg["xlo"] = R.xlo
    BY <1>5 DEF Holds, Fresh
  <2>3. fl = run.fl /\ Val("three") = 3
    BY <1>5, <2>2, Values DEF Fresh
  <2> DEFINE o == op_rcl(w, run.fl, R.lo, 3)
  <2>4. Leaves("lo", op_rcl(w, fl, reg["lo"], Val("three")))
    BY <2>1, Executes
  <2>5. Leaves("lo", o)
    BY <2>2, <2>3, <2>4
  <2> HIDE DEF o
  <2>6. /\ fl' = o.fl /\ code' = Tail(code) /\ trap' = trap
        /\ reg'["hi"] = R.hi /\ reg'["lo"] = o.ret /\ reg'["xhi"] = R.xhi /\ reg'["xlo"] = R.xlo
    BY <2>2, <2>5, Left DEF Regs
  <2>7. Through(w, o.fl, o.ret) = RotatedLeft(Through(w, run.fl, R.lo), 3, Bits(w) + 1)
    <3>1. 3 % (Bits(w) + 1) = 3 /\ 3 \in Word(w)
      <4>1. Bits(w) \in Nat /\ Bits(w) >= 8
        BY TypedFacts, Sizes
      <4>2. 3 \in 0..255
        OBVIOUS
      <4>3. 0..255 \subseteq Word(w)
        BY TypedFacts, ByteFits
      <4> QED BY <4>1, <4>2, <4>3
    <3> QED BY <3>1, TypedFacts, CarryTurned DEF o
  <2>8. TurnedBy(3)'
    BY <1>1, <2>5, <2>6, <2>7 DEF TurnedBy, Through
  <2> QED BY <1>1, <2>1, <2>5, <2>6, <2>8 DEF Holds
<1>6. ASSUME S1, run.prog.name = "rcl 3 rcr" PROVE trap' = trap /\ S2'
  <2>1. Head(code) = I("rcr", "lo", "one") /\ Line2(Tail(code), I("rcr", "lo", "one"), I("rcr", "lo", "one"))
    BY <1>6, Ahead3
  <2>2. reg["hi"] = R.hi /\ reg["lo"] = reg["lo"] /\ reg["xhi"] = R.xhi /\ reg["xlo"] = R.xlo
    BY <1>6 DEF Holds
  <2>3. Val("one") = 1
    BY <2>2, Values
  <2> DEFINE o == op_rcr(w, fl, reg["lo"], 1)
  <2>4. Leaves("lo", op_rcr(w, fl, reg["lo"], Val("one")))
    BY <2>1, Executes
  <2>5. Leaves("lo", o)
    BY <2>2, <2>3, <2>4
  <2> HIDE DEF o
  <2>6. /\ fl' = o.fl /\ code' = Tail(code) /\ trap' = trap
        /\ reg'["hi"] = R.hi /\ reg'["lo"] = o.ret /\ reg'["xhi"] = R.xhi /\ reg'["xlo"] = R.xlo
    BY <2>2, <2>5, Left DEF Regs
  <2>7. Through(w, o.fl, o.ret) = RotatedLeft(Through(w, run.fl, R.lo), 2, Bits(w) + 1)
    <3> DEFINE b == Bits(w) + 1
               x == Through(w, fl, reg["lo"])
               y == Through(w, run.fl, R.lo)
    <3>1. b \in Nat /\ b > 8 /\ y \in 0..(Pow2[b] - 1) /\ 1 \in Word(w)
      <4>1. b \in Nat /\ b > 8
        BY TypedFacts, Sizes
      <4>2. y \in 0..(Pow2[b] - 1)
        BY TypedFacts, CarryTurned
      <4>3. 1 \in Word(w)
        BY TypedFacts, PlusMinus
      <4> QED BY <4>1, <4>2, <4>3
    <3>2. x = RotatedLeft(y, 3, b)
      BY <1>6 DEF TurnedBy
    <3>3. Through(w, o.fl, o.ret) = IF 1 % b = 0 THEN x ELSE RotatedLeft(x, b - (1 % b), b)
      BY <3>1, TypedFacts, CarryTurned DEF o
    <3> HIDE DEF b, x, y
    <3>4. 1 % b = 1
      BY <3>1
    <3>5. RotatedLeft(x, b - 1, b) = RotatedLeft(y, 2, b)
      <4>1. 2 \in Nat /\ 2 + 1 = 3 /\ 2 + 1 <= b
        BY <3>1
      <4> QED BY <3>1, <3>2, <4>1, RotatedBack
    <3> QED BY <3>3, <3>4, <3>5 DEF b, y
  <2>8. TurnedBy(2)'
    BY <1>1, <2>5, <2>6, <2>7 DEF TurnedBy, Through
  <2> QED BY <1>1, <2>1, <2>5, <2>6, <2>8 DEF Holds
<1>7. ASSUME S2, run.prog.name = "rcl 3 rcr" PROVE trap' = trap /\ S3'
  <2>1. Head(code) = I("rcr", "lo", "one") /\ Line1(Tail(code), I("rcr", "lo", "one"))
    BY <1>7, Ahead2
  <2>2. reg["hi"] = R.hi /\ reg["lo"] = reg["lo"] /\ reg["xhi"] = R.xhi /\ reg["xlo"] = R.xlo
    BY <1>7 DEF Holds
  <2>3. Val("one") = 1
    BY <2>2, Values
  <2> DEFINE o == op_rcr(w, fl, reg["lo"], 1)
  <2>4. Leaves("lo", op_rcr(w, fl, reg["lo"], Val("one")))
    BY <2>1, Executes
  <2>5. Leaves("lo", o)
    BY <2>2, <2>3, <2>4
  <2> HIDE DEF o
  <2>6. /\ fl' = o.fl /\ code' = Tail(code) /\ trap' = trap
        /\ reg'["hi"] = R.hi /\ reg'["lo"] = o.ret /\ reg'["xhi"] = R.xhi /\ reg'["xlo"] = R.xlo
    BY <2>2, <2>5, Left DEF Regs
  <2>7. Through(w, o.fl, o.ret) = RotatedLeft(Through(w, run.fl, R.lo), 1, Bits(w) + 1)
    <3> DEFINE b == Bits(w) + 1
               x == Through(w, fl, reg["lo"])
               y == Through(w, run.fl, R.lo)
    <3>1. b \in Nat /\ b > 8 /\ y \in 0..(Pow2[b] - 1) /\ 1 \in Word(w)
      <4>1. b \in Nat /\ b > 8
        BY TypedFacts, Sizes
      <4>2. y \in 0..(Pow2[b] - 1)
        BY TypedFacts, CarryTurned
      <4>3. 1 \in Word(w)
        BY TypedFacts, PlusMinus
      <4> QED BY <4>1, <4>2, <4>3
    <3>2. x = RotatedLeft(y, 2, b)
      BY <1>7 DEF TurnedBy
    <3>3. Through(w, o.fl, o.ret) = IF 1 % b = 0 THEN x ELSE RotatedLeft(x, b - (1 % b), b)
      BY <3>1, TypedFacts, CarryTurned DEF o
    <3> HIDE DEF b, x, y
    <3>4. 1 % b = 1
      BY <3>1
    <3>5. RotatedLeft(x, b - 1, b) = RotatedLeft(y, 1, b)
      <4>1. 1 \in Nat /\ 1 + 1 = 2 /\ 1 + 1 <= b
        BY <3>1
      <4> QED BY <3>1, <3>2, <4>1, RotatedBack
    <3> QED BY <3>3, <3>4, <3>5 DEF b, y
  <2>8. TurnedBy(1)'
    BY <1>1, <2>5, <2>6, <2>7 DEF TurnedBy, Through
  <2> QED BY <1>1, <2>1, <2>5, <2>6, <2>8 DEF Holds
<1>8. ASSUME S3, run.prog.name = "rcl 3 rcr" PROVE trap' = trap /\ S4'
  <2>1. Head(code) = I("rcr", "lo", "one") /\ Tail(code) = << >>
    BY <1>8, Ahead1
  <2>2. reg["hi"] = R.hi /\ reg["lo"] = reg["lo"] /\ reg["xhi"] = R.xhi /\ reg["xlo"] = R.xlo
    BY <1>8 DEF Holds
  <2>3. Val("one") = 1
    BY <2>2, Values
  <2> DEFINE o == op_rcr(w, fl, reg["lo"], 1)
  <2>4. Leaves("lo", op_rcr(w, fl, reg["lo"], Val("one")))
    BY <2>1, Executes
  <2>5. Leaves("lo", o)
    BY <2>2, <2>3, <2>4
  <2> HIDE DEF o
  <2>6. /\ fl' = o.fl /\ code' = Tail(code) /\ trap' = trap
        /\ reg'["hi"] = R.hi /\ reg'["lo"] = o.ret /\ reg'["xhi"] = R.xhi /\ reg'["xlo"] = R.xlo
    BY <2>2, <2>5, Left DEF Regs
  <2>7. Through(w, o.fl, o.ret) = RotatedLeft(Through(w, run.fl, R.lo), 0, Bits(w) + 1)
    <3> DEFINE b == Bits(w) + 1
               x == Through(w, fl, reg["lo"])
               y == Through(w, run.fl, R.lo)
    <3>1. b \in Nat /\ b > 8 /\ y \in 0..(Pow2[b] - 1) /\ 1 \in Word(w)
      <4>1. b \in Nat /\ b > 8
        BY TypedFacts, Sizes
      <4>2. y \in 0..(Pow2[b] - 1)
        BY TypedFacts, CarryTurned
      <4>3. 1 \in Word(w)
        BY TypedFacts, PlusMinus
      <4> QED BY <4>1, <4>2, <4>3
    <3>2. x = RotatedLeft(y, 1, b)
      BY <1>8 DEF TurnedBy
    <3>3. Through(w, o.fl, o.ret) = IF 1 % b = 0 THEN x ELSE RotatedLeft(x, b - (1 % b), b)
      BY <3>1, TypedFacts, CarryTurned DEF o
    <3> HIDE DEF b, x, y
    <3>4. 1 % b = 1
      BY <3>1
    <3>5. RotatedLeft(x, b - 1, b) = RotatedLeft(y, 0, b)
      <4>1. 0 \in Nat /\ 0 + 1 = 1 /\ 0 + 1 <= b
        BY <3>1
      <4> QED BY <3>1, <3>2, <4>1, RotatedBack
    <3> QED BY <3>3, <3>4, <3>5 DEF b, y
  <2>8. o.ret = R.lo /\ o.fl.cf = run.fl.cf
    <3> DEFINE b == Bits(w) + 1
               y == Through(w, run.fl, R.lo)
    <3>1. b \in Nat /\ b > 0 /\ y \in 0..(Pow2[b] - 1) /\ 1 \in Word(w)
      BY TypedFacts, CarryTurned, PlusMinus
    <3>2. RotatedLeft(y, 0, b) = y
      <4> HIDE DEF b, y
      <4> QED BY <3>1, RotatedBack
    <3>3. o.ret \in Word(w) /\ o.fl \in FlagSet
      BY <3>1, TypedFacts, CarryTurned DEF o, Fits
    <3> QED BY <2>7, <3>2, <3>3, TypedFacts, ThroughParts
  <2> QED BY <1>1, <2>1, <2>5, <2>6, <2>8 DEF Holds
<1> HIDE DEF S0, S1, S2, S3, S4
<1>9. ~S4
  BY <1>1 DEF S4
<1> QED BY <1>1, <1>2, <1>3, <1>5, <1>6, <1>7, <1>8, <1>9, Zenon

\* SHL by CL and SHR by CL, for counts up to the width.
AtShlShr ==
    run.prog.name = "shl shr" =>
        /\ trap = "none"
        /\ \/ code = Listing("shl shr") /\ Fresh
           \/ Line1(code, I("shr", "lo", "xlo")) /\ Holds(R.hi, reg["lo"], R.xhi, R.xlo) /\ (R.xlo <= Bits(w) => reg["lo"] = Pow2[R.xlo] * (R.lo % Pow2[Bits(w) - R.xlo]))
           \/ code = << >> /\ Holds(R.hi, reg["lo"], R.xhi, R.xlo) /\ (R.xlo <= Bits(w) => reg["lo"] = R.lo % Pow2[Bits(w) - R.xlo])

\* Every step of the program takes it to its next stage.
LEMMA ShlShrStep ==
    ASSUME Typed, Next, AtShlShr
    PROVE  AtShlShr'
<1> DEFINE S0 == code = Listing("shl shr") /\ Fresh
           S1 == Line1(code, I("shr", "lo", "xlo")) /\ Holds(R.hi, reg["lo"], R.xhi, R.xlo) /\ (R.xlo <= Bits(w) => reg["lo"] = Pow2[R.xlo] * (R.lo % Pow2[Bits(w) - R.xlo]))
           S2 == code = << >> /\ Holds(R.hi, reg["lo"], R.xhi, R.xlo) /\ (R.xlo <= Bits(w) => reg["lo"] = R.lo % Pow2[Bits(w) - R.xlo])
<1>1. run' = run /\ R' = R /\ w' = w /\ code # << >>
  BY Dispatch DEF R, w
<1>2. AtShlShr <=> (run.prog.name = "shl shr" => trap = "none" /\ (S0 \/ S1 \/ S2))
  BY Zenon DEF AtShlShr
<1>3. AtShlShr' <=> (run'.prog.name = "shl shr" => trap' = "none" /\ (S0' \/ S1' \/ S2'))
  BY Zenon DEF AtShlShr
<1>4. Line2(Listing("shl shr"), I("shl", "lo", "xlo"), I("shr", "lo", "xlo"))
  BY DEF Listing, Line2
<1>5. ASSUME S0, run.prog.name = "shl shr" PROVE trap' = trap /\ S1'
  <2>1. Head(code) = I("shl", "lo", "xlo") /\ Line1(Tail(code), I("shr", "lo", "xlo"))
    BY <1>4, <1>5, Ahead2
  <2>2. reg["hi"] = R.hi /\ reg["lo"] = R.lo /\ reg["xhi"] = R.xhi /\ reg["xlo"] = R.xlo
    BY <1>5 DEF Holds, Fresh
  <2>3. fl = run.fl /\ Val("xlo") = R.xlo
    BY <1>5, <2>2, Values DEF Fresh
  <2> DEFINE o == op_shl(w, run.fl, R.lo, Shifts("xlo"))
  <2>4. Leaves("lo", op_shl(w, fl, reg["lo"], Shifts("xlo")))
    BY <2>1, Executes
  <2>5. Leaves("lo", o)
    BY <2>2, <2>3, <2>4
  <2> HIDE DEF o
  <2>6. /\ fl' = o.fl /\ code' = Tail(code) /\ trap' = trap
        /\ reg'["hi"] = R.hi /\ reg'["lo"] = o.ret /\ reg'["xhi"] = R.xhi /\ reg'["xlo"] = R.xlo
    BY <2>2, <2>5, Left DEF Regs
  <2>7. R.xlo <= Bits(w) => o.ret = Pow2[R.xlo] * (R.lo % Pow2[Bits(w) - R.xlo])
    <3>1. R.xlo <= Bits(w) => Shifts("xlo") = R.xlo /\ R.xlo \in 0..Bits(w)
      BY <2>2, ShiftCounts
    <3> QED BY <3>1, TypedFacts, ShiftedLeft DEF o
  <2> QED BY <1>1, <2>1, <2>5, <2>6, <2>7 DEF Holds
<1>6. ASSUME S1, run.prog.name = "shl shr" PROVE trap' = trap /\ S2'
  <2>1. Head(code) = I("shr", "lo", "xlo") /\ Tail(code) = << >>
    BY <1>6, Ahead1
  <2>2. reg["hi"] = R.hi /\ reg["lo"] = reg["lo"] /\ reg["xhi"] = R.xhi /\ reg["xlo"] = R.xlo
    BY <1>6 DEF Holds
  <2>3. Val("xlo") = R.xlo
    BY <2>2, Values
  <2> DEFINE o == op_shr(w, fl, reg["lo"], Shifts("xlo"))
  <2>4. Leaves("lo", op_shr(w, fl, reg["lo"], Shifts("xlo")))
    BY <2>1, Executes
  <2>5. Leaves("lo", o)
    BY <2>2, <2>3, <2>4
  <2> HIDE DEF o
  <2>6. /\ fl' = o.fl /\ code' = Tail(code) /\ trap' = trap
        /\ reg'["hi"] = R.hi /\ reg'["lo"] = o.ret /\ reg'["xhi"] = R.xhi /\ reg'["xlo"] = R.xlo
    BY <2>2, <2>5, Left DEF Regs
  <2>7. R.xlo <= Bits(w) => o.ret = R.lo % Pow2[Bits(w) - R.xlo]
    <3> DEFINE r == R.lo % Pow2[Bits(w) - R.xlo]
    <3>1. ASSUME R.xlo <= Bits(w) PROVE o.ret = r
      <4>1. Shifts("xlo") = R.xlo /\ R.xlo \in 0..Bits(w)
        BY <2>2, <3>1, ShiftCounts
      <4>2. r \in 0..(Pow2[Bits(w) - R.xlo] - 1) /\ Pow2[R.xlo] * r \in Word(w)
        BY <4>1, TypedFacts, ShiftedLeft
      <4>3. reg["lo"] = Pow2[R.xlo] * r
        BY <1>6, <3>1
      <4> HIDE DEF r
      <4>4. r \in Nat
        BY <4>2
      <4> QED BY <4>1, <4>2, <4>3, <4>4, TypedFacts, ShiftedBack DEF o
    <3> QED BY <3>1
  <2> QED BY <1>1, <2>1, <2>5, <2>6, <2>7 DEF Holds
<1> HIDE DEF S0, S1, S2
<1>7. ~S2
  BY <1>1 DEF S2
<1> QED BY <1>1, <1>2, <1>3, <1>5, <1>6, <1>7, Zenon

\* Three times XOR exchanges two registers.
AtSwap ==
    run.prog.name = "swap" =>
        /\ trap = "none"
        /\ \/ code = Listing("swap") /\ Fresh
           \/ Line2(code, I("xor", "xlo", "lo"), I("xor", "lo", "xlo")) /\ Holds(R.hi, op_xor(w, run.fl, R.lo, R.xlo).ret, R.xhi, R.xlo)
           \/ Line1(code, I("xor", "lo", "xlo")) /\ Holds(R.hi, op_xor(w, run.fl, R.lo, R.xlo).ret, R.xhi, R.lo)
           \/ code = << >> /\ Holds(R.hi, R.xlo, R.xhi, R.lo)

\* Every step of the program takes it to its next stage.
LEMMA SwapStep ==
    ASSUME Typed, Next, AtSwap
    PROVE  AtSwap'
<1> DEFINE S0 == code = Listing("swap") /\ Fresh
           S1 == Line2(code, I("xor", "xlo", "lo"), I("xor", "lo", "xlo")) /\ Holds(R.hi, op_xor(w, run.fl, R.lo, R.xlo).ret, R.xhi, R.xlo)
           S2 == Line1(code, I("xor", "lo", "xlo")) /\ Holds(R.hi, op_xor(w, run.fl, R.lo, R.xlo).ret, R.xhi, R.lo)
           S3 == code = << >> /\ Holds(R.hi, R.xlo, R.xhi, R.lo)
<1>1. run' = run /\ R' = R /\ w' = w /\ code # << >>
  BY Dispatch DEF R, w
<1>2. AtSwap <=> (run.prog.name = "swap" => trap = "none" /\ (S0 \/ S1 \/ S2 \/ S3))
  BY Zenon DEF AtSwap
<1>3. AtSwap' <=> (run'.prog.name = "swap" => trap' = "none" /\ (S0' \/ S1' \/ S2' \/ S3'))
  BY Zenon DEF AtSwap
<1>4. Line3(Listing("swap"), I("xor", "lo", "xlo"), I("xor", "xlo", "lo"), I("xor", "lo", "xlo"))
  BY DEF Listing, Line3
<1>5. op_xor(w, run.fl, R.lo, R.xlo).ret \in Word(w)
  BY TypedFacts, XorBack
<1>6. ASSUME S0, run.prog.name = "swap" PROVE trap' = trap /\ S1'
  <2>1. Head(code) = I("xor", "lo", "xlo") /\ Line2(Tail(code), I("xor", "xlo", "lo"), I("xor", "lo", "xlo"))
    BY <1>4, <1>6, Ahead3
  <2>2. reg["hi"] = R.hi /\ reg["lo"] = R.lo /\ reg["xhi"] = R.xhi /\ reg["xlo"] = R.xlo
    BY <1>6 DEF Holds, Fresh
  <2>3. fl = run.fl /\ Val("xlo") = R.xlo
    BY <1>6, <2>2, Values DEF Fresh
  <2> DEFINE o == op_xor(w, run.fl, R.lo, R.xlo)
  <2>4. Leaves("lo", op_xor(w, fl, reg["lo"], Val("xlo")))
    BY <2>1, Executes
  <2>5. Leaves("lo", o)
    BY <2>2, <2>3, <2>4
  <2> HIDE DEF o
  <2>6. /\ fl' = o.fl /\ code' = Tail(code) /\ trap' = trap
        /\ reg'["hi"] = R.hi /\ reg'["lo"] = o.ret /\ reg'["xhi"] = R.xhi /\ reg'["xlo"] = R.xlo
    BY <2>2, <2>5, Left DEF Regs
  <2>7. o.ret = op_xor(w, run.fl, R.lo, R.xlo).ret
    BY DEF o
  <2> QED BY <1>1, <2>1, <2>5, <2>6, <2>7 DEF Holds
<1>7. ASSUME S1, run.prog.name = "swap" PROVE trap' = trap /\ S2'
  <2>1. Head(code) = I("xor", "xlo", "lo") /\ Line1(Tail(code), I("xor", "lo", "xlo"))
    BY <1>7, Ahead2
  <2>2. reg["hi"] = R.hi /\ reg["lo"] = op_xor(w, run.fl, R.lo, R.xlo).ret /\ reg["xhi"] = R.xhi /\ reg["xlo"] = R.xlo
    BY <1>7 DEF Holds
  <2>3. Val("lo") = op_xor(w, run.fl, R.lo, R.xlo).ret
    BY <2>2, Values
  <2> DEFINE o == op_xor(w, fl, R.xlo, op_xor(w, run.fl, R.lo, R.xlo).ret)
  <2>4. Leaves("xlo", op_xor(w, fl, reg["xlo"], Val("lo")))
    BY <2>1, Executes
  <2>5. Leaves("xlo", o)
    BY <2>2, <2>3, <2>4
  <2> HIDE DEF o
  <2>6. /\ fl' = o.fl /\ code' = Tail(code) /\ trap' = trap
        /\ reg'["hi"] = R.hi /\ reg'["lo"] = op_xor(w, run.fl, R.lo, R.xlo).ret /\ reg'["xhi"] = R.xhi /\ reg'["xlo"] = o.ret
    BY <2>2, <2>5, Left DEF Regs
  <2>7. o.ret = R.lo
    BY TypedFacts, XorBack DEF o
  <2> QED BY <1>1, <2>1, <2>5, <2>6, <2>7 DEF Holds
<1>8. ASSUME S2, run.prog.name = "swap" PROVE trap' = trap /\ S3'
  <2>1. Head(code) = I("xor", "lo", "xlo") /\ Tail(code) = << >>
    BY <1>8, Ahead1
  <2>2. reg["hi"] = R.hi /\ reg["lo"] = op_xor(w, run.fl, R.lo, R.xlo).ret /\ reg["xhi"] = R.xhi /\ reg["xlo"] = R.lo
    BY <1>8 DEF Holds
  <2>3. Val("xlo") = R.lo
    BY <2>2, Values
  <2> DEFINE o == op_xor(w, fl, op_xor(w, run.fl, R.lo, R.xlo).ret, R.lo)
  <2>4. Leaves("lo", op_xor(w, fl, reg["lo"], Val("xlo")))
    BY <2>1, Executes
  <2>5. Leaves("lo", o)
    BY <2>2, <2>3, <2>4
  <2> HIDE DEF o
  <2>6. /\ fl' = o.fl /\ code' = Tail(code) /\ trap' = trap
        /\ reg'["hi"] = R.hi /\ reg'["lo"] = o.ret /\ reg'["xhi"] = R.xhi /\ reg'["xlo"] = R.lo
    BY <2>2, <2>5, Left DEF Regs
  <2>7. o.ret = R.xlo
    BY TypedFacts, XorBack DEF o
  <2> QED BY <1>1, <2>1, <2>5, <2>6, <2>7 DEF Holds
<1> HIDE DEF S0, S1, S2, S3
<1>9. ~S3
  BY <1>1 DEF S3
<1> QED BY <1>1, <1>2, <1>3, <1>6, <1>7, <1>8, <1>9, Zenon

\* The programs that shift and rotate.
Rotating ==
    /\ Typed
    /\ AtWideShl /\ AtWideShr /\ AtWideSar /\ AtRolRor /\ AtRclRcr /\ AtRclThreeRcr
    /\ AtShlShr /\ AtSwap

\* They are at their first stage at the start.
LEMMA RotatingInit == Init => Rotating
  BY TypedInit, FreshInit
  DEF Rotating, AtWideShl, AtWideShr, AtWideSar, AtRolRor, AtRclRcr, AtRclThreeRcr, AtShlShr, AtSwap

\* And at one of their stages after every step.
LEMMA RotatingStep == Rotating /\ [Next]_vars => Rotating'
<1>1. ASSUME Rotating, UNCHANGED vars PROVE Rotating'
  <2>1. R' = R /\ w' = w /\ run' = run /\ code' = code /\ trap' = trap /\ reg' = reg /\ fl' = fl
        /\ mask_5bit_shiftcount' = mask_5bit_shiftcount
    BY <1>1 DEF vars, R, w
  <2>2. Typed'
    BY <1>1, <2>1 DEF Rotating, Typed, Started, Machine, Program, Registers
  <2>3. AtWideShl' /\ AtWideShr' /\ AtWideSar'
    BY <1>1, <2>1 DEF Rotating, AtWideShl, AtWideShr, AtWideSar, Holds, Fresh
  <2>4. AtRolRor' /\ AtRclRcr' /\ AtRclThreeRcr'
    BY <1>1, <2>1 DEF Rotating, AtRolRor, AtRclRcr, AtRclThreeRcr, TurnedBy, Holds, Fresh
  <2>5. AtShlShr' /\ AtSwap'
    BY <1>1, <2>1 DEF Rotating, AtShlShr, AtSwap, Holds, Fresh
  <2> QED BY <2>2, <2>3, <2>4, <2>5 DEF Rotating
<1> QED
  BY <1>1, TypedStep, WideShlStep, WideShrStep, WideSarStep, RolRorStep, RclRcrStep, RclThreeRcrStep,
     ShlShrStep, SwapStep
  DEF Rotating

\* The registers are known by what each holds.
LEMMA SameRegisters ==
    ASSUME Typed, reg["hi"] = R.hi, reg["xhi"] = R.xhi
    PROVE  /\ reg["lo"] = R.lo /\ reg["xlo"] = R.xlo => reg = R
           /\ reg["lo"] = R.xlo /\ reg["xlo"] = R.lo => reg = [R EXCEPT !["lo"] = R.xlo, !["xlo"] = R.lo]
<1>1. reg \in [Regs -> Word(w)] /\ R \in [Regs -> Word(w)]
  BY DEF Typed, Started, Machine, Registers, R
<1>2. Regs = {"hi", "lo", "xhi", "xlo"}
  BY DEF Regs
<1>3. ASSUME reg["lo"] = R.lo, reg["xlo"] = R.xlo PROVE reg = R
  <2>1. \A r \in Regs : reg[r] = R[r]
    BY <1>2, <1>3
  <2> QED BY <1>1, <2>1
<1>4. ASSUME reg["lo"] = R.xlo, reg["xlo"] = R.lo
      PROVE  reg = [R EXCEPT !["lo"] = R.xlo, !["xlo"] = R.lo]
  <2> DEFINE x == [R EXCEPT !["lo"] = R.xlo, !["xlo"] = R.lo]
  <2>1. x \in [Regs -> Word(w)] /\ x["hi"] = R.hi /\ x["lo"] = R.xlo /\ x["xhi"] = R.xhi /\ x["xlo"] = R.lo
    BY <1>1, <1>2
  <2> HIDE DEF x
  <2>2. \A r \in Regs : reg[r] = x[r]
    BY <1>2, <1>4, <2>1
  <2> QED BY <1>1, <2>1, <2>2 DEF x
<1> QED BY <1>3, <1>4

\* At their ends a number is doubled or halved, or all is as it was.
LEMMA RotatingIsUndone ==
    ASSUME Rotating
    PROVE  RotationsUndone
<1>0. /\ w \in Widths /\ R.hi \in Word(w) /\ R.lo \in Word(w) /\ R.xhi \in Word(w) /\ R.xlo \in Word(w)
      /\ Size(w) \in Nat /\ R.hi \in Nat /\ R.lo \in Nat /\ Typed
  BY TypedFacts, Sizes DEF Rotating, Word
<1>1. ASSUME Ended("wide shl") PROVE V = (2 * A) % Square /\ fl.cf = Msb(w, R.hi)
  <2> DEFINE k == Carry(w, R.lo, R.lo)
  <2>1. reg["hi"] = Plus(w, R.hi, R.hi + k) /\ reg["lo"] = Plus(w, R.lo, R.lo) /\ fl.cf = Msb(w, R.hi)
    BY <1>1, Listed DEF Rotating, AtWideShl, Ended, Holds
  <2>2. Joined(w, Plus(w, R.hi, R.hi + k), Plus(w, R.lo, R.lo)) = (A + A) % Square
    BY <1>0, WideSum DEF A, Square
  <2>3. A + A = 2 * A
    <3>1. A \in Int
      BY <1>0 DEF A, Joined
    <3> QED BY <3>1
  <2> HIDE DEF k
  <2> QED BY <2>1, <2>2, <2>3 DEF V
<1>2. ASSUME Ended("wide shr") PROVE V = A \div 2 /\ fl.cf = R.lo % 2
  <2>1. reg["hi"] = R.hi \div 2 /\ reg["lo"] = (Half(w) * (R.hi % 2)) + (R.lo \div 2) /\ fl.cf = R.lo % 2
    BY <1>2, Listed DEF Rotating, AtWideShr, Ended, Holds
  <2>2. Joined(w, R.hi \div 2, Half(w) * (R.hi % 2) + (R.lo \div 2)) = A \div 2
    BY <1>0, WideHalf DEF A
  <2> QED BY <2>1, <2>2 DEF V
<1>3. ASSUME Ended("wide sar"), w = "byte" PROVE V = (SignedJoined(w, R.hi, R.lo) \div 2) % Square
  <2>1. /\ reg["hi"] = (R.hi \div 2) + 128 * Msb(w, R.hi)
        /\ reg["lo"] = (Half(w) * (R.hi % 2)) + (R.lo \div 2)
    BY <1>3, Listed DEF Rotating, AtWideSar, Ended, Holds
  <2>2. Joined(w, (R.hi \div 2) + 128 * Msb(w, R.hi), Half(w) * (R.hi % 2) + (R.lo \div 2))
        = (SignedJoined(w, R.hi, R.lo) \div 2) % (Size(w) * Size(w))
    BY <1>0, <1>3, WideHalf
  <2> QED BY <2>1, <2>2 DEF V, Square
<1>4. ASSUME Ended("rol ror") PROVE reg = R
  <2>1. Holds(R.hi, R.lo, R.xhi, R.xlo)
    BY <1>4, Listed DEF Rotating, AtRolRor, Ended
  <2> QED BY <1>0, <2>1, SameRegisters DEF Holds
<1>5. ASSUME Ended("rcl rcr") PROVE reg = R /\ fl.cf = run.fl.cf
  <2>1. Holds(R.hi, R.lo, R.xhi, R.xlo) /\ fl.cf = run.fl.cf
    BY <1>5, Listed DEF Rotating, AtRclRcr, Ended
  <2> QED BY <1>0, <2>1, SameRegisters DEF Holds
<1>6. ASSUME Ended("rcl 3 rcr") PROVE reg = R /\ fl.cf = run.fl.cf
  <2>1. Holds(R.hi, R.lo, R.xhi, R.xlo) /\ fl.cf = run.fl.cf
    BY <1>6, Listed DEF Rotating, AtRclThreeRcr, Ended
  <2> QED BY <1>0, <2>1, SameRegisters DEF Holds
<1>7. ASSUME Ended("shl shr"), R.xlo <= Bits(w) PROVE reg["lo"] = R.lo % Pow2[Bits(w) - R.xlo]
  BY <1>7, Listed DEF Rotating, AtShlShr, Ended
<1>8. ASSUME Ended("swap") PROVE reg = [R EXCEPT !["lo"] = R.xlo, !["xlo"] = R.lo]
  <2>1. Holds(R.hi, R.xlo, R.xhi, R.lo)
    BY <1>8, Listed DEF Rotating, AtSwap, Ended
  <2> QED BY <1>0, <2>1, SameRegisters DEF Holds
<1> QED BY <1>1, <1>2, <1>3, <1>4, <1>5, <1>6, <1>7, <1>8, Zenon DEF RotationsUndone

\* Shifts carry bits from limb to limb, and a rotation is undone by its opposite, whatever
\* the operands and the count (the property RotationsUndone).
THEOREM Softx86AluRotationsUndone == Spec => []RotationsUndone
<1> QED BY RotatingInit, RotatingStep, RotatingIsUndone, PTL DEF Spec

-----------------------------------------------------------------------------
(***************************************************************************)
(* Multiplication and division, one after the other.                       *)
(***************************************************************************)
\* A number within the signed range comes back from its low bits.
LEMMA SignedBack ==
    ASSUME NEW v \in Widths, NEW x \in (0 - Half(v))..(Half(v) - 1)
    PROVE  x % Size(v) \in Word(v) /\ Signed(v, x % Size(v)) = x
<1> DEFINE n == Size(v)
           h == Half(v)
           y == x % n
<1>1. n \in Nat /\ h \in Nat /\ h > 0 /\ n = 2 * h /\ Word(v) = 0..(n - 1) /\ Ones(v) = n - 1
  BY Sizes DEF Word
<1>2. x \in Int /\ x >= 0 - h /\ x <= h - 1
  BY <1>1
<1>3. y = IF x >= 0 THEN x ELSE x + n
  BY <1>1, <1>2, Cut
<1> HIDE DEF y
<1>4. y \in Word(v)
  <2>1. y \in 0..(n - 1)
    <3> HIDE DEF n, h
    <3> QED BY <1>1, <1>2, <1>3
  <2> QED BY <1>1, <2>1
<1>5. Signed(v, y) = IF y >= h THEN y - n ELSE y
  BY <1>4, SignedWord
<1> HIDE DEF n, h
<1>6. Signed(v, y) = x
  BY <1>1, <1>2, <1>3, <1>5
<1> QED BY <1>4, <1>6 DEF y, n

\* So does one of two words.
LEMMA SignedPairBack ==
    ASSUME NEW v \in Widths, NEW x \in Int,
           x >= 0 - (Half(v) * Size(v)), x < Half(v) * Size(v)
    PROVE  LET p == x % (Size(v) * Size(v))
           IN  /\ p \in 0..(Size(v) * Size(v) - 1)
               /\ SignedJoined(v, p \div Size(v), p % Size(v)) = x
<1> DEFINE n == Size(v)
           h == Half(v)
           g == h * n
           k == n * n
           p == x % k
           a == p \div n
           b == p % n
           an == a * n
<1>1. n \in Nat /\ h \in Nat /\ h > 0 /\ n = 2 * h /\ n > 0
  BY Sizes
<1>2. g \in Nat /\ g > 0 /\ k = 2 * g
  BY <1>1
<1>3. x \in Int /\ x >= 0 - g /\ x < g
  OBVIOUS
<1> HIDE DEF n, h
<1>4. p = (IF x >= 0 THEN x ELSE x + k) /\ p \in 0..(k - 1)
  <2> HIDE DEF g, k
  <2>1. k \in Nat /\ k > 0
    BY <1>2
  <2>2. ASSUME x >= 0 PROVE x % k = x
    <3>1. x = k * 0 + x /\ x \in 0..(k - 1)
      BY <1>2, <1>3, <2>1, <2>2
    <3> QED BY <2>1, <3>1, DivModUnique
  <2>3. ASSUME x < 0 PROVE x % k = x + k
    <3>1. x = k * (-1) + (x + k) /\ x + k \in 0..(k - 1)
      BY <1>2, <1>3, <2>1, <2>3
    <3> QED BY <2>1, <3>1, DivModUnique
  <2> QED BY <1>2, <1>3, <2>2, <2>3
<1> HIDE DEF p
<1>5. a \in Word(v) /\ b \in Word(v) /\ p = a * n + b
  BY <1>4, DoubleWord DEF k, n
<1>6. a \in 0..(n - 1) /\ b \in 0..(n - 1)
  BY <1>5, Sizes DEF Word, n
<1> HIDE DEF a, b
<1>7. Signed(v, a) = IF a >= h THEN a - n ELSE a
  BY <1>5, SignedWord DEF n, h
<1>8. SignedJoined(v, a, b) = (IF a >= h THEN an - k ELSE an) + b
  <2>1. (a - n) * n = an - k
    BY <1>1, <1>6
  <2> QED BY <1>7, <2>1 DEF SignedJoined, n
<1>9. (a >= h => an >= g) /\ (a < h => an <= g - n) /\ an \in Int
  <2>1. ASSUME a >= h PROVE a * n >= h * n
    BY <1>1, <1>6, <2>1
  <2>2. ASSUME a < h PROVE a * n <= g - n
    <3>1. a <= h - 1
      BY <1>1, <1>6, <2>2
    <3>2. a * n <= (h - 1) * n /\ (h - 1) * n = h * n - n
      BY <1>1, <1>6, <3>1
    <3> QED BY <3>2
  <2> QED BY <1>1, <1>6, <2>1, <2>2
<1>10. p = an + b
  BY <1>5
<1> HIDE DEF an, g, k
<1>11. SignedJoined(v, a, b) = x
  <2>1. CASE x >= 0
    <3>1. ~(a >= h)
      BY <1>1, <1>2, <1>3, <1>4, <1>6, <1>9, <1>10, <2>1
    <3> QED BY <1>1, <1>2, <1>3, <1>4, <1>6, <1>8, <1>9, <1>10, <2>1, <3>1
  <2>2. CASE x < 0
    <3>1. a >= h
      BY <1>1, <1>2, <1>3, <1>4, <1>6, <1>9, <1>10, <2>2
    <3> QED BY <1>1, <1>2, <1>3, <1>4, <1>6, <1>8, <1>9, <1>10, <2>2, <3>1
  <2> QED BY <1>3, <2>1, <2>2
<1> QED BY <1>4, <1>11 DEF a, b, p, k, n

\* C division: the remainder is smaller than the divisor and of the sign of the dividend.
LEMMA Truncates ==
    ASSUME NEW a \in Int, NEW b \in Int, b # 0
    PROVE  LET q == Quot(a, b)
               r == Remain(a, b)
           IN  /\ q \in Int /\ r \in Int /\ a = b * q + r
               /\ AbsInt(r) < AbsInt(b) /\ (r = 0 \/ (r < 0 <=> a < 0))
               /\ AbsInt(q) <= AbsInt(a)
               /\ (q > 0 => (a < 0 <=> b < 0))
               /\ (AbsInt(b) >= 2 => 2 * AbsInt(q) <= AbsInt(a))
<1> DEFINE q == Quot(a, b)
           r == Remain(a, b)
           x == AbsInt(a)
           y == AbsInt(b)
           d == x \div y
           m == x % y
           yd == y * d
<1>1. /\ x \in Nat /\ y \in Nat /\ y > 0
      /\ x = (IF a < 0 THEN 0 - a ELSE a) /\ y = (IF b < 0 THEN 0 - b ELSE b)
  BY DEF AbsInt
<1>2. r = a - b * q
  BY DEF Remain
<1>3. q = IF (a < 0) = (b < 0) THEN d ELSE 0 - d
  BY DEF Quot
<1> HIDE DEF x, y, q, r
<1>4. d \in Int /\ m \in 0..(y - 1) /\ x = yd + m
  <2>1. x \in Int /\ y \in Nat /\ y > 0
    BY <1>1
  <2>2. d \in Int /\ m \in 0..(y - 1)
    BY <2>1, DivMod
  <2>3. x = y * (x \div y) + (x % y)
    BY <2>1, DivMod
  <2> QED BY <2>2, <2>3
<1> HIDE DEF d, m
<1>5. d >= 0
  <2>1. ASSUME d <= -1 PROVE FALSE
    <3>1. y * d <= y * (-1)
      BY <1>1, <1>4, <2>1
    <3> QED BY <1>1, <1>4, <3>1
  <2> QED BY <1>4, <2>1
<1>6. yd >= d /\ (y >= 2 => yd >= 2 * d) /\ yd \in Int
  <2>1. y * d >= 1 * d
    BY <1>1, <1>4, <1>5
  <2>2. ASSUME y >= 2 PROVE y * d >= 2 * d
    BY <1>1, <1>4, <1>5, <2>2
  <2> QED BY <1>1, <1>4, <2>1, <2>2
<1>7. q \in Int /\ b * q = IF a < 0 THEN 0 - yd ELSE yd
  <2>1. CASE a < 0 /\ b < 0
    BY <1>1, <1>3, <1>4, <2>1
  <2>2. CASE a < 0 /\ ~(b < 0)
    BY <1>1, <1>3, <1>4, <2>2
  <2>3. CASE ~(a < 0) /\ b < 0
    BY <1>1, <1>3, <1>4, <2>3
  <2>4. CASE ~(a < 0) /\ ~(b < 0)
    BY <1>1, <1>3, <1>4, <2>4
  <2> QED BY <2>1, <2>2, <2>3, <2>4
<1> DEFINE bq == b * q
<1>8. bq = (IF a < 0 THEN 0 - yd ELSE yd) /\ r = a - bq
  BY <1>2, <1>7
<1> HIDE DEF yd
<1>9. bq \in Int
  BY <1>6, <1>8
<1> HIDE DEF bq
<1>10. r = IF a < 0 THEN 0 - m ELSE m
  BY <1>1, <1>4, <1>6, <1>8
<1>11. r \in Int /\ a = bq + r
  BY <1>4, <1>8, <1>9, <1>10
<1>12. AbsInt(r) < y /\ (r = 0 \/ (r < 0 <=> a < 0))
  BY <1>1, <1>4, <1>10 DEF AbsInt
<1>13. AbsInt(q) = d
  BY <1>3, <1>4, <1>5 DEF AbsInt
<1>14. AbsInt(q) <= x /\ (y >= 2 => 2 * AbsInt(q) <= x)
  BY <1>1, <1>4, <1>6, <1>13
<1>15. q > 0 => (a < 0 <=> b < 0)
  BY <1>3, <1>4, <1>5
<1> QED BY <1>7, <1>11, <1>12, <1>14, <1>15 DEF q, r, x, y, bq

\* A product divided by its factor.
LEMMA Exact ==
    ASSUME NEW a \in Int, NEW b \in Int, b # 0
    PROVE  Quot(a * b, b) = a /\ Remain(a * b, b) = 0
<1> DEFINE p == a * b
           q == Quot(p, b)
           r == Remain(p, b)
<1>1. p \in Int
  OBVIOUS
<1>2. q \in Int /\ r \in Int /\ p = b * q + r /\ AbsInt(r) < AbsInt(b)
  <2> HIDE DEF p
  <2> QED BY <1>1, Truncates
<1> HIDE DEF q, r
<1>3. b * (a - q) = r
  BY <1>2
<1>4. a = q
  <2> DEFINE e == a - q
  <2>1. e \in Int /\ b * e = r
    BY <1>2, <1>3
  <2> HIDE DEF e
  <2>2. AbsInt(b) = (IF b < 0 THEN 0 - b ELSE b) /\ AbsInt(r) = (IF r < 0 THEN 0 - r ELSE r)
    BY DEF AbsInt
  <2>3. CASE e >= 1 /\ b > 0
    <3>1. b * e >= b * 1
      BY <2>1, <2>3
    <3> QED BY <1>2, <2>1, <2>2, <2>3, <3>1
  <2>4. CASE e >= 1 /\ b < 0
    <3>1. b * e <= b * 1
      BY <2>1, <2>4
    <3> QED BY <1>2, <2>1, <2>2, <2>4, <3>1
  <2>5. CASE e <= -1 /\ b > 0
    <3>1. b * e <= b * (-1)
      BY <2>1, <2>5
    <3> QED BY <1>2, <2>1, <2>2, <2>5, <3>1
  <2>6. CASE e <= -1 /\ b < 0
    <3>1. b * e >= b * (-1)
      BY <2>1, <2>6
    <3> QED BY <1>2, <2>1, <2>2, <2>6, <3>1
  <2>7. CASE e = 0
    BY <1>2, <2>7 DEF e
  <2>8. b > 0 \/ b < 0
    OBVIOUS
  <2>9. e >= 1 \/ e <= -1 \/ e = 0
    BY <2>1
  <2> QED BY <2>3, <2>4, <2>5, <2>6, <2>7, <2>8, <2>9
<1>5. r = 0
  BY <1>3, <1>4
<1> QED BY <1>4, <1>5 DEF q, r

\* MUL and DIV.
LEMMA MulDiv ==
    ASSUME NEW v \in Widths, NEW f \in FlagSet, NEW g \in FlagSet, NEW a \in Word(v), NEW s \in Word(v)
    PROVE  LET p == op_mul(v, f, a, s)
               o == op_div(v, g, p.hi, p.lo, s)
           IN  /\ DivTraps(v, p.hi, p.lo, s) => s = 0
               /\ s # 0 => o.lo = a /\ (v = "byte" => o.hi = 0)
<1> DEFINE n == Size(v)
           x == a * s
           hi == x \div n
           lo == x % n
<1>1. n \in Nat /\ n > 0 /\ Ones(v) = n - 1 /\ a \in 0..(n - 1) /\ s \in 0..(n - 1)
  BY Sizes DEF Word
<1>2. Joined(v, hi, lo) = x /\ x \in Int
  BY <1>1, ProductOfWords, DoubleWord DEF Joined
<1> HIDE DEF n, x
<1>3. ASSUME s # 0 PROVE x \div s = a /\ x % s = 0
  <2>1. x = s * a + 0
    BY <1>1 DEF x
  <2>2. 0 \in 0..(s - 1) /\ s \in Nat /\ s > 0 /\ a \in Int
    BY <1>1, <1>3
  <2> QED BY <1>2, <2>1, <2>2, DivModUnique
<1>4. op_mul(v, f, a, s).hi = hi /\ op_mul(v, f, a, s).lo = lo
  BY DEF op_mul, Product, x, n
<1> HIDE DEF hi, lo
<1>5. ASSUME s # 0 PROVE ~DivTraps(v, hi, lo, s)
  <2>1. ~(a > Ones(v))
    BY <1>1
  <2> QED BY <1>2, <1>3, <1>5, <2>1 DEF DivTraps
<1>6. a % n = a /\ 0 % n = 0
  <2>1. a = n * 0 + a /\ 0 = n * 0 + 0 /\ 0 \in 0..(n - 1) /\ a \in Int
    BY <1>1
  <2> QED BY <1>1, <2>1, DivModUnique
<1>7. ASSUME s # 0 PROVE op_div(v, g, hi, lo, s).lo = a /\ (v = "byte" => op_div(v, g, hi, lo, s).hi = 0)
  BY <1>2, <1>3, <1>6, <1>7 DEF op_div, Divided, n
<1> QED BY <1>4, <1>5, <1>7

\* IMUL and IDIV.
LEMMA ImulIdiv ==
    ASSUME NEW v \in Widths, NEW f \in FlagSet, NEW g \in FlagSet, NEW a \in Word(v), NEW s \in Word(v)
    PROVE  LET p == op_imul(v, f, a, s)
               o == op_idiv(v, g, p.hi, p.lo, s)
           IN  /\ IdivTraps(v, p.hi, p.lo, s) => s = 0
               /\ s # 0 => o.lo = a /\ (v = "byte" => o.hi = 0)
<1> DEFINE n == Size(v)
           h == Half(v)
           sa == Signed(v, a)
           sb == Signed(v, s)
           x == sa * sb
           p == x % (n * n)
           hi == p \div n
           lo == p % n
<1>1. n \in Nat /\ h \in Nat /\ h > 0 /\ n = 2 * h /\ a \in 0..(n - 1) /\ s \in 0..(n - 1) /\ n \div 2 = h
  <2>1. n \in Nat /\ h \in Nat /\ h > 0 /\ n = 2 * h /\ a \in 0..(n - 1) /\ s \in 0..(n - 1)
    BY Sizes DEF Word
  <2> HIDE DEF n, h
  <2> QED BY <2>1
<1>2. /\ sa \in (0 - h)..(h - 1) /\ sb \in (0 - h)..(h - 1) /\ (sb = 0 <=> s = 0)
      /\ sa = (IF a >= h THEN a - n ELSE a)
  BY SignedWord
<1> HIDE DEF n, h, sa, sb
<1>3. x \in Int /\ x >= 0 - (h * n) /\ x < h * n
  <2>1. sa \in Int /\ sb \in Int /\ sa <= h /\ 0 - sa <= h /\ sb <= h /\ 0 - sb <= h
    BY <1>1, <1>2
  <2>2. (h - sa) * (h + sb) >= 0 /\ (h + sa) * (h - sb) >= 0 /\ (h - sa) * (h - sb) >= 0 /\ (h + sa) * (h + sb) >= 0
    <3>1. ASSUME NEW c \in Int, NEW d \in Int, c >= 0, d >= 0 PROVE c * d >= 0
      BY <3>1
    <3>2. h - sa >= 0 /\ h + sa >= 0 /\ h - sb >= 0 /\ h + sb >= 0
          /\ h - sa \in Int /\ h + sa \in Int /\ h - sb \in Int /\ h + sb \in Int
      BY <1>1, <2>1
    <3> QED BY <3>1, <3>2
  <2> DEFINE hh == h * h
             ha == h * sa
             hb == h * sb
  <2>3. /\ (h - sa) * (h + sb) = ((hh + hb) - ha) - x /\ (h + sa) * (h - sb) = ((hh - hb) + ha) - x
        /\ (h - sa) * (h - sb) = ((hh - hb) - ha) + x /\ (h + sa) * (h + sb) = ((hh + hb) + ha) + x
    BY <1>1, <2>1
  <2>4. hh \in Int /\ ha \in Int /\ hb \in Int /\ x \in Int
    BY <1>1, <2>1
  <2>5. h * n = 2 * hh /\ hh > 0
    BY <1>1
  <2> HIDE DEF hh, ha, hb, x
  <2>6. ((hh + hb) - ha) - x >= 0 /\ ((hh - hb) + ha) - x >= 0
        /\ ((hh - hb) - ha) + x >= 0 /\ ((hh + hb) + ha) + x >= 0
    BY <2>2, <2>3
  <2>7. x >= 0 - hh /\ x <= hh
    BY <2>4, <2>6
  <2> QED BY <2>4, <2>5, <2>7
<1>4. SignedJoined(v, hi, lo) = x
  <2> HIDE DEF x
  <2> QED BY <1>3, SignedPairBack DEF n, h
<1>5. ASSUME s # 0 PROVE Quot(x, sb) = sa /\ Remain(x, sb) = 0
  <2>1. sa \in Int /\ sb \in Int /\ sb # 0
    BY <1>1, <1>2, <1>5
  <2> QED BY <2>1, Exact
<1>6. op_imul(v, f, a, s).hi = hi /\ op_imul(v, f, a, s).lo = lo
  BY DEF op_imul, Product, x, n, sa, sb
<1> HIDE DEF hi, lo, x
<1>7. ASSUME s # 0 PROVE ~IdivTraps(v, hi, lo, s)
  <2>1. ~(sa < 0 - h) /\ ~(sa >= h)
    BY <1>1, <1>2
  <2>2. Size(v) \div 2 = h
    BY <1>1 DEF n
  <2>3. IdivTraps(v, hi, lo, s) <=> sa < 0 - h \/ sa >= h
    BY <1>4, <1>5, <1>7, <2>2 DEF IdivTraps, sb
  <2> QED BY <2>1, <2>3
<1>8. sa % n = a /\ 0 % n = 0
  <2>1. sa % n = a
    <3> DEFINE e == IF a >= h THEN -1 ELSE 0
    <3>1. sa = n * e + a /\ e \in Int /\ sa \in Int /\ n > 0
      BY <1>1, <1>2
    <3> HIDE DEF e
    <3> QED BY <1>1, <3>1, DivModUnique
  <2>2. 0 % n = 0
    BY <1>1
  <2> QED BY <2>1, <2>2
<1>9. ASSUME s # 0
      PROVE  op_idiv(v, g, hi, lo, s).lo = a /\ (v = "byte" => op_idiv(v, g, hi, lo, s).hi = 0)
  BY <1>4, <1>5, <1>8, <1>9 DEF op_idiv, Divided, n, sb
<1> QED BY <1>6, <1>7, <1>9

\* DIV signals where the quotient does not fit, and else quotient and remainder are whole.
LEMMA DivWhole ==
    ASSUME NEW v \in Widths, NEW f \in FlagSet, NEW a \in Word(v), NEW b \in Word(v), NEW s \in Word(v)
    PROVE  LET o == op_div(v, f, a, b, s)
           IN  /\ DivTraps(v, a, b, s) => a >= s
               /\ ~DivTraps(v, a, b, s) /\ (v = "word" => a = 0) =>
                     Joined(v, a, b) = o.lo * s + o.hi /\ o.hi < s
<1> DEFINE n == Size(v)
           x == Joined(v, a, b)
           q == x \div s
           r == x % s
<1>1. n \in Nat /\ n > 0 /\ Ones(v) = n - 1 /\ a \in 0..(n - 1) /\ b \in 0..(n - 1) /\ s \in 0..(n - 1)
  BY Sizes DEF Word
<1>2. x = a * n + b /\ x \in Int
  BY <1>1 DEF Joined
<1> HIDE DEF n, x
<1>3. s # 0 => q \in Int /\ r \in 0..(s - 1) /\ x = s * q + r
  BY <1>1, <1>2, DivMod
<1>4. DivTraps(v, a, b, s) <=> s = 0 \/ q > n - 1
  BY <1>1 DEF DivTraps, x
<1> HIDE DEF q, r
<1>5. ASSUME DivTraps(v, a, b, s) PROVE a >= s
  <2>1. CASE s = 0
    BY <1>1, <2>1
  <2>2. CASE s # 0 /\ a <= s - 1
    <3>1. q >= n
      BY <1>1, <1>3, <1>4, <1>5, <2>2
    <3>2. s * q >= s * n
      BY <1>1, <1>3, <2>2, <3>1
    <3>3. a * n <= (s - 1) * n /\ (s - 1) * n = s * n - n /\ a * n \in Int /\ s * n \in Int /\ s * q \in Int
      BY <1>1, <1>3, <2>2
    <3> DEFINE an == a * n
               sn == s * n
               sq == s * q
    <3>4. sq >= sn /\ an <= sn - n /\ an \in Int /\ sn \in Int /\ sq \in Int
      BY <3>2, <3>3
    <3>5. x = an + b /\ x = sq + r
      BY <1>2, <1>3, <2>2
    <3> HIDE DEF an, sn, sq
    <3>6. FALSE
      BY <1>1, <1>3, <2>2, <3>4, <3>5
    <3> QED BY <3>6
  <2> QED BY <1>1, <2>1, <2>2
<1>6. ASSUME ~DivTraps(v, a, b, s), v = "word" => a = 0
      PROVE  x = op_div(v, f, a, b, s).lo * s + op_div(v, f, a, b, s).hi /\ op_div(v, f, a, b, s).hi < s
  <2>1. s # 0 /\ q <= n - 1 /\ q \in Int /\ r \in 0..(s - 1) /\ x = s * q + r
    BY <1>1, <1>3, <1>4, <1>6
  <2>2. q >= 0
    <3>1. x >= 0
      <4>1. a * n >= 0 /\ a * n \in Int
        BY <1>1
      <4> QED BY <1>1, <1>2, <4>1
    <3>2. ASSUME q <= -1 PROVE FALSE
      <4>1. s * q <= s * (-1)
        BY <1>1, <2>1, <3>2
      <4> QED BY <1>1, <2>1, <3>1, <4>1
    <3> QED BY <2>1, <3>2
  <2>3. q % n = q /\ r % n = r
    <3>1. q = n * 0 + q /\ r = n * 0 + r /\ q \in 0..(n - 1) /\ r \in 0..(n - 1)
      BY <1>1, <2>1, <2>2
    <3>2. \A y \in 0..(n - 1) : y = n * 0 + y => y % n = y
      BY <1>1, DivModUnique
    <3> QED BY <3>1, <3>2
  <2>4. op_div(v, f, a, b, s).lo = q % n
    BY DEF op_div, Divided, q, x, n
  <2>5. op_div(v, f, a, b, s).hi = r % n
    <3>1. CASE v = "byte"
      BY <3>1 DEF op_div, Divided, r, x, n
    <3>2. CASE v = "word"
      <4>1. x = b
        BY <1>1, <1>2, <1>6, <3>2
      <4>2. op_div(v, f, a, b, s).hi = (b % s) % n
        BY <3>2 DEF op_div, Divided, n
      <4> QED BY <4>1, <4>2 DEF r
    <3> QED BY <3>1, <3>2 DEF Widths
  <2>6. s * q = q * s
    BY <1>1, <2>1
  <2> QED BY <1>1, <2>1, <2>3, <2>4, <2>5, <2>6
<1> QED BY <1>5, <1>6 DEF x

\* So does IDIV of a word that CBW or CWD has extended by its sign.
LEMMA IdivWhole ==
    ASSUME NEW v \in Widths, NEW f \in FlagSet, NEW lo \in Word(v), NEW s \in Word(v)
    PROVE  LET hi == Msb(v, lo) * Ones(v)
               a == Signed(v, lo)
               b == Signed(v, s)
               o == op_idiv(v, f, hi, lo, s)
               q == Signed(v, o.lo)
               r == Signed(v, o.hi)
           IN  /\ IdivTraps(v, hi, lo, s) => b = 0 \/ (b = -1 /\ a = 0 - Half(v))
               /\ ~IdivTraps(v, hi, lo, s) =>
                     /\ a = q * b + r /\ AbsInt(r) < AbsInt(b)
                     /\ r = 0 \/ (r < 0 <=> a < 0)
<1> DEFINE n == Size(v)
           h == Half(v)
           hi == Msb(v, lo) * Ones(v)
           a == Signed(v, lo)
           b == Signed(v, s)
           q == Quot(a, b)
           r == Remain(a, b)
           o == op_idiv(v, f, hi, lo, s)
<1>1. n \in Nat /\ h \in Nat /\ h > 1 /\ n = 2 * h /\ Ones(v) = n - 1 /\ lo \in 0..(n - 1) /\ s \in 0..(n - 1) /\ n \div 2 = h
  <2>1. n \in Nat /\ h \in Nat /\ h >= 128 /\ n = 2 * h /\ Ones(v) = n - 1 /\ lo \in 0..(n - 1) /\ s \in 0..(n - 1)
    BY Sizes DEF Word
  <2> HIDE DEF n, h
  <2> QED BY <2>1
<1>2. /\ a \in (0 - h)..(h - 1) /\ b \in (0 - h)..(h - 1) /\ (b = 0 <=> s = 0)
      /\ a = (IF lo >= h THEN lo - n ELSE lo)
  BY SignedWord
<1>3. Msb(v, lo) = (IF lo >= h THEN 1 ELSE 0)
  BY SignBit
<1>4. hi \in Word(v) /\ hi = (IF lo >= h THEN n - 1 ELSE 0)
  <2>1. hi = (IF lo >= h THEN n - 1 ELSE 0)
    BY <1>1, <1>3
  <2> HIDE DEF hi
  <2> QED BY <1>1, <2>1 DEF Word
<1> HIDE DEF hi, a, b
<1>5. Signed(v, hi) = IF hi >= h THEN hi - n ELSE hi
  BY <1>4, SignedWord
<1>6. SignedJoined(v, hi, lo) = a
  <2>1. SignedJoined(v, hi, lo) = Signed(v, hi) * n + lo
    BY DEF SignedJoined
  <2>2. CASE lo >= h
    <3>1. Signed(v, hi) = -1 /\ a = lo - n
      BY <1>1, <1>2, <1>4, <1>5, <2>2
    <3> QED BY <1>1, <2>1, <3>1
  <2>3. CASE ~(lo >= h)
    <3>1. Signed(v, hi) = 0 /\ a = lo
      BY <1>1, <1>2, <1>4, <1>5, <2>3
    <3> QED BY <1>1, <2>1, <3>1
  <2> QED BY <2>2, <2>3
<1> HIDE DEF n, h
<1>7. IdivTraps(v, hi, lo, s) <=> s = 0 \/ q < 0 - h \/ q >= h
  <2>1. Size(v) \div 2 = h
    BY <1>1 DEF n
  <2> QED BY <1>6, <2>1 DEF IdivTraps, b
<1>8. ASSUME b # 0
      PROVE  /\ q \in Int /\ r \in Int /\ a = b * q + r
             /\ AbsInt(r) < AbsInt(b) /\ (r = 0 \/ (r < 0 <=> a < 0))
             /\ AbsInt(q) <= AbsInt(a)
             /\ (q > 0 => (a < 0 <=> b < 0))
             /\ (AbsInt(b) >= 2 => 2 * AbsInt(q) <= AbsInt(a))
  <2>1. a \in Int /\ b \in Int
    BY <1>1, <1>2
  <2> QED BY <1>8, <2>1, Truncates
<1>9. \A x \in Int : AbsInt(x) = IF x < 0 THEN 0 - x ELSE x
  BY DEF AbsInt
<1> HIDE DEF q, r
<1>10. ASSUME IdivTraps(v, hi, lo, s) PROVE b = 0 \/ (b = -1 /\ a = 0 - h)
  <2>1. SUFFICES ASSUME b # 0 PROVE b = -1 /\ a = 0 - h
    OBVIOUS
  <2>2. q \in Int /\ (q < 0 - h \/ q >= h) /\ a \in Int /\ b \in Int
    BY <1>1, <1>2, <1>7, <1>8, <1>10, <2>1
  <2>3. AbsInt(q) = (IF q < 0 THEN 0 - q ELSE q) /\ AbsInt(a) = (IF a < 0 THEN 0 - a ELSE a)
        /\ AbsInt(b) = (IF b < 0 THEN 0 - b ELSE b)
    BY <1>9, <2>2
  <2>4. AbsInt(q) <= AbsInt(a) /\ (q > 0 => (a < 0 <=> b < 0))
        /\ (AbsInt(b) >= 2 => 2 * AbsInt(q) <= AbsInt(a))
    BY <1>8, <2>1
  <2>5. a = 0 - h /\ q = h
    BY <1>1, <1>2, <2>2, <2>3, <2>4
  <2> QED BY <1>1, <1>2, <2>1, <2>2, <2>3, <2>4, <2>5
<1>11. o.lo = q % n /\ o.hi = r % n
  <2>1. CASE v = "byte"
    BY <1>6, <2>1 DEF op_idiv, Divided, q, r, a, b, n
  <2>2. CASE v = "word"
    BY <1>6, <2>2 DEF op_idiv, Divided, q, r, a, b, n
  <2> QED BY <2>1, <2>2 DEF Widths
<1>12. ASSUME ~IdivTraps(v, hi, lo, s)
       PROVE  /\ a = Signed(v, o.lo) * b + Signed(v, o.hi) /\ AbsInt(Signed(v, o.hi)) < AbsInt(b)
              /\ Signed(v, o.hi) = 0 \/ (Signed(v, o.hi) < 0 <=> a < 0)
  <2>1. b # 0 /\ q >= 0 - h /\ q <= h - 1 /\ b \in Int
    BY <1>1, <1>2, <1>7, <1>8, <1>12
  <2>2. /\ q \in Int /\ r \in Int /\ a = b * q + r
        /\ AbsInt(r) < AbsInt(b) /\ (r = 0 \/ (r < 0 <=> a < 0))
    BY <1>8, <2>1
  <2>3. AbsInt(r) = (IF r < 0 THEN 0 - r ELSE r) /\ AbsInt(b) = (IF b < 0 THEN 0 - b ELSE b)
    BY <1>9, <2>1, <2>2
  <2>4. q \in (0 - h)..(h - 1) /\ r \in (0 - h)..(h - 1)
    BY <1>1, <1>2, <2>1, <2>2, <2>3
  <2>5. Signed(v, q % n) = q /\ Signed(v, r % n) = r
    BY <2>4, SignedBack DEF n, h
  <2>6. b * q = q * b
    BY <2>1, <2>2
  <2> HIDE DEF o
  <2>7. Signed(v, o.lo) = q /\ Signed(v, o.hi) = r
    BY <1>11, <2>5
  <2> QED BY <2>2, <2>6, <2>7
<1> QED BY <1>10, <1>12 DEF a, b, hi, h, o

-----------------------------------------------------------------------------
(***************************************************************************)
(* The programs that divide.                                               *)
(***************************************************************************)
\* Quotient and remainder, as numbers with a sign.
QuotientIs(a, b) ==
    LET q == Signed(w, reg["lo"])
        r == Signed(w, reg["hi"])
    IN  a = q * b + r /\ AbsInt(r) < AbsInt(b) /\ (r = 0 \/ (r < 0 <=> a < 0))

\* MUL, then DIV by the same factor.
AtMulDiv ==
    run.prog.name = "mul div" =>
        \/ trap = "none" /\ code = Listing("mul div") /\ Fresh
        \/ trap = "none" /\ code = <<I("div", "lo", "xlo")>> /\ Holds(op_mul(w, run.fl, R.lo, R.xlo).hi, op_mul(w, run.fl, R.lo, R.xlo).lo, R.xhi, R.xlo)
        \/ trap = "none" /\ code = << >> /\ reg["lo"] = R.lo /\ (w = "byte" => reg["hi"] = 0)
        \/ trap = "divide" /\ code = << >> /\ R.xlo = 0

\* Every step of the program takes it to its next stage, or to the signal.
LEMMA MulDivStep ==
    ASSUME Typed, Next, AtMulDiv
    PROVE  AtMulDiv'
<1> DEFINE S0 == trap = "none" /\ code = Listing("mul div") /\ Fresh
           S1 == trap = "none" /\ code = <<I("div", "lo", "xlo")>> /\ Holds(op_mul(w, run.fl, R.lo, R.xlo).hi, op_mul(w, run.fl, R.lo, R.xlo).lo, R.xhi, R.xlo)
           S2 == trap = "none" /\ code = << >> /\ reg["lo"] = R.lo /\ (w = "byte" => reg["hi"] = 0)
           ST == trap = "divide" /\ code = << >> /\ R.xlo = 0
<1>1. run' = run /\ R' = R /\ w' = w /\ code # << >>
  BY Dispatch DEF R, w
<1>2. AtMulDiv <=> (run.prog.name = "mul div" => S0 \/ S1 \/ S2 \/ ST)
  BY Zenon DEF AtMulDiv
<1>3. AtMulDiv' <=> (run'.prog.name = "mul div" => S0' \/ S1' \/ S2' \/ ST')
  BY Zenon DEF AtMulDiv
<1>4. Listing("mul div") = <<I("mul", "lo", "xlo"), I("div", "lo", "xlo")>>
  BY DEF Listing, CountUp, CountDown, NextByte
<1>5. ASSUME S0, run.prog.name = "mul div" PROVE S1'
  <2>1. Head(code) = I("mul", "lo", "xlo") /\ Tail(code) = <<I("div", "lo", "xlo")>>
    <3>1. code = <<I("mul", "lo", "xlo"), I("div", "lo", "xlo")>>
      BY <1>4, <1>5
    <3>2. Head(<<I("mul", "lo", "xlo"), I("div", "lo", "xlo")>>) = I("mul", "lo", "xlo") /\ Tail(<<I("mul", "lo", "xlo"), I("div", "lo", "xlo")>>) = <<I("div", "lo", "xlo")>>
      OBVIOUS
    <3> QED BY <3>1, <3>2, Zenon
  <2>2. reg["hi"] = R.hi /\ reg["lo"] = R.lo /\ reg["xhi"] = R.xhi /\ reg["xlo"] = R.xlo /\ fl = run.fl
    BY <1>5 DEF Holds, Fresh
  <2>3. Val("xlo") = R.xlo
    BY <2>2, Values
  <2> DEFINE o == op_mul(w, run.fl, R.lo, R.xlo)
  <2>4. LeavesPair(op_mul(w, fl, reg["lo"], Val("xlo")))
    BY <2>1, Executes
  <2>5. LeavesPair(o)
    BY <2>2, <2>3, <2>4
  <2> HIDE DEF o
  <2>6. /\ code' = Tail(code) /\ trap' = trap
        /\ reg'["hi"] = o.hi /\ reg'["lo"] = o.lo /\ reg'["xhi"] = R.xhi /\ reg'["xlo"] = R.xlo
    BY <2>2, <2>5, LeftPair
  <2> QED BY <1>1, <1>5, <2>1, <2>6 DEF Holds, o
<1>6. ASSUME S1, run.prog.name = "mul div" PROVE S2' \/ ST'
  <2>1. Head(code) = I("div", "lo", "xlo") /\ Tail(code) = << >>
    <3>1. code = <<I("div", "lo", "xlo")>>
      BY <1>6
    <3>2. Head(<<I("div", "lo", "xlo")>>) = I("div", "lo", "xlo") /\ Tail(<<I("div", "lo", "xlo")>>) = << >>
      OBVIOUS
    <3> QED BY <3>1, <3>2, Zenon
  <2>2. reg["hi"] = op_mul(w, run.fl, R.lo, R.xlo).hi /\ reg["lo"] = op_mul(w, run.fl, R.lo, R.xlo).lo /\ reg["xhi"] = R.xhi /\ reg["xlo"] = R.xlo
    BY <1>6 DEF Holds
  <2> DEFINE o == op_div(w, fl, op_mul(w, run.fl, R.lo, R.xlo).hi, op_mul(w, run.fl, R.lo, R.xlo).lo, R.xlo)
             t == DivTraps(w, op_mul(w, run.fl, R.lo, R.xlo).hi, op_mul(w, run.fl, R.lo, R.xlo).lo, R.xlo)
  <2>3. IF t THEN Signals("divide") ELSE LeavesPair(o)
    <3>1. Val("xlo") = R.xlo
      BY <2>2, Values
    <3>2. IF DivTraps(w, reg["hi"], reg["lo"], Val("xlo")) THEN Signals("divide")
          ELSE LeavesPair(op_div(w, fl, reg["hi"], reg["lo"], Val("xlo")))
      BY <2>1, Executes
    <3> QED BY <2>2, <3>1, <3>2
  <2>4. (t => R.xlo = 0) /\ (~t => o.lo = R.lo /\ (w = "byte" => o.hi = 0))
    <3>1. R.xlo = 0 => t
      BY DEF t, DivTraps
    <3>2. (t => R.xlo = 0) /\ (R.xlo # 0 => o.lo = R.lo /\ (w = "byte" => o.hi = 0))
      BY TypedFacts, MulDiv DEF o, t
    <3> HIDE DEF o, t
    <3> QED BY <3>1, <3>2
  <2> HIDE DEF o, t
  <2>5. CASE t
    <3>1. trap' = "divide" /\ code' = << >> /\ reg' = reg /\ fl' = fl
      BY <2>3, <2>5 DEF Signals
    <3> QED BY <1>1, <1>6, <2>2, <2>4, <2>5, <3>1 DEF Fresh, Holds
  <2>6. CASE ~t
    <3>1. LeavesPair(o)
      BY <2>3, <2>6
    <3>2. code' = Tail(code) /\ trap' = trap /\ reg'["hi"] = o.hi /\ reg'["lo"] = o.lo
      BY <3>1, LeftPair
    <3> QED BY <1>1, <1>6, <2>1, <2>4, <2>6, <3>2
  <2> QED BY <2>5, <2>6
<1> HIDE DEF S0, S1, S2, ST
<1>7. ~S2 /\ ~ST
  BY <1>1 DEF S2, ST
<1> QED BY <1>1, <1>2, <1>3, <1>5, <1>6, <1>7, Zenon

\* IMUL, then IDIV.
AtImulIdiv ==
    run.prog.name = "imul idiv" =>
        \/ trap = "none" /\ code = Listing("imul idiv") /\ Fresh
        \/ trap = "none" /\ code = <<I("idiv", "lo", "xlo")>> /\ Holds(op_imul(w, run.fl, R.lo, R.xlo).hi, op_imul(w, run.fl, R.lo, R.xlo).lo, R.xhi, R.xlo)
        \/ trap = "none" /\ code = << >> /\ reg["lo"] = R.lo /\ (w = "byte" => reg["hi"] = 0)
        \/ trap = "divide" /\ code = << >> /\ R.xlo = 0

\* Every step of the program takes it to its next stage, or to the signal.
LEMMA ImulIdivStep ==
    ASSUME Typed, Next, AtImulIdiv
    PROVE  AtImulIdiv'
<1> DEFINE S0 == trap = "none" /\ code = Listing("imul idiv") /\ Fresh
           S1 == trap = "none" /\ code = <<I("idiv", "lo", "xlo")>> /\ Holds(op_imul(w, run.fl, R.lo, R.xlo).hi, op_imul(w, run.fl, R.lo, R.xlo).lo, R.xhi, R.xlo)
           S2 == trap = "none" /\ code = << >> /\ reg["lo"] = R.lo /\ (w = "byte" => reg["hi"] = 0)
           ST == trap = "divide" /\ code = << >> /\ R.xlo = 0
<1>1. run' = run /\ R' = R /\ w' = w /\ code # << >>
  BY Dispatch DEF R, w
<1>2. AtImulIdiv <=> (run.prog.name = "imul idiv" => S0 \/ S1 \/ S2 \/ ST)
  BY Zenon DEF AtImulIdiv
<1>3. AtImulIdiv' <=> (run'.prog.name = "imul idiv" => S0' \/ S1' \/ S2' \/ ST')
  BY Zenon DEF AtImulIdiv
<1>4. Listing("imul idiv") = <<I("imul", "lo", "xlo"), I("idiv", "lo", "xlo")>>
  BY DEF Listing, CountUp, CountDown, NextByte
<1>5. ASSUME S0, run.prog.name = "imul idiv" PROVE S1'
  <2>1. Head(code) = I("imul", "lo", "xlo") /\ Tail(code) = <<I("idiv", "lo", "xlo")>>
    <3>1. code = <<I("imul", "lo", "xlo"), I("idiv", "lo", "xlo")>>
      BY <1>4, <1>5
    <3>2. Head(<<I("imul", "lo", "xlo"), I("idiv", "lo", "xlo")>>) = I("imul", "lo", "xlo") /\ Tail(<<I("imul", "lo", "xlo"), I("idiv", "lo", "xlo")>>) = <<I("idiv", "lo", "xlo")>>
      OBVIOUS
    <3> QED BY <3>1, <3>2, Zenon
  <2>2. reg["hi"] = R.hi /\ reg["lo"] = R.lo /\ reg["xhi"] = R.xhi /\ reg["xlo"] = R.xlo /\ fl = run.fl
    BY <1>5 DEF Holds, Fresh
  <2>3. Val("xlo") = R.xlo
    BY <2>2, Values
  <2> DEFINE o == op_imul(w, run.fl, R.lo, R.xlo)
  <2>4. LeavesPair(op_imul(w, fl, reg["lo"], Val("xlo")))
    BY <2>1, Executes
  <2>5. LeavesPair(o)
    BY <2>2, <2>3, <2>4
  <2> HIDE DEF o
  <2>6. /\ code' = Tail(code) /\ trap' = trap
        /\ reg'["hi"] = o.hi /\ reg'["lo"] = o.lo /\ reg'["xhi"] = R.xhi /\ reg'["xlo"] = R.xlo
    BY <2>2, <2>5, LeftPair
  <2> QED BY <1>1, <1>5, <2>1, <2>6 DEF Holds, o
<1>6. ASSUME S1, run.prog.name = "imul idiv" PROVE S2' \/ ST'
  <2>1. Head(code) = I("idiv", "lo", "xlo") /\ Tail(code) = << >>
    <3>1. code = <<I("idiv", "lo", "xlo")>>
      BY <1>6
    <3>2. Head(<<I("idiv", "lo", "xlo")>>) = I("idiv", "lo", "xlo") /\ Tail(<<I("idiv", "lo", "xlo")>>) = << >>
      OBVIOUS
    <3> QED BY <3>1, <3>2, Zenon
  <2>2. reg["hi"] = op_imul(w, run.fl, R.lo, R.xlo).hi /\ reg["lo"] = op_imul(w, run.fl, R.lo, R.xlo).lo /\ reg["xhi"] = R.xhi /\ reg["xlo"] = R.xlo
    BY <1>6 DEF Holds
  <2> DEFINE o == op_idiv(w, fl, op_imul(w, run.fl, R.lo, R.xlo).hi, op_imul(w, run.fl, R.lo, R.xlo).lo, R.xlo)
             t == IdivTraps(w, op_imul(w, run.fl, R.lo, R.xlo).hi, op_imul(w, run.fl, R.lo, R.xlo).lo, R.xlo)
  <2>3. IF t THEN Signals("divide") ELSE LeavesPair(o)
    <3>1. Val("xlo") = R.xlo
      BY <2>2, Values
    <3>2. IF IdivTraps(w, reg["hi"], reg["lo"], Val("xlo")) THEN Signals("divide")
          ELSE LeavesPair(op_idiv(w, fl, reg["hi"], reg["lo"], Val("xlo")))
      BY <2>1, Executes
    <3> QED BY <2>2, <3>1, <3>2
  <2>4. (t => R.xlo = 0) /\ (~t => o.lo = R.lo /\ (w = "byte" => o.hi = 0))
    <3>1. R.xlo = 0 => t
      BY DEF t, IdivTraps
    <3>2. (t => R.xlo = 0) /\ (R.xlo # 0 => o.lo = R.lo /\ (w = "byte" => o.hi = 0))
      BY TypedFacts, ImulIdiv DEF o, t
    <3> HIDE DEF o, t
    <3> QED BY <3>1, <3>2
  <2> HIDE DEF o, t
  <2>5. CASE t
    <3>1. trap' = "divide" /\ code' = << >> /\ reg' = reg /\ fl' = fl
      BY <2>3, <2>5 DEF Signals
    <3> QED BY <1>1, <1>6, <2>2, <2>4, <2>5, <3>1 DEF Fresh, Holds
  <2>6. CASE ~t
    <3>1. LeavesPair(o)
      BY <2>3, <2>6
    <3>2. code' = Tail(code) /\ trap' = trap /\ reg'["hi"] = o.hi /\ reg'["lo"] = o.lo
      BY <3>1, LeftPair
    <3> QED BY <1>1, <1>6, <2>1, <2>4, <2>6, <3>2
  <2> QED BY <2>5, <2>6
<1> HIDE DEF S0, S1, S2, ST
<1>7. ~S2 /\ ~ST
  BY <1>1 DEF S2, ST
<1> QED BY <1>1, <1>2, <1>3, <1>5, <1>6, <1>7, Zenon

\* DIV: quotient and remainder, or the signal.
AtDiv ==
    run.prog.name = "div" =>
        \/ trap = "none" /\ code = Listing("div") /\ Fresh
        \/ trap = "none" /\ code = << >> /\ ((w = "word" => R.hi = 0) => A = reg["lo"] * R.xlo + reg["hi"] /\ reg["hi"] < R.xlo)
        \/ trap = "divide" /\ code = << >> /\ R.hi >= R.xlo /\ Fresh

\* Every step of the program takes it to its next stage, or to the signal.
LEMMA DivStep ==
    ASSUME Typed, Next, AtDiv
    PROVE  AtDiv'
<1> DEFINE S0 == trap = "none" /\ code = Listing("div") /\ Fresh
           S1 == trap = "none" /\ code = << >> /\ ((w = "word" => R.hi = 0) => A = reg["lo"] * R.xlo + reg["hi"] /\ reg["hi"] < R.xlo)
           ST == trap = "divide" /\ code = << >> /\ R.hi >= R.xlo /\ Fresh
<1>1. run' = run /\ R' = R /\ w' = w /\ code # << >>
  BY Dispatch DEF R, w
<1>2. AtDiv <=> (run.prog.name = "div" => S0 \/ S1 \/ ST)
  BY Zenon DEF AtDiv
<1>3. AtDiv' <=> (run'.prog.name = "div" => S0' \/ S1' \/ ST')
  BY Zenon DEF AtDiv
<1>4. Listing("div") = <<I("div", "lo", "xlo")>>
  BY DEF Listing, CountUp, CountDown, NextByte
<1>5. ASSUME S0, run.prog.name = "div" PROVE S1' \/ ST'
  <2>1. Head(code) = I("div", "lo", "xlo") /\ Tail(code) = << >>
    <3>1. code = <<I("div", "lo", "xlo")>>
      BY <1>4, <1>5
    <3>2. Head(<<I("div", "lo", "xlo")>>) = I("div", "lo", "xlo") /\ Tail(<<I("div", "lo", "xlo")>>) = << >>
      OBVIOUS
    <3> QED BY <3>1, <3>2, Zenon
  <2>2. reg["hi"] = R.hi /\ reg["lo"] = R.lo /\ reg["xhi"] = R.xhi /\ reg["xlo"] = R.xlo /\ fl = run.fl
    BY <1>5 DEF Holds, Fresh
  <2> DEFINE o == op_div(w, run.fl, R.hi, R.lo, R.xlo)
             t == DivTraps(w, R.hi, R.lo, R.xlo)
  <2>3. IF t THEN Signals("divide") ELSE LeavesPair(o)
    <3>1. Val("xlo") = R.xlo
      BY <2>2, Values
    <3>2. IF DivTraps(w, reg["hi"], reg["lo"], Val("xlo")) THEN Signals("divide")
          ELSE LeavesPair(op_div(w, fl, reg["hi"], reg["lo"], Val("xlo")))
      BY <2>1, Executes
    <3> QED BY <2>2, <3>1, <3>2
  <2>4. /\ t => R.hi >= R.xlo
        /\ ~t /\ (w = "word" => R.hi = 0) => A = o.lo * R.xlo + o.hi /\ o.hi < R.xlo
    BY TypedFacts, DivWhole DEF o, t, A
  <2> HIDE DEF o, t
  <2>5. CASE t
    <3>1. trap' = "divide" /\ code' = << >> /\ reg' = reg /\ fl' = fl
      BY <2>3, <2>5 DEF Signals
    <3> QED BY <1>1, <1>5, <2>2, <2>4, <2>5, <3>1 DEF Fresh, Holds
  <2>6. CASE ~t
    <3>1. LeavesPair(o)
      BY <2>3, <2>6
    <3>2. code' = Tail(code) /\ trap' = trap /\ reg'["hi"] = o.hi /\ reg'["lo"] = o.lo
      BY <3>1, LeftPair
    <3> QED BY <1>1, <1>5, <2>1, <2>4, <2>6, <3>2 DEF A
  <2> QED BY <2>5, <2>6
<1> HIDE DEF S0, S1, ST
<1>6. ~S1 /\ ~ST
  BY <1>1 DEF S1, ST
<1> QED BY <1>1, <1>2, <1>3, <1>5, <1>6, Zenon

\* CBW or CWD, then IDIV.
AtCbwIdiv ==
    run.prog.name = "cbw idiv" =>
        \/ trap = "none" /\ code = Listing("cbw idiv") /\ Fresh
        \/ trap = "none" /\ code = <<I("idiv", "lo", "xlo")>> /\ Holds(Msb(w, R.lo) * Ones(w), R.lo, R.xhi, R.xlo) /\ fl = run.fl
        \/ trap = "none" /\ code = << >> /\ QuotientIs(Signed(w, R.lo), Signed(w, R.xlo))
        \/ trap = "divide" /\ code = << >> /\ (Signed(w, R.xlo) = 0 \/ (Signed(w, R.xlo) = -1 /\ Signed(w, R.lo) = 0 - Half(w))) /\ fl = run.fl

\* Every step of the program takes it to its next stage, or to the signal.
LEMMA CbwIdivStep ==
    ASSUME Typed, Next, AtCbwIdiv
    PROVE  AtCbwIdiv'
<1> DEFINE S0 == trap = "none" /\ code = Listing("cbw idiv") /\ Fresh
           S1 == trap = "none" /\ code = <<I("idiv", "lo", "xlo")>> /\ Holds(Msb(w, R.lo) * Ones(w), R.lo, R.xhi, R.xlo) /\ fl = run.fl
           S2 == trap = "none" /\ code = << >> /\ QuotientIs(Signed(w, R.lo), Signed(w, R.xlo))
           ST == trap = "divide" /\ code = << >> /\ (Signed(w, R.xlo) = 0 \/ (Signed(w, R.xlo) = -1 /\ Signed(w, R.lo) = 0 - Half(w))) /\ fl = run.fl
<1>1. run' = run /\ R' = R /\ w' = w /\ code # << >>
  BY Dispatch DEF R, w
<1>2. AtCbwIdiv <=> (run.prog.name = "cbw idiv" => S0 \/ S1 \/ S2 \/ ST)
  BY Zenon DEF AtCbwIdiv
<1>3. AtCbwIdiv' <=> (run'.prog.name = "cbw idiv" => S0' \/ S1' \/ S2' \/ ST')
  BY Zenon DEF AtCbwIdiv
<1>4. Listing("cbw idiv") = <<I("cxex", "hi", "lo"), I("idiv", "lo", "xlo")>>
  BY DEF Listing, CountUp, CountDown, NextByte
<1>5. ASSUME S0, run.prog.name = "cbw idiv" PROVE S1'
  <2>1. Head(code) = I("cxex", "hi", "lo") /\ Tail(code) = <<I("idiv", "lo", "xlo")>>
    <3>1. code = <<I("cxex", "hi", "lo"), I("idiv", "lo", "xlo")>>
      BY <1>4, <1>5
    <3>2. Head(<<I("cxex", "hi", "lo"), I("idiv", "lo", "xlo")>>) = I("cxex", "hi", "lo") /\ Tail(<<I("cxex", "hi", "lo"), I("idiv", "lo", "xlo")>>) = <<I("idiv", "lo", "xlo")>>
      OBVIOUS
    <3> QED BY <3>1, <3>2, Zenon
  <2>2. reg["hi"] = R.hi /\ reg["lo"] = R.lo /\ reg["xhi"] = R.xhi /\ reg["xlo"] = R.xlo /\ fl = run.fl
    BY <1>5 DEF Holds, Fresh
  <2>3. /\ reg' = [reg EXCEPT !["hi"] = Msb(w, reg["lo"]) * Ones(w)]
        /\ code' = Tail(code) /\ trap' = trap /\ fl' = fl
    BY <2>1, Executes DEF Onward
  <2>4. reg \in [Regs -> Word(w)]
    BY DEF Typed, Machine, Registers
  <2>5. reg'["hi"] = Msb(w, R.lo) * Ones(w) /\ reg'["lo"] = R.lo /\ reg'["xhi"] = R.xhi /\ reg'["xlo"] = R.xlo
    BY <2>2, <2>3, <2>4 DEF Regs
  <2> QED BY <1>1, <1>5, <2>1, <2>2, <2>3, <2>5 DEF Holds
<1>6. ASSUME S1, run.prog.name = "cbw idiv" PROVE S2' \/ ST'
  <2>1. Head(code) = I("idiv", "lo", "xlo") /\ Tail(code) = << >>
    <3>1. code = <<I("idiv", "lo", "xlo")>>
      BY <1>6
    <3>2. Head(<<I("idiv", "lo", "xlo")>>) = I("idiv", "lo", "xlo") /\ Tail(<<I("idiv", "lo", "xlo")>>) = << >>
      OBVIOUS
    <3> QED BY <3>1, <3>2, Zenon
  <2>2. reg["hi"] = Msb(w, R.lo) * Ones(w) /\ reg["lo"] = R.lo /\ reg["xhi"] = R.xhi /\ reg["xlo"] = R.xlo
    BY <1>6 DEF Holds
  <2> DEFINE o == op_idiv(w, fl, (Msb(w, R.lo) * Ones(w)), R.lo, R.xlo)
             t == IdivTraps(w, (Msb(w, R.lo) * Ones(w)), R.lo, R.xlo)
  <2>3. IF t THEN Signals("divide") ELSE LeavesPair(o)
    <3>1. Val("xlo") = R.xlo
      BY <2>2, Values
    <3>2. IF IdivTraps(w, reg["hi"], reg["lo"], Val("xlo")) THEN Signals("divide")
          ELSE LeavesPair(op_idiv(w, fl, reg["hi"], reg["lo"], Val("xlo")))
      BY <2>1, Executes
    <3> QED BY <2>2, <3>1, <3>2
  <2> DEFINE q == Signed(w, o.lo)
             r == Signed(w, o.hi)
  <2>4. /\ t => Signed(w, R.xlo) = 0 \/ (Signed(w, R.xlo) = -1 /\ Signed(w, R.lo) = 0 - Half(w))
        /\ ~t => Signed(w, R.lo) = q * Signed(w, R.xlo) + r /\ AbsInt(r) < AbsInt(Signed(w, R.xlo)) /\ (r = 0 \/ (r < 0 <=> Signed(w, R.lo) < 0))
    BY TypedFacts, IdivWhole DEF o, t
  <2> HIDE DEF o, t
  <2>5. CASE t
    <3>1. trap' = "divide" /\ code' = << >> /\ reg' = reg /\ fl' = fl
      BY <2>3, <2>5 DEF Signals
    <3> QED BY <1>1, <1>6, <2>2, <2>4, <2>5, <3>1 DEF Fresh, Holds
  <2>6. CASE ~t
    <3>1. LeavesPair(o)
      BY <2>3, <2>6
    <3>2. code' = Tail(code) /\ trap' = trap /\ reg'["hi"] = o.hi /\ reg'["lo"] = o.lo
      BY <3>1, LeftPair
    <3> QED BY <1>1, <1>6, <2>1, <2>4, <2>6, <3>2 DEF QuotientIs
  <2> QED BY <2>5, <2>6
<1> HIDE DEF S0, S1, S2, ST
<1>7. ~S2 /\ ~ST
  BY <1>1 DEF S2, ST
<1> QED BY <1>1, <1>2, <1>3, <1>5, <1>6, <1>7, Zenon

\* AAD makes a number of two digits, and DIV divides it.
AtAadDiv ==
    run.prog.name = "aad div" =>
        \/ trap = "none" /\ code = Listing("aad div") /\ Fresh
        \/ trap = "none" /\ code = <<I("div", "lo", "xlo")>> /\ Holds(0, 10 * R.hi + R.lo, R.xhi, R.xlo)
        \/ trap = "none" /\ code = << >> /\ 10 * R.hi + R.lo = R.xlo * reg["lo"] + reg["hi"]
        \/ trap = "divide" /\ code = << >> /\ R.xlo = 0

\* Every step of the program takes it to its next stage, or to the signal.
LEMMA AadDivStep ==
    ASSUME Typed, Next, AtAadDiv
    PROVE  AtAadDiv'
<1> DEFINE S0 == trap = "none" /\ code = Listing("aad div") /\ Fresh
           S1 == trap = "none" /\ code = <<I("div", "lo", "xlo")>> /\ Holds(0, 10 * R.hi + R.lo, R.xhi, R.xlo)
           S2 == trap = "none" /\ code = << >> /\ 10 * R.hi + R.lo = R.xlo * reg["lo"] + reg["hi"]
           ST == trap = "divide" /\ code = << >> /\ R.xlo = 0
<1>1. run' = run /\ R' = R /\ w' = w /\ code # << >>
  BY Dispatch DEF R, w
<1>2. AtAadDiv <=> (run.prog.name = "aad div" => S0 \/ S1 \/ S2 \/ ST)
  BY Zenon DEF AtAadDiv
<1>3. AtAadDiv' <=> (run'.prog.name = "aad div" => S0' \/ S1' \/ S2' \/ ST')
  BY Zenon DEF AtAadDiv
<1>4. Listing("aad div") = <<I("aad", "lo", "ten"), I("div", "lo", "xlo")>>
  BY DEF Listing, CountUp, CountDown, NextByte
<1>5. (R.hi \in Digit /\ R.lo \in Digit /\ R.xlo \in Digit /\ w = "byte") \/ run.prog.name # "aad div"
  BY ProgramsAssumption DEF Typed, Started, Regs, R, w, ByteNames
<1>6. ASSUME S0, run.prog.name = "aad div" PROVE S1'
  <2>1. Head(code) = I("aad", "lo", "ten") /\ Tail(code) = <<I("div", "lo", "xlo")>>
    <3>1. code = <<I("aad", "lo", "ten"), I("div", "lo", "xlo")>>
      BY <1>4, <1>6
    <3>2. Head(<<I("aad", "lo", "ten"), I("div", "lo", "xlo")>>) = I("aad", "lo", "ten") /\ Tail(<<I("aad", "lo", "ten"), I("div", "lo", "xlo")>>) = <<I("div", "lo", "xlo")>>
      OBVIOUS
    <3> QED BY <3>1, <3>2, Zenon
  <2>2. reg["hi"] = R.hi /\ reg["lo"] = R.lo /\ reg["xhi"] = R.xhi /\ reg["xlo"] = R.xlo /\ fl = run.fl
    BY <1>6 DEF Holds, Fresh
  <2>3. Val("ten") = 10
    BY Values
  <2> DEFINE o == Aad(R.hi, R.lo, 10)
  <2>4. LeavesPair(Aad(reg["hi"], reg["lo"], Val("ten")))
    BY <2>1, Executes
  <2>5. LeavesPair(o)
    BY <2>2, <2>3, <2>4
  <2> HIDE DEF o
  <2>6. /\ code' = Tail(code) /\ trap' = trap
        /\ reg'["hi"] = o.hi /\ reg'["lo"] = o.lo /\ reg'["xhi"] = R.xhi /\ reg'["xlo"] = R.xlo
    BY <2>2, <2>5, LeftPair
  <2>7. o.hi = 0 /\ o.lo = 10 * R.hi + R.lo
    <3>1. R.hi \in 0..9 /\ R.lo \in 0..9
      BY <1>5, <1>6 DEF Digit
    <3> DEFINE h == R.hi
               l == R.lo
    <3>2. o.hi = 0 /\ o.lo = (l + h * 10) % 256
      BY DEF o, Aad
    <3>3. h \in 0..9 /\ l \in 0..9
      BY <3>1
    <3> HIDE DEF h, l
    <3>4. (l + h * 10) % 256 = 10 * h + l
      BY <3>3
    <3> QED BY <3>2, <3>4 DEF h, l
  <2> QED BY <1>1, <1>6, <2>1, <2>6, <2>7 DEF Holds
<1>7. ASSUME S1, run.prog.name = "aad div" PROVE S2' \/ ST'
  <2>1. Head(code) = I("div", "lo", "xlo") /\ Tail(code) = << >>
    <3>1. code = <<I("div", "lo", "xlo")>>
      BY <1>7
    <3>2. Head(<<I("div", "lo", "xlo")>>) = I("div", "lo", "xlo") /\ Tail(<<I("div", "lo", "xlo")>>) = << >>
      OBVIOUS
    <3> QED BY <3>1, <3>2, Zenon
  <2>2. reg["hi"] = 0 /\ reg["lo"] = 10 * R.hi + R.lo /\ reg["xhi"] = R.xhi /\ reg["xlo"] = R.xlo
    BY <1>7 DEF Holds
  <2> DEFINE o == op_div(w, fl, 0, (10 * R.hi + R.lo), R.xlo)
             t == DivTraps(w, 0, (10 * R.hi + R.lo), R.xlo)
  <2>3. IF t THEN Signals("divide") ELSE LeavesPair(o)
    <3>1. Val("xlo") = R.xlo
      BY <2>2, Values
    <3>2. IF DivTraps(w, reg["hi"], reg["lo"], Val("xlo")) THEN Signals("divide")
          ELSE LeavesPair(op_div(w, fl, reg["hi"], reg["lo"], Val("xlo")))
      BY <2>1, Executes
    <3> QED BY <2>2, <3>1, <3>2
  <2>4. /\ t => R.xlo = 0
        /\ ~t => 10 * R.hi + R.lo = R.xlo * o.lo + o.hi
    <3> DEFINE x == 10 * R.hi + R.lo
    <3>1. x \in 0..99 /\ R.xlo \in 0..9 /\ w = "byte"
      <4>1. R.hi \in 0..9 /\ R.lo \in 0..9 /\ R.xlo \in 0..9 /\ w = "byte"
        BY <1>5, <1>7 DEF Digit
      <4> QED BY <4>1
    <3> HIDE DEF x
    <3>2. x \in Word(w) /\ R.xlo \in Word(w) /\ 0 \in Word(w) /\ w \in Widths /\ fl \in FlagSet
      BY <3>1, ByteFits, TypedFacts
    <3>3. Joined(w, 0, x) = x
      <4>1. Size(w) \in Int
        BY <3>2, Sizes
      <4> QED BY <3>1, <4>1 DEF Joined
    <3>4. /\ DivTraps(w, 0, x, R.xlo) => 0 >= R.xlo
          /\ ~DivTraps(w, 0, x, R.xlo) =>
                Joined(w, 0, x) = op_div(w, fl, 0, x, R.xlo).lo * R.xlo + op_div(w, fl, 0, x, R.xlo).hi
      BY <3>2, DivWhole
    <3>5. /\ t => 0 >= R.xlo
          /\ ~t => x = o.lo * R.xlo + o.hi /\ o.lo \in Word(w)
      <4>1. R.xlo = 0 => t
        BY DEF t, DivTraps
      <4>2. R.xlo # 0 => o.lo \in Word(w)
        BY <3>2, DivFits DEF o, x, PairFits
      <4> QED BY <3>3, <3>4, <4>1, <4>2 DEF o, t, x
    <3> HIDE DEF o, t
    <3>6. o.lo \in Word(w) => o.lo * R.xlo = R.xlo * o.lo
      <4>1. \A y \in Word(w) : y \in Int
        BY DEF Word
      <4> QED BY <3>1, <4>1
    <3>7. 0 >= R.xlo => R.xlo = 0
      BY <3>1
    <3> QED BY <3>5, <3>6, <3>7 DEF x
  <2> HIDE DEF o, t
  <2>5. CASE t
    <3>1. trap' = "divide" /\ code' = << >> /\ reg' = reg /\ fl' = fl
      BY <2>3, <2>5 DEF Signals
    <3> QED BY <1>1, <1>7, <2>2, <2>4, <2>5, <3>1 DEF Fresh, Holds
  <2>6. CASE ~t
    <3>1. LeavesPair(o)
      BY <2>3, <2>6
    <3>2. code' = Tail(code) /\ trap' = trap /\ reg'["hi"] = o.hi /\ reg'["lo"] = o.lo
      BY <3>1, LeftPair
    <3> QED BY <1>1, <1>7, <2>1, <2>4, <2>6, <3>2
  <2> QED BY <2>5, <2>6
<1> HIDE DEF S0, S1, S2, ST
<1>8. ~S2 /\ ~ST
  BY <1>1 DEF S2, ST
<1> QED BY <1>1, <1>2, <1>3, <1>6, <1>7, <1>8, Zenon

-----------------------------------------------------------------------------
(***************************************************************************)
(* Nothing else signals a division.                                        *)
(***************************************************************************)
\* Only DIV and IDIV signal a division: the rest retires, or BOUND signals.
LEMMA Otherwise ==
    ASSUME Next, i.op \notin {"div", "idiv"}
    PROVE  Retires \/ Signals("bound")
<1>1. ASSUME NEW r, Writes(r) \/ Reads(r) \/ WritesPair(r) PROVE Retires
  BY <1>1 DEF Writes, Reads, WritesPair
<1>2. ASSUME Exec_add \/ Exec_adc \/ Exec_sub \/ Exec_sbb \/ Exec_cmp PROVE Retires
  BY <1>1, <1>2 DEF Exec_add, Exec_adc, Exec_sub, Exec_sbb, Exec_cmp
<1>3. ASSUME Exec_xor \/ Exec_or \/ Exec_and \/ Exec_test \/ Exec_inc \/ Exec_dec PROVE Retires
  BY <1>1, <1>3 DEF Exec_xor, Exec_or, Exec_and, Exec_test, Exec_inc, Exec_dec
<1>4. ASSUME Exec_xchg \/ Exec_ahf \/ Exec_clx \/ Exec_cxex PROVE Retires
  BY <1>4 DEF Exec_xchg, Exec_ahf, Exec_clx, Exec_cxex
<1>5. ASSUME Exec_groupC0 PROVE Retires
  BY <1>1, <1>5 DEF Exec_groupC0
<1>6. ASSUME Exec_groupF6 PROVE Retires
  <2>1. ~Is("div") /\ ~Is("idiv")
    BY DEF Is
  <2> QED BY <1>1, <1>6, <2>1 DEF Exec_groupF6
<1>7. ASSUME Exec_aaaseries PROVE Retires
  BY <1>1, <1>7 DEF Exec_aaaseries
<1>8. ASSUME Exec_bound PROVE Retires \/ Signals("bound")
  BY <1>8 DEF Exec_bound
<1> QED BY <1>2, <1>3, <1>4, <1>5, <1>6, <1>7, <1>8 DEF Next

\* A program that does not divide has no such instruction left, and signals no division.
NoDivision ==
    run.prog.name \notin Dividers => trap # "divide" /\ code \in Seq(Chosen(w, run.prog.name))

\* So it is at the start.
LEMMA NoDivisionInit == Init => NoDivision
<1>1. ASSUME Init PROVE trap # "divide" /\ code = Listing(run.prog.name) /\ Started
  <2>1. Fresh /\ code = Listing(run.prog.name)
    BY <1>1, FreshInit
  <2>2. Started
    BY <1>1, TypedInit DEF Typed
  <2> QED BY <1>1, <2>1, <2>2 DEF Init
<1> QED BY <1>1, StartedFacts, ListingChosen DEF NoDivision

\* A step leaves the rest of the listing, or nothing after BOUND has signalled.
LEMMA NoDivisionStep ==
    ASSUME NoDivision, Next
    PROVE  NoDivision'
<1>1. run' = run /\ w' = w /\ code # << >>
  BY Dispatch DEF w
<1>2. ASSUME run.prog.name \notin Dividers PROVE trap' # "divide" /\ code' \in Seq(Chosen(w, run.prog.name))
  <2>1. trap # "divide" /\ code \in Seq(Chosen(w, run.prog.name))
    BY <1>2 DEF NoDivision
  <2>2. i \in Chosen(w, run.prog.name) /\ Tail(code) \in Seq(Chosen(w, run.prog.name))
    BY <1>1, <2>1, Rest DEF i
  <2>3. Retires \/ Signals("bound")
    BY <1>2, <2>2, Otherwise DEF Chosen
  <2>4. << >> \in Seq(Chosen(w, run.prog.name))
    OBVIOUS
  <2> QED BY <2>1, <2>2, <2>3, <2>4 DEF Retires, Signals
<1> QED BY <1>1, <1>2 DEF NoDivision

\* The programs that divide, and the others.
Dividing ==
    /\ Typed
    /\ AtMulDiv /\ AtImulIdiv /\ AtDiv /\ AtCbwIdiv /\ AtAadDiv
    /\ NoDivision

\* They are at their first stage at the start.
LEMMA DividingInit == Init => Dividing
<1>1. Init => trap = "none"
  BY DEF Init
<1> QED BY <1>1, TypedInit, FreshInit, NoDivisionInit
    DEF Dividing, AtMulDiv, AtImulIdiv, AtDiv, AtCbwIdiv, AtAadDiv

\* And at one of their stages after every step.
LEMMA DividingStep == Dividing /\ [Next]_vars => Dividing'
<1>1. ASSUME Dividing, UNCHANGED vars PROVE Dividing'
  <2>1. R' = R /\ w' = w /\ run' = run /\ code' = code /\ trap' = trap /\ reg' = reg /\ fl' = fl
        /\ mask_5bit_shiftcount' = mask_5bit_shiftcount
    BY <1>1 DEF vars, R, w
  <2>2. Typed'
    BY <1>1, <2>1 DEF Dividing, Typed, Started, Machine, Program, Registers
  <2>3. AtMulDiv' /\ AtImulIdiv'
    BY <1>1, <2>1 DEF Dividing, AtMulDiv, AtImulIdiv, Holds, Fresh
  <2>4. AtDiv' /\ AtAadDiv'
    <3>1. A' = A
      BY <2>1 DEF A
    <3> QED BY <1>1, <2>1, <3>1 DEF Dividing, AtDiv, AtAadDiv, Holds, Fresh
  <2>5. AtCbwIdiv'
    BY <1>1, <2>1 DEF Dividing, AtCbwIdiv, QuotientIs, Holds, Fresh
  <2>6. NoDivision'
    BY <1>1, <2>1 DEF Dividing, NoDivision
  <2> QED BY <2>2, <2>3, <2>4, <2>5, <2>6 DEF Dividing
<1> QED
  BY <1>1, TypedStep, MulDivStep, ImulIdivStep, DivStep, CbwIdivStep, AadDivStep, NoDivisionStep
  DEF Dividing

\* At their ends the operand is back, or quotient and remainder make it up.
LEMMA DividingInverts ==
    ASSUME Dividing
    PROVE  DivisionInverts
<1> DEFINE a == Signed(w, R.lo)
           b == Signed(w, R.xlo)
           q == Signed(w, reg["lo"])
           r == Signed(w, reg["hi"])
<1>0. w \in Widths /\ Typed /\ Size(w) \div 2 = Half(w)
  <2>1. w \in Widths
    BY TypedFacts DEF Dividing
  <2> DEFINE n == Size(w)
             h == Half(w)
  <2>2. n = 2 * h /\ h \in Nat
    BY <2>1, Sizes
  <2> HIDE DEF n, h
  <2>3. n \div 2 = h
    BY <2>2
  <2> QED BY <2>1, <2>3 DEF n, h, Dividing
<1>1. ASSUME Ended("mul div") \/ Ended("imul idiv")
      PROVE  reg["lo"] = R.lo /\ (w = "byte" => reg["hi"] = 0)
  <2>1. CASE Ended("mul div")
    BY <2>1, Listed DEF Dividing, AtMulDiv, Ended
  <2>2. CASE Ended("imul idiv")
    BY <2>2, Listed DEF Dividing, AtImulIdiv, Ended
  <2> QED BY <1>1, <2>1, <2>2
<1>2. ASSUME Ended("div"), w = "word" => R.hi = 0
      PROVE  A = reg["lo"] * R.xlo + reg["hi"] /\ reg["hi"] < R.xlo
  BY <1>2, Listed DEF Dividing, AtDiv, Ended
<1>3. ASSUME Ended("cbw idiv")
      PROVE  /\ a = q * b + r /\ AbsInt(r) < AbsInt(b)
             /\ r = 0 \/ (r < 0 <=> a < 0)
  <2>1. QuotientIs(a, b)
    BY <1>3, Listed DEF Dividing, AtCbwIdiv, Ended
  <2> QED BY <2>1 DEF QuotientIs
<1>4. ASSUME trap = "divide"
      PROVE  CASE run.prog.name = "div" -> R.hi >= R.xlo /\ reg = R /\ fl = run.fl
               [] run.prog.name = "cbw idiv" ->
                     (b = 0 \/ (b = -1 /\ a = 0 - Size(w) \div 2)) /\ fl = run.fl
               [] OTHER -> R.xlo = 0
  <2>1. CASE run.prog.name = "div"
    <3>1. R.hi >= R.xlo /\ Fresh
      BY <1>4, <2>1 DEF Dividing, AtDiv
    <3>2. reg = R /\ fl = run.fl
      BY <1>0, <3>1, SameRegisters DEF Fresh, Holds
    <3> QED BY <2>1, <3>1, <3>2
  <2>2. CASE run.prog.name = "cbw idiv"
    <3>1. (b = 0 \/ (b = -1 /\ a = 0 - Half(w))) /\ fl = run.fl
      BY <1>4, <2>2 DEF Dividing, AtCbwIdiv
    <3> HIDE DEF a, b
    <3> QED BY <1>0, <2>2, <3>1
  <2>3. CASE run.prog.name \notin {"div", "cbw idiv"}
    <3>1. run.prog.name \in {"mul div", "imul idiv", "aad div"}
      BY <1>4, <2>3 DEF Dividing, NoDivision, Dividers
    <3>2. R.xlo = 0
      BY <1>4, <3>1 DEF Dividing, AtMulDiv, AtImulIdiv, AtAadDiv
    <3> QED BY <2>3, <3>2
  <2> QED BY <2>1, <2>2, <2>3
<1> HIDE DEF a, b, q, r
<1>5. /\ Ended("mul div") \/ Ended("imul idiv") => reg["lo"] = R.lo /\ (w = "byte" => reg["hi"] = 0)
      /\ Ended("div") /\ (w = "word" => R.hi = 0) => A = reg["lo"] * R.xlo + reg["hi"] /\ reg["hi"] < R.xlo
      /\ Ended("cbw idiv") => a = q * b + r /\ AbsInt(r) < AbsInt(b) /\ (r = 0 \/ (r < 0 <=> a < 0))
  BY <1>1, <1>2, <1>3, Zenon
<1> QED BY <1>4, <1>5, Zenon DEF DivisionInverts, a, b, q, r

\* Division inverts multiplication and signals just where the quotient is out of range,
\* whatever the operands (the property DivisionInverts).
THEOREM Softx86AluDivisionInverts == Spec => []DivisionInverts
<1> QED BY DividingInit, DividingStep, DividingInverts, PTL DEF Spec

-----------------------------------------------------------------------------
(***************************************************************************)
(* Decimal digits.                                                         *)
(***************************************************************************)
\* Two nibbles, and a multiple of 256 or none.
LEMMA Nibbles ==
    ASSUME NEW p \in 0..15, NEW q \in 0..15
    PROVE  /\ 16 * p + q \in 0..255
           /\ (16 * p + q) \div 16 = p /\ (16 * p + q) % 16 = q /\ (16 * p + q) % 256 = 16 * p + q
           /\ (16 * p + q + 256) % 256 = 16 * p + q /\ (16 * p + q - 256) % 256 = 16 * p + q
<1>1. 16 * p + q \in 0..255
  OBVIOUS
<1>2. (16 * p + q) \div 16 = p /\ (16 * p + q) % 16 = q
  <2> DEFINE x == 16 * p + q
  <2>1. x = 16 * p + q /\ q \in 0..(16 - 1) /\ x \in Int /\ p \in Int /\ 16 \in Nat /\ 16 > 0
    OBVIOUS
  <2> HIDE DEF x
  <2>2. x \div 16 = p /\ x % 16 = q
    BY <2>1, DivModUnique
  <2> QED BY <2>2 DEF x
<1> DEFINE x == 16 * p + q
<1>3. x \in 0..255
  BY <1>1
<1> HIDE DEF x
<1>4. x % 256 = x /\ (x + 256) % 256 = x /\ (x - 256) % 256 = x
  BY <1>3
<1> QED BY <1>1, <1>2, <1>4 DEF x

\* A packed byte is two digits.
LEMMA PackedDigits ==
    /\ \A a \in PackedBytes :
          \E p \in Digit, q \in Digit : a = 16 * p + q /\ Packed(a) = 10 * p + q /\ Low(a) = q
    /\ \A p \in Digit, q \in Digit : 16 * p + q \in PackedBytes /\ Packed(16 * p + q) = 10 * p + q
<1>1. ASSUME NEW p \in Digit, NEW q \in Digit
      PROVE  16 * p + q \in PackedBytes /\ Packed(16 * p + q) = 10 * p + q /\ Low(16 * p + q) = q
  <2>1. p \in 0..15 /\ q \in 0..15
    BY DEF Digit
  <2> DEFINE a == 16 * p + q
  <2>2. a \in 0..255 /\ a \div 16 = p /\ a % 16 = q
    BY <2>1, Nibbles
  <2> HIDE DEF a
  <2>3. a \in PackedBytes /\ Packed(a) = 10 * p + q /\ Low(a) = q
    BY <2>2 DEF PackedBytes, Packed, Low
  <2> QED BY <2>3 DEF a
<1>2. ASSUME NEW a \in PackedBytes
      PROVE  \E p \in Digit, q \in Digit : a = 16 * p + q
  <2>1. a \in 0..255 /\ a \div 16 \in Digit /\ a % 16 \in Digit
    BY DEF PackedBytes, Low
  <2>2. a = 16 * (a \div 16) + (a % 16)
    BY <2>1
  <2> QED BY <2>1, <2>2
<1> QED BY <1>1, <1>2

\* What a subtraction leaves in a byte and in its flags, and what two digits less two are.
Subtracted(g, t, a, b, c) ==
    t = (a - (b + c)) % 256 /\ (g.cf = 1 <=> t > a) /\ (g.af = 1 <=> Low(b) > Low(a))
Less(d, x, y, c, e) == d = x - y - c + 100 * e

\* SUB, or SBB with a borrow, and DAS: the decimal difference, and the borrow in CF.
LEMMA PackedDifference ==
    ASSUME NEW a \in PackedBytes, NEW b \in PackedBytes, NEW c \in {0, 1}, NEW t, NEW g, Subtracted(g, t, a, b, c)
    PROVE  LET d == Das(g, t)
           IN  /\ d.ret \in PackedBytes /\ d.fl.cf \in {0, 1}
               /\ Less(Packed(d.ret), Packed(a), Packed(b), c, d.fl.cf)
<1>1. PICK h \in Digit, l \in Digit : a = 16 * h + l /\ Packed(a) = 10 * h + l /\ Low(a) = l
  BY PackedDigits
<1>2. PICK k \in Digit, m \in Digit : b = 16 * k + m /\ Packed(b) = 10 * k + m /\ Low(b) = m
  BY PackedDigits
<1> DEFINE d == Das(g, t)
           x == h - k
           y == l - m - c
           low == LowAdjust(g, t)
           e == IF low THEN (t - 6) % 256 ELSE t
           hi == e > 159 \/ g.cf = 1 \/ (low /\ Low(t) < 6)
           u == IF hi THEN (e - 96) % 256 ELSE e
<1>0. SUFFICES d.ret \in PackedBytes /\ d.fl.cf \in {0, 1} /\ Packed(d.ret) = Packed(a) - Packed(b) - c + 100 * d.fl.cf
  BY DEF Less
<1>3. h \in 0..9 /\ l \in 0..9 /\ k \in 0..9 /\ m \in 0..9 /\ c \in 0..1
  BY DEF Digit
<1>4. d.ret = u /\ d.fl.cf = Bit(hi)
  BY DEF Das, Outcome, Flags
<1>5. low <=> Low(t) > 9 \/ m > l
  BY <1>1, <1>2 DEF LowAdjust, Subtracted
<1>6. g.cf = 1 <=> t > a
  BY DEF Subtracted
<1>7. t = (16 * x + y) % 256
  <2>1. a - (b + c) = 16 * x + y
    BY <1>1, <1>2, <1>3
  <2> QED BY <2>1 DEF Subtracted
<1>8. x \in -9..9 /\ y \in -10..9 /\ (m > l => y < 0) /\ (y < 0 /\ ~(m > l) => y = -1)
  BY <1>3
<1>9. a \in 0..255 /\ b \in 0..255 /\ a - (b + c) = 16 * x + y /\ b + c \in 0..154
  BY <1>1, <1>2, <1>3
<1> HIDE DEF d, x, y, low, e, hi, u
<1>10. ASSUME NEW p \in Digit, NEW q \in Digit, NEW z \in {0, 1}, u = 16 * p + q, hi <=> z = 1,
              10 * p + q = 10 * x + y + 100 * z
       PROVE  d.ret \in PackedBytes /\ d.fl.cf \in {0, 1} /\ Packed(d.ret) = Packed(a) - Packed(b) - c + 100 * d.fl.cf
  <2>1. d.fl.cf = z
    BY <1>4, <1>10 DEF Bit
  <2>2. d.ret \in PackedBytes /\ Packed(d.ret) = 10 * p + q
    BY <1>4, <1>10, PackedDigits
  <2>3. 10 * x + y = Packed(a) - Packed(b) - c
    BY <1>1, <1>2, <1>3 DEF x, y
  <2>4. Packed(d.ret) = Packed(a) - Packed(b) - c + 100 * z
    BY <1>10, <2>2, <2>3
  <2> QED BY <2>1, <2>2, <2>4
<1>11. CASE y >= 0 /\ x >= 0
  <2>1. x \in 0..15 /\ y \in 0..15 /\ x \in Digit /\ y \in Digit
    BY <1>8, <1>11 DEF Digit
  <2>2. t = 16 * x + y /\ t % 16 = y
    BY <1>7, <2>1, Nibbles
  <2>3. ~low /\ ~hi /\ e = t /\ u = t
    <3>1. ~low
      BY <1>5, <1>8, <1>11, <2>2 DEF Low
    <3>2. e = t /\ ~(t > a)
      BY <1>8, <1>9, <2>2, <3>1 DEF e
    <3>3. ~(e > 159)
      BY <1>8, <2>2, <3>2
    <3>4. ~hi
      BY <1>6, <3>1, <3>2, <3>3 DEF hi
    <3> QED BY <3>1, <3>2, <3>4 DEF u
  <2> QED BY <1>8, <1>10, <2>1, <2>2, <2>3
<1>12. CASE y >= 0 /\ x < 0
  <2>1. x + 16 \in 0..15 /\ y \in 0..15 /\ x + 10 \in Digit /\ y \in Digit /\ x + 10 \in 0..15
    BY <1>8, <1>12 DEF Digit
  <2>2. t = 16 * (x + 16) + y /\ t % 16 = y
    <3> DEFINE n == 16 * (x + 16) + y
    <3>1. (n - 256) % 256 = n /\ n % 16 = y
      BY <2>1, Nibbles
    <3>2. n - 256 = 16 * x + y
      BY <1>8
    <3> QED BY <1>7, <3>1, <3>2
  <2>3. ~low /\ hi /\ e = t
    <3>1. ~low
      BY <1>5, <1>8, <1>12, <2>2 DEF Low
    <3>2. e = t /\ t > a
      BY <1>8, <1>9, <2>2, <3>1 DEF e
    <3> QED BY <1>6, <3>1, <3>2 DEF hi
  <2>4. u = 16 * (x + 10) + y
    <3>1. e - 96 = 16 * (x + 10) + y
      BY <1>8, <2>2, <2>3
    <3>2. u = (e - 96) % 256
      BY <2>3 DEF u
    <3> QED BY <2>1, <3>1, <3>2, Nibbles
  <2>5. 10 * (x + 10) + y = 10 * x + y + 100 * 1
    BY <1>8
  <2> QED BY <1>10, <2>1, <2>3, <2>4, <2>5
<1>13. CASE y < 0 /\ x - 1 >= 0
  <2>1. x - 1 \in 0..15 /\ y + 16 \in 0..15 /\ y + 10 \in 0..15 /\ x - 1 \in Digit /\ y + 10 \in Digit
    BY <1>8, <1>13 DEF Digit
  <2>2. t = 16 * (x - 1) + (y + 16) /\ t % 16 = y + 16
    <3> DEFINE n == 16 * (x - 1) + (y + 16)
    <3>1. n % 256 = n /\ n % 16 = y + 16
      BY <2>1, Nibbles
    <3>2. n = 16 * x + y
      BY <1>8
    <3> QED BY <1>7, <3>1, <3>2
  <2>3. low /\ ~(Low(t) < 6)
    BY <1>5, <1>8, <1>13, <2>2 DEF Low
  <2>4. e = 16 * (x - 1) + (y + 10)
    <3>1. t - 6 = 16 * (x - 1) + (y + 10)
      BY <1>8, <2>2
    <3>2. e = (t - 6) % 256
      BY <2>3 DEF e
    <3> QED BY <2>1, <3>1, <3>2, Nibbles
  <2>5. ~(e > 159) /\ ~(t > a)
    BY <1>8, <1>9, <1>13, <2>2, <2>4
  <2>6. ~hi /\ u = e
    BY <1>6, <2>3, <2>5 DEF hi, u
  <2>7. 10 * (x - 1) + (y + 10) = 10 * x + y + 100 * 0
    BY <1>8
  <2> QED BY <1>10, <2>1, <2>4, <2>6, <2>7
<1>14. CASE y < 0 /\ x - 1 < 0
  <2>1. x + 15 \in 0..15 /\ y + 16 \in 0..15 /\ y + 10 \in 0..15 /\ x + 9 \in 0..15 /\ x + 9 \in Digit /\ y + 10 \in Digit
    BY <1>8, <1>14 DEF Digit
  <2>2. t = 16 * (x + 15) + (y + 16) /\ t % 16 = y + 16
    <3> DEFINE n == 16 * (x + 15) + (y + 16)
    <3>1. (n - 256) % 256 = n /\ n % 16 = y + 16
      BY <2>1, Nibbles
    <3>2. n - 256 = 16 * x + y
      BY <1>8
    <3> QED BY <1>7, <3>1, <3>2
  <2>3. low
    BY <1>5, <1>8, <1>14, <2>2 DEF Low
  <2>4. e = 16 * (x + 15) + (y + 10)
    <3>1. t - 6 = 16 * (x + 15) + (y + 10)
      BY <1>8, <2>2
    <3>2. e = (t - 6) % 256
      BY <2>3 DEF e
    <3> QED BY <2>1, <3>1, <3>2, Nibbles
  <2>5. t > a
    BY <1>8, <1>9, <1>14, <2>2
  <2>6. hi
    BY <1>6, <2>5 DEF hi
  <2>7. u = 16 * (x + 9) + (y + 10)
    <3>1. e - 96 = 16 * (x + 9) + (y + 10)
      BY <1>8, <2>4
    <3>2. u = (e - 96) % 256
      BY <2>6 DEF u
    <3> QED BY <2>1, <3>1, <3>2, Nibbles
  <2>8. 10 * (x + 9) + (y + 10) = 10 * x + y + 100 * 1
    BY <1>8
  <2> QED BY <1>10, <2>1, <2>6, <2>7, <2>8
<1>15. (y >= 0 \/ y < 0) /\ (x >= 0 \/ x < 0) /\ (x - 1 >= 0 \/ x - 1 < 0)
  BY <1>8
<1> QED BY <1>11, <1>12, <1>13, <1>14, <1>15

\* ADD and DAA: the decimal sum, where the lower digits do not add up to 10..15.
LEMMA PackedSum ==
    ASSUME NEW a \in PackedBytes, NEW b \in PackedBytes, NEW f, Low(a) + Low(b) \notin 10..15
    PROVE  LET s == op_add("byte", f, a, b)
               d == Daa(s.fl, s.ret)
               sum == Packed(a) + Packed(b)
           IN  Packed(d.ret) = sum % 100 /\ (d.fl.cf = 1 <=> sum >= 100)
<1>1. PICK h \in Digit, l \in Digit : a = 16 * h + l /\ Packed(a) = 10 * h + l /\ Low(a) = l
  BY PackedDigits
<1>2. PICK k \in Digit, m \in Digit : b = 16 * k + m /\ Packed(b) = 10 * k + m /\ Low(b) = m
  BY PackedDigits
<1> DEFINE s == op_add("byte", f, a, b)
           d == Daa(s.fl, s.ret)
           x == h + k
           y == l + m
           t == s.ret
           low == LowAdjust(s.fl, t)
           e == IF low THEN (t + 6) % 256 ELSE t
           hi == e - Low(e) > 144 \/ s.fl.cf = 1 \/ (low /\ Low(t) + 6 >= 16)
           u == IF hi THEN (e + 96) % 256 ELSE e
           sum == Packed(a) + Packed(b)
<1>3. SUFFICES Packed(d.ret) = sum % 100 /\ (d.fl.cf = 1 <=> sum >= 100)
  OBVIOUS
<1>4. h \in 0..9 /\ l \in 0..9 /\ k \in 0..9 /\ m \in 0..9 /\ (l + m <= 9 \/ l + m >= 16)
  BY <1>1, <1>2 DEF Digit
<1>5. d.ret = u /\ d.fl.cf = Bit(hi)
  BY DEF Daa, Outcome, Flags
<1>6. t = (a + b) % 256 /\ s.fl.cf = Bit(t < a) /\ s.fl.af = Bit(Low(b) + Low(a) >= 16)
  <2>1. "byte" \in Widths
    BY DEF Widths
  <2>2. Size("byte") = 256
    BY <2>1, Sizes
  <2> QED BY <2>2 DEF op_add, Outcome, Flags
<1> HIDE DEF s, d, t
<1>7. low <=> Low(t) > 9 \/ y >= 16
  <2>1. Low(b) + Low(a) = y
    BY <1>1, <1>2, <1>4
  <2> QED BY <1>6, <2>1 DEF LowAdjust, Bit
<1>8. s.fl.cf = 1 <=> t < a
  BY <1>6 DEF Bit
<1>9. a \in 0..255 /\ b \in 0..255 /\ a + b = 16 * x + y
  BY <1>1, <1>2, <1>4
<1>10. x \in 0..18 /\ y \in 0..18 /\ (y <= 9 \/ y >= 16) /\ sum = 10 * x + y
  BY <1>1, <1>2, <1>4
<1> HIDE DEF x, y, low, e, hi, u, sum
\* The digits before the carry out of the byte is looked at.
<1> DEFINE p == IF y <= 9 THEN x ELSE x + 1
           q == IF y <= 9 THEN y ELSE y - 10
           g == IF p <= 15 THEN p ELSE p - 16
<1>11. /\ p \in 0..19 /\ q \in 0..9 /\ sum = 10 * p + q /\ g \in 0..15 /\ q \in 0..15
       /\ g = (IF p <= 15 THEN p ELSE p - 16) /\ (p = IF y <= 9 THEN x ELSE x + 1)
       /\ q = IF y <= 9 THEN y ELSE y - 10
  BY <1>10
<1> HIDE DEF p, q, g
<1>12. e = 16 * g + q /\ (t < a <=> p >= 16) /\ ~(low /\ Low(t) + 6 >= 16)
  <2>1. CASE y <= 9
    <3>1. a + b = IF p <= 15 THEN 16 * g + q ELSE 16 * g + q + 256
      BY <1>9, <1>10, <1>11, <2>1
    <3>2. t = 16 * g + q
      BY <1>6, <1>11, <3>1, Nibbles
    <3>3. Low(t) = q
      BY <1>11, <3>2, Nibbles DEF Low
    <3>4. ~low
      BY <1>7, <1>10, <1>11, <2>1, <3>3
    <3>5. t < a <=> p >= 16
      BY <1>9, <1>11, <3>1, <3>2
    <3>6. e = t
      BY <3>4 DEF e
    <3> QED BY <3>2, <3>4, <3>5, <3>6
  <2>2. CASE y >= 16
    <3> DEFINE r == y - 16
    <3>1. r \in 0..15 /\ r + 6 = q /\ r \in 0..2
      BY <1>10, <1>11, <2>2
    <3>2. a + b = IF p <= 15 THEN 16 * g + r ELSE 16 * g + r + 256
      BY <1>9, <1>10, <1>11, <2>2
    <3> HIDE DEF r
    <3>3. t = 16 * g + r
      BY <1>6, <1>11, <3>1, <3>2, Nibbles
    <3>4. Low(t) = r
      BY <1>11, <3>1, <3>3, Nibbles DEF Low
    <3>5. low
      BY <1>7, <2>2
    <3>6. t < a <=> p >= 16
      BY <1>9, <1>11, <3>1, <3>2, <3>3
    <3>7. e = 16 * g + q
      <4>1. t + 6 = 16 * g + q
        BY <1>11, <3>1, <3>3
      <4>2. e = (t + 6) % 256
        BY <3>5 DEF e
      <4> QED BY <1>11, <4>1, <4>2, Nibbles
    <3>8. ~(Low(t) + 6 >= 16)
      BY <3>1, <3>4
    <3> QED BY <3>6, <3>7, <3>8
  <2> QED BY <1>10, <2>1, <2>2
<1>13. hi <=> p >= 10
  <2>1. Low(e) = q
    BY <1>11, <1>12, Nibbles DEF Low
  <2>2. e - Low(e) > 144 <=> g >= 10
    BY <1>11, <1>12, <2>1
  <2>3. hi <=> g >= 10 \/ p >= 16
    BY <1>8, <1>12, <2>2 DEF hi
  <2> QED BY <1>11, <2>3
<1> DEFINE z == IF p >= 10 THEN p - 10 ELSE p
<1>14. z \in 0..9 /\ z \in 0..15 /\ z = (IF p >= 10 THEN p - 10 ELSE p)
  BY <1>11
<1> HIDE DEF z
<1>15. u = 16 * z + q
  <2>1. CASE p >= 10
    <3>1. u = (e + 96) % 256
      BY <1>13, <2>1 DEF u
    <3>2. e + 96 = IF p <= 15 THEN 16 * z + q + 256 ELSE 16 * z + q
      BY <1>11, <1>12, <1>14, <2>1
    <3> QED BY <1>11, <1>14, <3>1, <3>2, Nibbles
  <2>2. CASE ~(p >= 10)
    <3>1. u = e
      BY <1>13, <2>2 DEF u
    <3>2. z = g
      BY <1>11, <1>14, <2>2
    <3> QED BY <1>12, <3>1, <3>2
  <2> QED BY <2>1, <2>2
<1>16. Packed(u) = 10 * z + q
  BY <1>11, <1>14, <1>15, PackedDigits DEF Digit
<1>17. sum % 100 = 10 * z + q /\ (sum >= 100 <=> p >= 10)
  BY <1>11, <1>14
<1> QED BY <1>5, <1>13, <1>16, <1>17 DEF Bit

\* ADD and AAA.
LEMMA UnpackedSum ==
    ASSUME NEW h \in Digit, NEW a \in Digit, NEW b \in Digit, NEW f
    PROVE  LET s == op_add("byte", f, a, b)
               o == AsciiAdjust(s.fl, h, s.ret, 1)
           IN  10 * o.hi + o.lo = 10 * h + a + b
<1> DEFINE s == op_add("byte", f, a, b)
           t == s.ret
           low == LowAdjust(s.fl, t)
           n == IF low THEN 1 ELSE 0
           o == AsciiAdjust(s.fl, h, t, 1)
           y == a + b
<1>1. h \in 0..9 /\ a \in 0..9 /\ b \in 0..9
  BY DEF Digit
<1>2. o.hi = (h + n) % 256 /\ o.lo = Low(t + 6 * n)
  BY DEF AsciiAdjust
<1>3. t = y % 256 /\ s.fl.af = Bit(Low(b) + Low(a) >= 16)
  <2>1. "byte" \in Widths
    BY DEF Widths
  <2>2. Size("byte") = 256
    BY <2>1, Sizes
  <2> QED BY <2>2 DEF op_add, Outcome, Flags
<1> HIDE DEF s, t, o
<1>4. Low(a) = a /\ Low(b) = b /\ y \in 0..18 /\ y % 256 = y
  BY <1>1 DEF Low
<1>5. t = y
  BY <1>3, <1>4
<1>6. low <=> y >= 10
  <2>1. low <=> Low(t) > 9 \/ y >= 16
    <3>1. Low(b) + Low(a) = y
      BY <1>1, <1>4
    <3> QED BY <1>3, <3>1 DEF LowAdjust, Bit
  <2>2. Low(t) = IF y < 16 THEN y ELSE y - 16
    BY <1>4, <1>5 DEF Low
  <2> HIDE DEF low, y
  <2> QED BY <1>4, <2>1, <2>2
<1> HIDE DEF low, y
<1>7. CASE y >= 10
  <2>1. n = 1
    BY <1>6, <1>7
  <2>2. o.hi = h + 1
    BY <1>1, <1>2, <2>1
  <2>3. o.lo = y - 10
    <3>1. (y + 6) % 16 = y - 10
      BY <1>4, <1>7
    <3>2. t + 6 * 1 = y + 6
      BY <1>4, <1>5
    <3> QED BY <1>2, <2>1, <3>1, <3>2 DEF Low
  <2>4. 10 * o.hi + o.lo = 10 * h + a + b
    BY <1>1, <2>2, <2>3 DEF y
  <2> QED BY <2>4 DEF o, t, s
<1>8. CASE ~(y >= 10)
  <2>1. n = 0
    BY <1>6, <1>8
  <2>2. o.hi = h
    BY <1>1, <1>2, <2>1
  <2>3. o.lo = y
    <3>1. y % 16 = y
      BY <1>4, <1>8
    <3>2. t + 6 * 0 = y
      BY <1>4, <1>5
    <3> QED BY <1>2, <2>1, <3>1, <3>2 DEF Low
  <2>4. 10 * o.hi + o.lo = 10 * h + a + b
    BY <1>1, <2>2, <2>3 DEF y
  <2> QED BY <2>4 DEF o, t, s
<1> QED BY <1>7, <1>8

\* SUB and AAS.
LEMMA UnpackedDifference ==
    ASSUME NEW h \in Digit, NEW a \in Digit, NEW b \in Digit, NEW f
    PROVE  LET s == op_sub("byte", f, a, b)
               o == AsciiAdjust(s.fl, h, s.ret, -1)
           IN  /\ 10 * o.hi + o.lo = (10 * h + a) - b \/ h = 0
               /\ o.fl.cf = 1 <=> a < b
<1> DEFINE s == op_sub("byte", f, a, b)
           t == s.ret
           low == LowAdjust(s.fl, t)
           n == IF low THEN -1 ELSE 0
           o == AsciiAdjust(s.fl, h, t, -1)
           y == a - b
<1>0. SUFFICES (10 * o.hi + o.lo = (10 * h + a) - b \/ h = 0) /\ (o.fl.cf = 1 <=> a < b)
  OBVIOUS
<1>1. h \in 0..9 /\ a \in 0..9 /\ b \in 0..9
  BY DEF Digit
<1>2. o.hi = (h + n) % 256 /\ o.lo = Low(t + 6 * n) /\ o.fl.cf = AbsInt(n)
  BY DEF AsciiAdjust
<1>3. t = y % 256 /\ s.fl.af = Bit(Low(b) > Low(a))
  <2>1. "byte" \in Widths
    BY DEF Widths
  <2>2. Size("byte") = 256
    BY <2>1, Sizes
  <2> QED BY <2>2 DEF op_sub, Outcome, Flags
<1> HIDE DEF s, t, o
<1>4. Low(a) = a /\ Low(b) = b /\ y \in -9..9
  BY <1>1 DEF Low
<1>5. t = IF y < 0 THEN y + 256 ELSE y
  BY <1>3, <1>4
<1>6. low <=> Low(t) > 9 \/ b > a
  BY <1>3, <1>4 DEF LowAdjust, Bit
<1>7. b > a <=> y < 0
  BY <1>1
<1> HIDE DEF low, y
<1>8. CASE y < 0
  <2>1. n = -1 /\ o.fl.cf = 1
    <3>1. n = -1
      BY <1>6, <1>7, <1>8
    <3>2. AbsInt(-1) = 1
      BY DEF AbsInt
    <3> HIDE DEF n
    <3> QED BY <1>2, <3>1, <3>2
  <2>2. o.lo = y + 10
    <3>1. t + 6 * (-1) = y + 250
      BY <1>4, <1>5, <1>8
    <3>2. (y + 250) % 16 = y + 10
      BY <1>4, <1>8
    <3> QED BY <1>2, <2>1, <3>1, <3>2 DEF Low
  <2>3. h # 0 => o.hi = h - 1
    <3>1. h # 0 => (h + (-1)) % 256 = h - 1
      BY <1>1
    <3> QED BY <1>2, <2>1, <3>1
  <2>4. h # 0 => 10 * o.hi + o.lo = (10 * h + a) - b
    BY <1>1, <2>2, <2>3 DEF y
  <2>5. a < b
    BY <1>1, <1>7, <1>8
  <2> QED BY <2>1, <2>4, <2>5
<1>9. CASE ~(y < 0)
  <2>1. ~low
    <3>1. Low(t) = y
      BY <1>4, <1>5, <1>9 DEF Low
    <3> QED BY <1>4, <1>6, <1>7, <1>9, <3>1
  <2>2. n = 0 /\ o.fl.cf = 0
    BY <1>2, <2>1 DEF AbsInt
  <2>3. o.lo = y
    <3>1. t + 6 * 0 = y
      BY <1>4, <1>5, <1>9
    <3>2. y % 16 = y
      BY <1>4, <1>9
    <3> QED BY <1>2, <2>2, <3>1, <3>2 DEF Low
  <2>4. o.hi = h
    BY <1>1, <1>2, <2>2
  <2>5. 10 * o.hi + o.lo = (10 * h + a) - b
    BY <1>1, <2>3, <2>4 DEF y
  <2>6. ~(a < b)
    BY <1>1, <1>7, <1>9
  <2> QED BY <2>2, <2>5, <2>6
<1> QED BY <1>8, <1>9

\* MUL and AAM: the lower digit of the product.
LEMMA MulAam ==
    ASSUME NEW a \in Digit, NEW b \in Digit, NEW f, NEW junk
    PROVE  Aam(op_mul("byte", f, a, b).lo, 10, junk).lo = (a * b) % 10
<1> DEFINE x == a * b
<1>1. x \in 0..81
  <2>1. a \in 0..9 /\ b \in 0..9
    BY DEF Digit
  <2>2. x >= 0 /\ x <= 9 * b /\ x \in Int
    BY <2>1
  <2> HIDE DEF x
  <2> QED BY <2>1, <2>2
<1>2. op_mul("byte", f, a, b).lo = x % 256
  <2>1. "byte" \in Widths
    BY DEF Widths
  <2>2. Size("byte") = 256
    BY <2>1, Sizes
  <2> QED BY <2>2 DEF op_mul, Product
<1> HIDE DEF x
<1>3. x % 256 = x
  BY <1>1
<1>4. Aam(x, 10, junk).lo = x % 10
  BY DEF Aam
<1> QED BY <1>2, <1>3, <1>4 DEF x

-----------------------------------------------------------------------------
(***************************************************************************)
(* The decimal programs.                                                   *)
(***************************************************************************)
\* What ADD and SUB leave, and DAA or DAS makes of it; for two bytes, SBB and DAS go on.
LowSum   == op_add(w, run.fl, R.lo, R.xlo)
LowDaa   == Daa(LowSum.fl, LowSum.ret)
LowDiff  == op_sub(w, run.fl, R.lo, R.xlo)
LowDas   == Das(LowDiff.fl, LowDiff.ret)
HighDiff == op_sbb(w, LowDas.fl, R.hi, R.xhi)
HighDas  == Das(HighDiff.fl, HighDiff.ret)

\* SUB and DAS of the lower bytes, SBB and DAS of the higher ones.
AtPackedSub ==
    run.prog.name = "packed sub" =>
        /\ trap = "none"
        /\ \/ code = Listing("packed sub") /\ Fresh
           \/ Line5(code, I("das", "lo", "lo"), I("xchg", "lo", "hi"), I("sbb", "lo", "xhi"), I("das", "lo", "lo"), I("xchg", "lo", "hi")) /\ Holds(R.hi, LowDiff.ret, R.xhi, R.xlo) /\ fl = LowDiff.fl
           \/ Line4(code, I("xchg", "lo", "hi"), I("sbb", "lo", "xhi"), I("das", "lo", "lo"), I("xchg", "lo", "hi")) /\ Holds(R.hi, LowDas.ret, R.xhi, R.xlo) /\ fl = LowDas.fl
           \/ Line3(code, I("sbb", "lo", "xhi"), I("das", "lo", "lo"), I("xchg", "lo", "hi")) /\ Holds(LowDas.ret, R.hi, R.xhi, R.xlo) /\ fl = LowDas.fl
           \/ Line2(code, I("das", "lo", "lo"), I("xchg", "lo", "hi")) /\ Holds(LowDas.ret, HighDiff.ret, R.xhi, R.xlo) /\ fl = HighDiff.fl
           \/ Line1(code, I("xchg", "lo", "hi")) /\ Holds(LowDas.ret, HighDas.ret, R.xhi, R.xlo) /\ fl = HighDas.fl
           \/ code = << >> /\ Holds(HighDas.ret, LowDas.ret, R.xhi, R.xlo) /\ fl = HighDas.fl

\* Every step of the program takes it to its next stage.
LEMMA PackedSubStep ==
    ASSUME Typed, Next, AtPackedSub
    PROVE  AtPackedSub'
<1> DEFINE S0 == code = Listing("packed sub") /\ Fresh
           S1 == Line5(code, I("das", "lo", "lo"), I("xchg", "lo", "hi"), I("sbb", "lo", "xhi"), I("das", "lo", "lo"), I("xchg", "lo", "hi")) /\ Holds(R.hi, LowDiff.ret, R.xhi, R.xlo) /\ fl = LowDiff.fl
           S2 == Line4(code, I("xchg", "lo", "hi"), I("sbb", "lo", "xhi"), I("das", "lo", "lo"), I("xchg", "lo", "hi")) /\ Holds(R.hi, LowDas.ret, R.xhi, R.xlo) /\ fl = LowDas.fl
           S3 == Line3(code, I("sbb", "lo", "xhi"), I("das", "lo", "lo"), I("xchg", "lo", "hi")) /\ Holds(LowDas.ret, R.hi, R.xhi, R.xlo) /\ fl = LowDas.fl
           S4 == Line2(code, I("das", "lo", "lo"), I("xchg", "lo", "hi")) /\ Holds(LowDas.ret, HighDiff.ret, R.xhi, R.xlo) /\ fl = HighDiff.fl
           S5 == Line1(code, I("xchg", "lo", "hi")) /\ Holds(LowDas.ret, HighDas.ret, R.xhi, R.xlo) /\ fl = HighDas.fl
           S6 == code = << >> /\ Holds(HighDas.ret, LowDas.ret, R.xhi, R.xlo) /\ fl = HighDas.fl
<1>1. run' = run /\ R' = R /\ w' = w /\ code # << >>
  BY Dispatch DEF R, w
<1>2. AtPackedSub <=> (run.prog.name = "packed sub" => trap = "none" /\ (S0 \/ S1 \/ S2 \/ S3 \/ S4 \/ S5 \/ S6))
  BY Zenon DEF AtPackedSub
<1>3. AtPackedSub' <=> (run'.prog.name = "packed sub" => trap' = "none" /\ (S0' \/ S1' \/ S2' \/ S3' \/ S4' \/ S5' \/ S6'))
  BY Zenon DEF AtPackedSub
<1>4. Line6(Listing("packed sub"), I("sub", "lo", "xlo"), I("das", "lo", "lo"), I("xchg", "lo", "hi"), I("sbb", "lo", "xhi"), I("das", "lo", "lo"), I("xchg", "lo", "hi"))
  BY DEF Listing, Line6, NextByte
<1>5. LowDiff' = LowDiff /\ LowDas' = LowDas /\ HighDiff' = HighDiff /\ HighDas' = HighDas
  BY <1>1 DEF LowDiff, LowDas, HighDiff, HighDas
<1>6. ASSUME S0, run.prog.name = "packed sub" PROVE trap' = trap /\ S1'
  <2>1. Head(code) = I("sub", "lo", "xlo") /\ Line5(Tail(code), I("das", "lo", "lo"), I("xchg", "lo", "hi"), I("sbb", "lo", "xhi"), I("das", "lo", "lo"), I("xchg", "lo", "hi"))
    BY <1>4, <1>6, Ahead6
  <2>2. reg["hi"] = R.hi /\ reg["lo"] = R.lo /\ reg["xhi"] = R.xhi /\ reg["xlo"] = R.xlo
    BY <1>6 DEF Holds, Fresh
  <2>3. fl = run.fl /\ Val("xlo") = R.xlo
    BY <1>6, <2>2, Values DEF Fresh
  <2> DEFINE o == op_sub(w, run.fl, R.lo, R.xlo)
  <2>4. Leaves("lo", op_sub(w, fl, reg["lo"], Val("xlo")))
    BY <2>1, Executes
  <2>5. Leaves("lo", o)
    BY <2>2, <2>3, <2>4
  <2> HIDE DEF o
  <2>6. /\ fl' = o.fl /\ code' = Tail(code) /\ trap' = trap
        /\ reg'["hi"] = R.hi /\ reg'["lo"] = o.ret /\ reg'["xhi"] = R.xhi /\ reg'["xlo"] = R.xlo
    BY <2>2, <2>5, Left DEF Regs
  <2>7. o = LowDiff
    BY DEF o, LowDiff
  <2> QED BY <1>1, <2>1, <2>5, <2>6, <1>5, <2>7 DEF Holds
<1>7. ASSUME S1, run.prog.name = "packed sub" PROVE trap' = trap /\ S2'
  <2>1. Head(code) = I("das", "lo", "lo") /\ Line4(Tail(code), I("xchg", "lo", "hi"), I("sbb", "lo", "xhi"), I("das", "lo", "lo"), I("xchg", "lo", "hi"))
    BY <1>7, Ahead5
  <2>2. reg["hi"] = R.hi /\ reg["lo"] = LowDiff.ret /\ reg["xhi"] = R.xhi /\ reg["xlo"] = R.xlo
    BY <1>7 DEF Holds
  <2>3. Val("lo") = LowDiff.ret
    BY <2>2, Values
  <2> DEFINE o == Das(fl, LowDiff.ret)
  <2>4. Leaves("lo", Das(fl, reg["lo"]))
    BY <2>1, Executes DEF Leaves
  <2>5. Leaves("lo", o)
    BY <2>2, <2>3, <2>4
  <2> HIDE DEF o
  <2>6. /\ fl' = o.fl /\ code' = Tail(code) /\ trap' = trap
        /\ reg'["hi"] = R.hi /\ reg'["lo"] = o.ret /\ reg'["xhi"] = R.xhi /\ reg'["xlo"] = R.xlo
    BY <2>2, <2>5, Left DEF Regs
  <2>7. o = LowDas
    BY <1>7 DEF o, LowDas
  <2> QED BY <1>1, <2>1, <2>5, <2>6, <1>5, <2>7 DEF Holds
<1>8. ASSUME S2, run.prog.name = "packed sub" PROVE trap' = trap /\ S3'
  <2>1. Head(code) = I("xchg", "lo", "hi") /\ Line3(Tail(code), I("sbb", "lo", "xhi"), I("das", "lo", "lo"), I("xchg", "lo", "hi"))
    BY <1>8, Ahead4
  <2>2. reg["hi"] = R.hi /\ reg["lo"] = LowDas.ret /\ reg["xhi"] = R.xhi /\ reg["xlo"] = R.xlo
    BY <1>8 DEF Holds
  <2>3. reg' = [reg EXCEPT !["lo"] = Val("hi"), !["hi"] = reg["lo"]] /\ Onward /\ fl' = fl
    BY <2>1, Executes
  <2>4. Val("hi") = reg["hi"] /\ reg \in [Regs -> Word(w)]
    BY DEF Val, Regs, Typed, Machine, Registers
  <2>5. /\ reg'["lo"] = reg["hi"] /\ reg'["hi"] = reg["lo"]
        /\ reg'["xhi"] = reg["xhi"] /\ reg'["xlo"] = reg["xlo"]
    BY <2>3, <2>4 DEF Regs
  <2> QED BY <1>1, <1>5, <1>8, <2>1, <2>2, <2>3, <2>5 DEF Holds, Onward
<1>9. ASSUME S3, run.prog.name = "packed sub" PROVE trap' = trap /\ S4'
  <2>1. Head(code) = I("sbb", "lo", "xhi") /\ Line2(Tail(code), I("das", "lo", "lo"), I("xchg", "lo", "hi"))
    BY <1>9, Ahead3
  <2>2. reg["hi"] = LowDas.ret /\ reg["lo"] = R.hi /\ reg["xhi"] = R.xhi /\ reg["xlo"] = R.xlo
    BY <1>9 DEF Holds
  <2>3. Val("xhi") = R.xhi
    BY <2>2, Values
  <2> DEFINE o == op_sbb(w, fl, R.hi, R.xhi)
  <2>4. Leaves("lo", op_sbb(w, fl, reg["lo"], Val("xhi")))
    BY <2>1, Executes
  <2>5. Leaves("lo", o)
    BY <2>2, <2>3, <2>4
  <2> HIDE DEF o
  <2>6. /\ fl' = o.fl /\ code' = Tail(code) /\ trap' = trap
        /\ reg'["hi"] = LowDas.ret /\ reg'["lo"] = o.ret /\ reg'["xhi"] = R.xhi /\ reg'["xlo"] = R.xlo
    BY <2>2, <2>5, Left DEF Regs
  <2>7. o = HighDiff
    BY <1>9 DEF o, HighDiff
  <2> QED BY <1>1, <2>1, <2>5, <2>6, <1>5, <2>7 DEF Holds
<1>10. ASSUME S4, run.prog.name = "packed sub" PROVE trap' = trap /\ S5'
  <2>1. Head(code) = I("das", "lo", "lo") /\ Line1(Tail(code), I("xchg", "lo", "hi"))
    BY <1>10, Ahead2
  <2>2. reg["hi"] = LowDas.ret /\ reg["lo"] = HighDiff.ret /\ reg["xhi"] = R.xhi /\ reg["xlo"] = R.xlo
    BY <1>10 DEF Holds
  <2>3. Val("lo") = HighDiff.ret
    BY <2>2, Values
  <2> DEFINE o == Das(fl, HighDiff.ret)
  <2>4. Leaves("lo", Das(fl, reg["lo"]))
    BY <2>1, Executes DEF Leaves
  <2>5. Leaves("lo", o)
    BY <2>2, <2>3, <2>4
  <2> HIDE DEF o
  <2>6. /\ fl' = o.fl /\ code' = Tail(code) /\ trap' = trap
        /\ reg'["hi"] = LowDas.ret /\ reg'["lo"] = o.ret /\ reg'["xhi"] = R.xhi /\ reg'["xlo"] = R.xlo
    BY <2>2, <2>5, Left DEF Regs
  <2>7. o = HighDas
    BY <1>10 DEF o, HighDas
  <2> QED BY <1>1, <2>1, <2>5, <2>6, <1>5, <2>7 DEF Holds
<1>11. ASSUME S5, run.prog.name = "packed sub" PROVE trap' = trap /\ S6'
  <2>1. Head(code) = I("xchg", "lo", "hi") /\ Tail(code) = << >>
    BY <1>11, Ahead1
  <2>2. reg["hi"] = LowDas.ret /\ reg["lo"] = HighDas.ret /\ reg["xhi"] = R.xhi /\ reg["xlo"] = R.xlo
    BY <1>11 DEF Holds
  <2>3. reg' = [reg EXCEPT !["lo"] = Val("hi"), !["hi"] = reg["lo"]] /\ Onward /\ fl' = fl
    BY <2>1, Executes
  <2>4. Val("hi") = reg["hi"] /\ reg \in [Regs -> Word(w)]
    BY DEF Val, Regs, Typed, Machine, Registers
  <2>5. /\ reg'["lo"] = reg["hi"] /\ reg'["hi"] = reg["lo"]
        /\ reg'["xhi"] = reg["xhi"] /\ reg'["xlo"] = reg["xlo"]
    BY <2>3, <2>4 DEF Regs
  <2> QED BY <1>1, <1>5, <1>11, <2>1, <2>2, <2>3, <2>5 DEF Holds, Onward
<1> HIDE DEF S0, S1, S2, S3, S4, S5, S6
<1>12. ~S6
  BY <1>1 DEF S6
<1> QED BY <1>1, <1>2, <1>3, <1>6, <1>7, <1>8, <1>9, <1>10, <1>11, <1>12, Zenon

\* ADD and DAA.
AtPackedAdd ==
    run.prog.name = "packed add" =>
        /\ trap = "none"
        /\ \/ code = Listing("packed add") /\ Fresh
           \/ Line1(code, I("daa", "lo", "lo")) /\ Holds(R.hi, LowSum.ret, R.xhi, R.xlo) /\ fl = LowSum.fl
           \/ code = << >> /\ Holds(R.hi, LowDaa.ret, R.xhi, R.xlo) /\ fl = LowDaa.fl

\* Every step of the program takes it to its next stage.
LEMMA PackedAddStep ==
    ASSUME Typed, Next, AtPackedAdd
    PROVE  AtPackedAdd'
<1> DEFINE S0 == code = Listing("packed add") /\ Fresh
           S1 == Line1(code, I("daa", "lo", "lo")) /\ Holds(R.hi, LowSum.ret, R.xhi, R.xlo) /\ fl = LowSum.fl
           S2 == code = << >> /\ Holds(R.hi, LowDaa.ret, R.xhi, R.xlo) /\ fl = LowDaa.fl
<1>1. run' = run /\ R' = R /\ w' = w /\ code # << >>
  BY Dispatch DEF R, w
<1>2. AtPackedAdd <=> (run.prog.name = "packed add" => trap = "none" /\ (S0 \/ S1 \/ S2))
  BY Zenon DEF AtPackedAdd
<1>3. AtPackedAdd' <=> (run'.prog.name = "packed add" => trap' = "none" /\ (S0' \/ S1' \/ S2'))
  BY Zenon DEF AtPackedAdd
<1>4. Line2(Listing("packed add"), I("add", "lo", "xlo"), I("daa", "lo", "lo"))
  BY DEF Listing, Line2
<1>5. LowSum' = LowSum /\ LowDaa' = LowDaa
  BY <1>1 DEF LowSum, LowDaa
<1>6. ASSUME S0, run.prog.name = "packed add" PROVE trap' = trap /\ S1'
  <2>1. Head(code) = I("add", "lo", "xlo") /\ Line1(Tail(code), I("daa", "lo", "lo"))
    BY <1>4, <1>6, Ahead2
  <2>2. reg["hi"] = R.hi /\ reg["lo"] = R.lo /\ reg["xhi"] = R.xhi /\ reg["xlo"] = R.xlo
    BY <1>6 DEF Holds, Fresh
  <2>3. fl = run.fl /\ Val("xlo") = R.xlo
    BY <1>6, <2>2, Values DEF Fresh
  <2> DEFINE o == op_add(w, run.fl, R.lo, R.xlo)
  <2>4. Leaves("lo", op_add(w, fl, reg["lo"], Val("xlo")))
    BY <2>1, Executes
  <2>5. Leaves("lo", o)
    BY <2>2, <2>3, <2>4
  <2> HIDE DEF o
  <2>6. /\ fl' = o.fl /\ code' = Tail(code) /\ trap' = trap
        /\ reg'["hi"] = R.hi /\ reg'["lo"] = o.ret /\ reg'["xhi"] = R.xhi /\ reg'["xlo"] = R.xlo
    BY <2>2, <2>5, Left DEF Regs
  <2>7. o = LowSum
    BY DEF o, LowSum
  <2> QED BY <1>1, <2>1, <2>5, <2>6, <1>5, <2>7 DEF Holds
<1>7. ASSUME S1, run.prog.name = "packed add" PROVE trap' = trap /\ S2'
  <2>1. Head(code) = I("daa", "lo", "lo") /\ Tail(code) = << >>
    BY <1>7, Ahead1
  <2>2. reg["hi"] = R.hi /\ reg["lo"] = LowSum.ret /\ reg["xhi"] = R.xhi /\ reg["xlo"] = R.xlo
    BY <1>7 DEF Holds
  <2>3. Val("lo") = LowSum.ret
    BY <2>2, Values
  <2> DEFINE o == Daa(fl, LowSum.ret)
  <2>4. Leaves("lo", Daa(fl, reg["lo"]))
    BY <2>1, Executes DEF Leaves
  <2>5. Leaves("lo", o)
    BY <2>2, <2>3, <2>4
  <2> HIDE DEF o
  <2>6. /\ fl' = o.fl /\ code' = Tail(code) /\ trap' = trap
        /\ reg'["hi"] = R.hi /\ reg'["lo"] = o.ret /\ reg'["xhi"] = R.xhi /\ reg'["xlo"] = R.xlo
    BY <2>2, <2>5, Left DEF Regs
  <2>7. o = LowDaa
    BY <1>7 DEF o, LowDaa
  <2> QED BY <1>1, <2>1, <2>5, <2>6, <1>5, <2>7 DEF Holds
<1> HIDE DEF S0, S1, S2
<1>8. ~S2
  BY <1>1 DEF S2
<1> QED BY <1>1, <1>2, <1>3, <1>6, <1>7, <1>8, Zenon

\* ADD and AAA.
AtUnpackedAdd ==
    run.prog.name = "unpacked add" =>
        /\ trap = "none"
        /\ \/ code = Listing("unpacked add") /\ Fresh
           \/ Line1(code, I("aaa", "lo", "lo")) /\ Holds(R.hi, LowSum.ret, R.xhi, R.xlo) /\ fl = LowSum.fl
           \/ code = << >> /\ Holds(AsciiAdjust(LowSum.fl, R.hi, LowSum.ret, 1).hi, AsciiAdjust(LowSum.fl, R.hi, LowSum.ret, 1).lo, R.xhi, R.xlo) /\ fl = AsciiAdjust(LowSum.fl, R.hi, LowSum.ret, 1).fl

\* Every step of the program takes it to its next stage.
LEMMA UnpackedAddStep ==
    ASSUME Typed, Next, AtUnpackedAdd
    PROVE  AtUnpackedAdd'
<1> DEFINE S0 == code = Listing("unpacked add") /\ Fresh
           S1 == Line1(code, I("aaa", "lo", "lo")) /\ Holds(R.hi, LowSum.ret, R.xhi, R.xlo) /\ fl = LowSum.fl
           S2 == code = << >> /\ Holds(AsciiAdjust(LowSum.fl, R.hi, LowSum.ret, 1).hi, AsciiAdjust(LowSum.fl, R.hi, LowSum.ret, 1).lo, R.xhi, R.xlo) /\ fl = AsciiAdjust(LowSum.fl, R.hi, LowSum.ret, 1).fl
<1>1. run' = run /\ R' = R /\ w' = w /\ code # << >>
  BY Dispatch DEF R, w
<1>2. AtUnpackedAdd <=> (run.prog.name = "unpacked add" => trap = "none" /\ (S0 \/ S1 \/ S2))
  BY Zenon DEF AtUnpackedAdd
<1>3. AtUnpackedAdd' <=> (run'.prog.name = "unpacked add" => trap' = "none" /\ (S0' \/ S1' \/ S2'))
  BY Zenon DEF AtUnpackedAdd
<1>4. Line2(Listing("unpacked add"), I("add", "lo", "xlo"), I("aaa", "lo", "lo"))
  BY DEF Listing, Line2
<1>5. LowSum' = LowSum
  BY <1>1 DEF LowSum
<1>6. ASSUME S0, run.prog.name = "unpacked add" PROVE trap' = trap /\ S1'
  <2>1. Head(code) = I("add", "lo", "xlo") /\ Line1(Tail(code), I("aaa", "lo", "lo"))
    BY <1>4, <1>6, Ahead2
  <2>2. reg["hi"] = R.hi /\ reg["lo"] = R.lo /\ reg["xhi"] = R.xhi /\ reg["xlo"] = R.xlo
    BY <1>6 DEF Holds, Fresh
  <2>3. fl = run.fl /\ Val("xlo") = R.xlo
    BY <1>6, <2>2, Values DEF Fresh
  <2> DEFINE o == op_add(w, run.fl, R.lo, R.xlo)
  <2>4. Leaves("lo", op_add(w, fl, reg["lo"], Val("xlo")))
    BY <2>1, Executes
  <2>5. Leaves("lo", o)
    BY <2>2, <2>3, <2>4
  <2> HIDE DEF o
  <2>6. /\ fl' = o.fl /\ code' = Tail(code) /\ trap' = trap
        /\ reg'["hi"] = R.hi /\ reg'["lo"] = o.ret /\ reg'["xhi"] = R.xhi /\ reg'["xlo"] = R.xlo
    BY <2>2, <2>5, Left DEF Regs
  <2>7. o = LowSum
    BY DEF o, LowSum
  <2> QED BY <1>1, <2>1, <2>5, <2>6, <1>5, <2>7 DEF Holds
<1>7. ASSUME S1, run.prog.name = "unpacked add" PROVE trap' = trap /\ S2'
  <2>1. Head(code) = I("aaa", "lo", "lo") /\ Tail(code) = << >>
    BY <1>7, Ahead1
  <2>2. reg["hi"] = R.hi /\ reg["lo"] = LowSum.ret /\ reg["xhi"] = R.xhi /\ reg["xlo"] = R.xlo
    BY <1>7 DEF Holds
  <2>3. Val("lo") = LowSum.ret
    BY <2>2, Values
  <2> DEFINE o == AsciiAdjust(fl, R.hi, LowSum.ret, 1)
  <2>4. LeavesPair(AsciiAdjust(fl, reg["hi"], reg["lo"], 1))
    BY <2>1, Executes
  <2>5. LeavesPair(o)
    BY <2>2, <2>3, <2>4
  <2> HIDE DEF o
  <2>6. /\ fl' = o.fl /\ code' = Tail(code) /\ trap' = trap
        /\ reg'["hi"] = o.hi /\ reg'["lo"] = o.lo /\ reg'["xhi"] = R.xhi /\ reg'["xlo"] = R.xlo
    BY <2>2, <2>5, LeftPair
  <2>7. o = AsciiAdjust(LowSum.fl, R.hi, LowSum.ret, 1)
    BY <1>7 DEF o
  <2> QED BY <1>1, <2>1, <2>5, <2>6, <1>5, <2>7 DEF Holds
<1> HIDE DEF S0, S1, S2
<1>8. ~S2
  BY <1>1 DEF S2
<1> QED BY <1>1, <1>2, <1>3, <1>6, <1>7, <1>8, Zenon

\* SUB and AAS.
AtUnpackedSub ==
    run.prog.name = "unpacked sub" =>
        /\ trap = "none"
        /\ \/ code = Listing("unpacked sub") /\ Fresh
           \/ Line1(code, I("aas", "lo", "lo")) /\ Holds(R.hi, LowDiff.ret, R.xhi, R.xlo) /\ fl = LowDiff.fl
           \/ code = << >> /\ Holds(AsciiAdjust(LowDiff.fl, R.hi, LowDiff.ret, -1).hi, AsciiAdjust(LowDiff.fl, R.hi, LowDiff.ret, -1).lo, R.xhi, R.xlo) /\ fl = AsciiAdjust(LowDiff.fl, R.hi, LowDiff.ret, -1).fl

\* Every step of the program takes it to its next stage.
LEMMA UnpackedSubStep ==
    ASSUME Typed, Next, AtUnpackedSub
    PROVE  AtUnpackedSub'
<1> DEFINE S0 == code = Listing("unpacked sub") /\ Fresh
           S1 == Line1(code, I("aas", "lo", "lo")) /\ Holds(R.hi, LowDiff.ret, R.xhi, R.xlo) /\ fl = LowDiff.fl
           S2 == code = << >> /\ Holds(AsciiAdjust(LowDiff.fl, R.hi, LowDiff.ret, -1).hi, AsciiAdjust(LowDiff.fl, R.hi, LowDiff.ret, -1).lo, R.xhi, R.xlo) /\ fl = AsciiAdjust(LowDiff.fl, R.hi, LowDiff.ret, -1).fl
<1>1. run' = run /\ R' = R /\ w' = w /\ code # << >>
  BY Dispatch DEF R, w
<1>2. AtUnpackedSub <=> (run.prog.name = "unpacked sub" => trap = "none" /\ (S0 \/ S1 \/ S2))
  BY Zenon DEF AtUnpackedSub
<1>3. AtUnpackedSub' <=> (run'.prog.name = "unpacked sub" => trap' = "none" /\ (S0' \/ S1' \/ S2'))
  BY Zenon DEF AtUnpackedSub
<1>4. Line2(Listing("unpacked sub"), I("sub", "lo", "xlo"), I("aas", "lo", "lo"))
  BY DEF Listing, Line2
<1>5. LowDiff' = LowDiff
  BY <1>1 DEF LowDiff
<1>6. ASSUME S0, run.prog.name = "unpacked sub" PROVE trap' = trap /\ S1'
  <2>1. Head(code) = I("sub", "lo", "xlo") /\ Line1(Tail(code), I("aas", "lo", "lo"))
    BY <1>4, <1>6, Ahead2
  <2>2. reg["hi"] = R.hi /\ reg["lo"] = R.lo /\ reg["xhi"] = R.xhi /\ reg["xlo"] = R.xlo
    BY <1>6 DEF Holds, Fresh
  <2>3. fl = run.fl /\ Val("xlo") = R.xlo
    BY <1>6, <2>2, Values DEF Fresh
  <2> DEFINE o == op_sub(w, run.fl, R.lo, R.xlo)
  <2>4. Leaves("lo", op_sub(w, fl, reg["lo"], Val("xlo")))
    BY <2>1, Executes
  <2>5. Leaves("lo", o)
    BY <2>2, <2>3, <2>4
  <2> HIDE DEF o
  <2>6. /\ fl' = o.fl /\ code' = Tail(code) /\ trap' = trap
        /\ reg'["hi"] = R.hi /\ reg'["lo"] = o.ret /\ reg'["xhi"] = R.xhi /\ reg'["xlo"] = R.xlo
    BY <2>2, <2>5, Left DEF Regs
  <2>7. o = LowDiff
    BY DEF o, LowDiff
  <2> QED BY <1>1, <2>1, <2>5, <2>6, <1>5, <2>7 DEF Holds
<1>7. ASSUME S1, run.prog.name = "unpacked sub" PROVE trap' = trap /\ S2'
  <2>1. Head(code) = I("aas", "lo", "lo") /\ Tail(code) = << >>
    BY <1>7, Ahead1
  <2>2. reg["hi"] = R.hi /\ reg["lo"] = LowDiff.ret /\ reg["xhi"] = R.xhi /\ reg["xlo"] = R.xlo
    BY <1>7 DEF Holds
  <2>3. Val("lo") = LowDiff.ret
    BY <2>2, Values
  <2> DEFINE o == AsciiAdjust(fl, R.hi, LowDiff.ret, -1)
  <2>4. LeavesPair(AsciiAdjust(fl, reg["hi"], reg["lo"], -1))
    BY <2>1, Executes
  <2>5. LeavesPair(o)
    BY <2>2, <2>3, <2>4
  <2> HIDE DEF o
  <2>6. /\ fl' = o.fl /\ code' = Tail(code) /\ trap' = trap
        /\ reg'["hi"] = o.hi /\ reg'["lo"] = o.lo /\ reg'["xhi"] = R.xhi /\ reg'["xlo"] = R.xlo
    BY <2>2, <2>5, LeftPair
  <2>7. o = AsciiAdjust(LowDiff.fl, R.hi, LowDiff.ret, -1)
    BY <1>7 DEF o
  <2> QED BY <1>1, <2>1, <2>5, <2>6, <1>5, <2>7 DEF Holds
<1> HIDE DEF S0, S1, S2
<1>8. ~S2
  BY <1>1 DEF S2
<1> QED BY <1>1, <1>2, <1>3, <1>6, <1>7, <1>8, Zenon

\* MUL and AAM.
AtMulAam ==
    run.prog.name = "mul aam" =>
        /\ trap = "none"
        /\ \/ code = Listing("mul aam") /\ Fresh
           \/ Line1(code, I("aam", "lo", "ten")) /\ Holds(op_mul(w, run.fl, R.lo, R.xlo).hi, op_mul(w, run.fl, R.lo, R.xlo).lo, R.xhi, R.xlo)
           \/ code = << >> /\ reg["lo"] = (R.lo * R.xlo) % 10

\* Every step of the program takes it to its next stage.
LEMMA MulAamStep ==
    ASSUME Typed, Next, AtMulAam
    PROVE  AtMulAam'
<1> DEFINE S0 == code = Listing("mul aam") /\ Fresh
           S1 == Line1(code, I("aam", "lo", "ten")) /\ Holds(op_mul(w, run.fl, R.lo, R.xlo).hi, op_mul(w, run.fl, R.lo, R.xlo).lo, R.xhi, R.xlo)
           S2 == code = << >> /\ reg["lo"] = (R.lo * R.xlo) % 10
<1>1. run' = run /\ R' = R /\ w' = w /\ code # << >>
  BY Dispatch DEF R, w
<1>2. AtMulAam <=> (run.prog.name = "mul aam" => trap = "none" /\ (S0 \/ S1 \/ S2))
  BY Zenon DEF AtMulAam
<1>3. AtMulAam' <=> (run'.prog.name = "mul aam" => trap' = "none" /\ (S0' \/ S1' \/ S2'))
  BY Zenon DEF AtMulAam
<1>4. Line2(Listing("mul aam"), I("mul", "lo", "xlo"), I("aam", "lo", "ten"))
  BY DEF Listing, Line2
<1>5. (R.lo \in Digit /\ R.xlo \in Digit /\ w = "byte") \/ run.prog.name # "mul aam"
  BY ProgramsAssumption DEF Typed, Started, Regs, R, w, ByteNames
<1>6. ASSUME S0, run.prog.name = "mul aam" PROVE trap' = trap /\ S1'
  <2>1. Head(code) = I("mul", "lo", "xlo") /\ Line1(Tail(code), I("aam", "lo", "ten"))
    BY <1>4, <1>6, Ahead2
  <2>2. reg["hi"] = R.hi /\ reg["lo"] = R.lo /\ reg["xhi"] = R.xhi /\ reg["xlo"] = R.xlo
    BY <1>6 DEF Holds, Fresh
  <2>3. fl = run.fl /\ Val("xlo") = R.xlo
    BY <1>6, <2>2, Values DEF Fresh
  <2> DEFINE o == op_mul(w, run.fl, R.lo, R.xlo)
  <2>4. LeavesPair(op_mul(w, fl, reg["lo"], Val("xlo")))
    BY <2>1, Executes
  <2>5. LeavesPair(o)
    BY <2>2, <2>3, <2>4
  <2> HIDE DEF o
  <2>6. /\ fl' = o.fl /\ code' = Tail(code) /\ trap' = trap
        /\ reg'["hi"] = o.hi /\ reg'["lo"] = o.lo /\ reg'["xhi"] = R.xhi /\ reg'["xlo"] = R.xlo
    BY <2>2, <2>5, LeftPair
  <2>7. o = op_mul(w, run.fl, R.lo, R.xlo)
    BY DEF o
  <2> QED BY <1>1, <2>1, <2>5, <2>6, <2>7 DEF Holds
<1>7. ASSUME S1, run.prog.name = "mul aam" PROVE trap' = trap /\ S2'
  <2>1. Head(code) = I("aam", "lo", "ten") /\ Tail(code) = << >>
    BY <1>7, Ahead1
  <2>2. reg["hi"] = op_mul(w, run.fl, R.lo, R.xlo).hi /\ reg["lo"] = op_mul(w, run.fl, R.lo, R.xlo).lo /\ reg["xhi"] = R.xhi /\ reg["xlo"] = R.xlo
    BY <1>7 DEF Holds
  <2>3. Val("ten") = 10
    BY Values
  <2>4. PICK junk \in Junk : LeavesPair(Aam(reg["lo"], Val("ten"), junk))
    BY <2>1, Executes
  <2> DEFINE o == Aam(op_mul(w, run.fl, R.lo, R.xlo).lo, 10, junk)
  <2>5. LeavesPair(o)
    BY <2>2, <2>3, <2>4
  <2>6. o.lo = (R.lo * R.xlo) % 10
    <3>1. R.lo \in Digit /\ R.xlo \in Digit /\ w = "byte"
      BY <1>5, <1>7
    <3> DEFINE x == R.lo
               y == R.xlo
               g == run.fl
    <3>2. x \in Digit /\ y \in Digit
      BY <3>1
    <3> HIDE DEF x, y, g
    <3>3. Aam(op_mul("byte", g, x, y).lo, 10, junk).lo = (x * y) % 10
      BY <3>2, MulAam
    <3> QED BY <3>1, <3>3 DEF x, y, g
  <2> HIDE DEF o
  <2>7. code' = Tail(code) /\ trap' = trap /\ reg'["lo"] = o.lo
    BY <2>5, LeftPair
  <2> QED BY <1>1, <2>1, <2>6, <2>7
<1> HIDE DEF S0, S1, S2
<1>8. ~S2
  BY <1>1 DEF S2
<1> QED BY <1>1, <1>2, <1>3, <1>6, <1>7, <1>8, Zenon

\* The programs on decimal digits.
Decimals ==
    /\ Typed
    /\ AtPackedSub /\ AtPackedAdd /\ AtUnpackedAdd /\ AtUnpackedSub /\ AtMulAam /\ AtAadDiv

\* They are at their first stage at the start.
LEMMA DecimalsInit == Init => Decimals
  BY TypedInit, FreshInit
  DEF Decimals, AtPackedSub, AtPackedAdd, AtUnpackedAdd, AtUnpackedSub, AtMulAam, AtAadDiv, Init

\* And at one of their stages after every step.
LEMMA DecimalsStep == Decimals /\ [Next]_vars => Decimals'
<1>1. ASSUME Decimals, UNCHANGED vars PROVE Decimals'
  <2>1. R' = R /\ w' = w /\ run' = run /\ code' = code /\ trap' = trap /\ reg' = reg /\ fl' = fl
        /\ mask_5bit_shiftcount' = mask_5bit_shiftcount
    BY <1>1 DEF vars, R, w
  <2>2. Typed'
    BY <1>1, <2>1 DEF Decimals, Typed, Started, Machine, Program, Registers
  <2>3. LowSum' = LowSum /\ LowDaa' = LowDaa /\ LowDiff' = LowDiff /\ LowDas' = LowDas
        /\ HighDiff' = HighDiff /\ HighDas' = HighDas
    BY <2>1 DEF LowSum, LowDaa, LowDiff, LowDas, HighDiff, HighDas
  <2>4. AtPackedSub' /\ AtPackedAdd'
    BY <1>1, <2>1, <2>3 DEF Decimals, AtPackedSub, AtPackedAdd, Holds, Fresh
  <2>5. AtUnpackedAdd' /\ AtUnpackedSub'
    BY <1>1, <2>1, <2>3 DEF Decimals, AtUnpackedAdd, AtUnpackedSub, Holds, Fresh
  <2>6. AtMulAam' /\ AtAadDiv'
    BY <1>1, <2>1 DEF Decimals, AtMulAam, AtAadDiv, Holds, Fresh
  <2> QED BY <2>2, <2>4, <2>5, <2>6 DEF Decimals
<1> QED
  BY <1>1, TypedStep, PackedSubStep, PackedAddStep, UnpackedAddStep, UnpackedSubStep, MulAamStep,
     AadDivStep
  DEF Decimals

\* The operands of the programs are digits, one to a byte or two.
LEMMA DecimalOperands ==
    ASSUME Typed
    PROVE  /\ run.prog.name \in {"packed sub", "packed add"} =>
                 /\ w = "byte"
                 /\ R.hi \in PackedBytes /\ R.lo \in PackedBytes /\ R.xhi \in PackedBytes /\ R.xlo \in PackedBytes
           /\ run.prog.name \in {"unpacked add", "unpacked sub"} =>
                 w = "byte" /\ R.hi \in Digit /\ R.lo \in Digit /\ R.xlo \in Digit
  BY ProgramsAssumption DEF Typed, Started, Regs, R, w, ByteNames

\* Two digits, the four that two and two of them make up, and a number brought back to four.
Pairs == 0..99
Four(h, l) == 100 * h + l
Fours == 0..9999
Wrapped(n) == n % 10000

\* Two digits each make up a number of four.
LEMMA Hundreds ==
    ASSUME NEW h \in Pairs, NEW l \in Pairs
    PROVE  Four(h, l) \in Fours
  BY DEF Four, Fours, Pairs

\* A number of four digits is what it is a multiple of the range apart from.
LEMMA FourWrapped ==
    ASSUME NEW x \in Int, NEW y \in Fours, NEW e \in {0, 1}, y = x + 10000 * e
    PROVE  Wrapped(x) = y
  BY DEF Fours, Wrapped

\* The borrow of the low digits is taken from the high ones, and that of all four shows.
LEMMA FourDigits ==
    ASSUME NEW ah \in Pairs, NEW al \in Pairs, NEW bh \in Pairs, NEW bl \in Pairs,
           NEW dh \in Pairs, NEW dl \in Pairs, NEW c \in {0, 1}, NEW e \in {0, 1},
           Less(dl, al, bl, 0, c), Less(dh, ah, bh, c, e)
    PROVE  Four(dh, dl) = Wrapped(Four(ah, al) - Four(bh, bl)) /\ (e = 1 <=> Four(ah, al) < Four(bh, bl))
<1> DEFINE a == Four(ah, al)
           b == Four(bh, bl)
           y == Four(dh, dl)
           x == a - b
<1>1. y = x + 10000 * e
  BY DEF Four, Pairs, Less
<1>2. a \in Fours /\ b \in Fours /\ y \in Fours
  BY Hundreds, Zenon
<1> HIDE DEF a, b, y
<1>3. a \in 0..9999 /\ b \in 0..9999 /\ y \in 0..9999
  BY <1>2 DEF Fours
<1>4. x \in Int
  BY <1>3
<1>5. e = 1 <=> a < b
  <2>1. CASE e = 0
    BY <1>1, <1>3, <2>1
  <2>2. CASE e = 1
    BY <1>1, <1>3, <2>2
  <2> QED BY <2>1, <2>2
<1> HIDE DEF x
<1>6. Wrapped(x) = y
  BY <1>1, <1>2, <1>4, FourWrapped
<1> QED BY <1>5, <1>6, Zenon DEF a, b, x, y

\* The difference of two words of two digits each.
LEMMA PackedWords ==
    ASSUME w = "byte", run.fl \in FlagSet,
           R.hi \in PackedBytes, R.lo \in PackedBytes, R.xhi \in PackedBytes, R.xlo \in PackedBytes
    PROVE  LET a == Four(Packed(R.hi), Packed(R.lo))
               b == Four(Packed(R.xhi), Packed(R.xlo))
           IN  /\ Four(Packed(HighDas.ret), Packed(LowDas.ret)) = Wrapped(a - b)
               /\ HighDas.fl.cf = 1 <=> a < b
<1> DEFINE ah == Packed(R.hi)
           al == Packed(R.lo)
           bh == Packed(R.xhi)
           bl == Packed(R.xlo)
           dh == Packed(HighDas.ret)
           dl == Packed(LowDas.ret)
           c == LowDas.fl.cf
           e == HighDas.fl.cf
<1>1. Size(w) = 256 /\ Ones(w) = 255
  <2>1. "byte" \in Widths
    BY DEF Widths
  <2> QED BY <2>1, Sizes
<1>2. \A x \in PackedBytes : x \in 0..255 /\ x # 255 /\ Packed(x) \in Pairs
  <2>1. TAKE x \in PackedBytes
  <2>2. PICK p \in Digit, q \in Digit : x = 16 * p + q /\ Packed(x) = 10 * p + q
    BY PackedDigits
  <2>3. p \in 0..9 /\ q \in 0..9
    BY DEF Digit
  <2> QED BY <2>2, <2>3 DEF Pairs
<1>3. Less(dl, al, bl, 0, c) /\ c \in {0, 1} /\ LowDas.ret \in PackedBytes
  <2>1. /\ LowDiff.ret = (R.lo - (R.xlo + 0)) % 256 /\ LowDiff.fl.cf = Bit(LowDiff.ret > R.lo)
        /\ LowDiff.fl.af = Bit(Low(R.xlo) > Low(R.lo))
    <3>1. R.xlo + 0 = R.xlo
      BY <1>2
    <3> QED BY <1>1, <3>1 DEF LowDiff, op_sub, Outcome, Flags
  <2>2. 0 \in {0, 1}
    OBVIOUS
  <2> DEFINE t == LowDiff.ret
             g == LowDiff.fl
             x == R.lo
             y == R.xlo
             z == 0
             d == Das(g, t)
  <2>3. x \in PackedBytes /\ y \in PackedBytes /\ z \in {0, 1}
    OBVIOUS
  <2>4. Subtracted(g, t, x, y, z)
    BY <2>1 DEF Subtracted, Bit
  <2>5. d = LowDas
    BY DEF LowDas
  <2> HIDE DEF t, g, x, y, z
  <2>6. /\ d.ret \in PackedBytes /\ d.fl.cf \in {0, 1}
        /\ Less(Packed(d.ret), Packed(x), Packed(y), z, d.fl.cf)
    BY <2>3, <2>4, PackedDifference
  <2> HIDE DEF d
  <2> QED BY <2>5, <2>6, Zenon DEF x, y, z
<1>4. Less(dh, ah, bh, c, e) /\ e \in {0, 1} /\ HighDas.ret \in PackedBytes
  <2>1. R.xhi # Ones(w)
    BY <1>1, <1>2
  <2>2. /\ HighDiff.ret = (R.hi - (R.xhi + c)) % 256 /\ HighDiff.fl.cf = Bit(HighDiff.ret > R.hi)
        /\ HighDiff.fl.af = Bit(Low(R.xhi) > Low(R.hi))
    <3> DEFINE u == (R.hi - (R.xhi + c)) % 256
    <3>1. HighDiff = Outcome(w, u, Bit(u > R.hi), Bit(u > R.hi), Bit(Low(R.xhi) > Low(R.hi)))
      BY <1>1, <2>1 DEF HighDiff, op_sbb
    <3> HIDE DEF c, u
    <3>2. HighDiff.ret = u /\ HighDiff.fl.cf = Bit(u > R.hi) /\ HighDiff.fl.af = Bit(Low(R.xhi) > Low(R.hi))
      BY <3>1 DEF Outcome, Flags
    <3> QED BY <3>2, Zenon DEF u
  <2> DEFINE t == HighDiff.ret
             g == HighDiff.fl
             x == R.hi
             y == R.xhi
             d == Das(g, t)
  <2>3. x \in PackedBytes /\ y \in PackedBytes /\ c \in {0, 1}
    BY <1>3
  <2>4. Subtracted(g, t, x, y, c)
    BY <2>2 DEF Subtracted, Bit
  <2>5. d = HighDas
    BY DEF HighDas
  <2> HIDE DEF t, g, x, y, c
  <2>6. /\ d.ret \in PackedBytes /\ d.fl.cf \in {0, 1}
        /\ Less(Packed(d.ret), Packed(x), Packed(y), c, d.fl.cf)
    BY <2>3, <2>4, PackedDifference
  <2> HIDE DEF d
  <2> QED BY <2>5, <2>6, Zenon DEF x, y
<1>5. ah \in Pairs /\ al \in Pairs /\ bh \in Pairs /\ bl \in Pairs /\ dh \in Pairs /\ dl \in Pairs
  BY <1>2, <1>3, <1>4
<1> HIDE DEF ah, al, bh, bl, dh, dl, c, e
<1>6. Four(dh, dl) = Wrapped(Four(ah, al) - Four(bh, bl)) /\ (e = 1 <=> Four(ah, al) < Four(bh, bl))
  BY <1>3, <1>4, <1>5, FourDigits
<1> QED BY <1>6, Zenon DEF ah, al, bh, bl, dh, dl, e

\* At their ends the digits are those of the result.
LEMMA DecimalsAreRight ==
    ASSUME Decimals
    PROVE  DecimalArithmetic
<1>0. Typed /\ run.fl \in FlagSet
  BY TypedFacts DEF Decimals
<1>1. ASSUME Ended("packed sub")
      PROVE  LET a == Four(Packed(R.hi), Packed(R.lo))
                 b == Four(Packed(R.xhi), Packed(R.xlo))
             IN  /\ Four(Packed(reg["hi"]), Packed(reg["lo"])) = Wrapped(a - b)
                 /\ fl.cf = 1 <=> a < b
  <2>1. reg["hi"] = HighDas.ret /\ reg["lo"] = LowDas.ret /\ fl = HighDas.fl
    BY <1>1, Listed DEF Decimals, AtPackedSub, Ended, Holds
  <2>2. /\ w = "byte"
        /\ R.hi \in PackedBytes /\ R.lo \in PackedBytes /\ R.xhi \in PackedBytes /\ R.xlo \in PackedBytes
    BY <1>0, <1>1, DecimalOperands DEF Ended
  <2> QED BY <1>0, <2>1, <2>2, PackedWords, Zenon
<1>2. ASSUME Ended("packed add"), Low(R.lo) + Low(R.xlo) \notin 10..15
      PROVE  LET sum == Packed(R.lo) + Packed(R.xlo)
             IN  Packed(reg["lo"]) = sum % 100 /\ (fl.cf = 1 <=> sum >= 100)
  <2>1. reg["lo"] = LowDaa.ret /\ fl = LowDaa.fl
    BY <1>2, Listed DEF Decimals, AtPackedAdd, Ended, Holds
  <2>2. w = "byte" /\ R.lo \in PackedBytes /\ R.xlo \in PackedBytes
    BY <1>0, <1>2, DecimalOperands DEF Ended
  <2>3. LET sum == Packed(R.lo) + Packed(R.xlo)
        IN  Packed(LowDaa.ret) = sum % 100 /\ (LowDaa.fl.cf = 1 <=> sum >= 100)
    <3> DEFINE s == op_add("byte", run.fl, R.lo, R.xlo)
    <3>1. LET d   == Daa(s.fl, s.ret)
              sum == Packed(R.lo) + Packed(R.xlo)
          IN  Packed(d.ret) = sum % 100 /\ (d.fl.cf = 1 <=> sum >= 100)
      BY <1>2, <2>2, PackedSum, Zenon
    <3>2. LowDaa = Daa(s.fl, s.ret)
      BY <2>2 DEF LowDaa, LowSum
    <3> QED BY <3>1, <3>2, Zenon
  <2> QED BY <2>1, <2>3
<1>3. ASSUME Ended("unpacked add") PROVE 10 * reg["hi"] + reg["lo"] = 10 * R.hi + R.lo + R.xlo
  <2>1. /\ reg["hi"] = AsciiAdjust(LowSum.fl, R.hi, LowSum.ret, 1).hi
        /\ reg["lo"] = AsciiAdjust(LowSum.fl, R.hi, LowSum.ret, 1).lo
    BY <1>3, Listed DEF Decimals, AtUnpackedAdd, Ended, Holds
  <2>2. w = "byte" /\ R.hi \in Digit /\ R.lo \in Digit /\ R.xlo \in Digit
    BY <1>0, <1>3, DecimalOperands DEF Ended
  <2> QED BY <2>1, <2>2, UnpackedSum DEF LowSum
<1>4. ASSUME Ended("unpacked sub")
      PROVE  /\ 10 * reg["hi"] + reg["lo"] = (10 * R.hi + R.lo) - R.xlo \/ R.hi = 0
             /\ fl.cf = 1 <=> R.lo < R.xlo
  <2> DEFINE o == AsciiAdjust(LowDiff.fl, R.hi, LowDiff.ret, -1)
  <2>1. reg["hi"] = o.hi /\ reg["lo"] = o.lo /\ fl = o.fl
    BY <1>4, Listed DEF Decimals, AtUnpackedSub, Ended, Holds
  <2>2. w = "byte" /\ R.hi \in Digit /\ R.lo \in Digit /\ R.xlo \in Digit
    BY <1>0, <1>4, DecimalOperands DEF Ended
  <2>3. (10 * o.hi + o.lo = (10 * R.hi + R.lo) - R.xlo \/ R.hi = 0) /\ (o.fl.cf = 1 <=> R.lo < R.xlo)
    BY <2>2, UnpackedDifference DEF LowDiff
  <2> QED BY <2>1, <2>3
<1>5. ASSUME Ended("aad div") PROVE 10 * R.hi + R.lo = R.xlo * reg["lo"] + reg["hi"]
  BY <1>5, Listed DEF Decimals, AtAadDiv, Ended
<1>6. ASSUME Ended("mul aam") PROVE reg["lo"] = (R.lo * R.xlo) % 10
  BY <1>6, Listed DEF Decimals, AtMulAam, Ended
<1> DEFINE P1 == Ended("packed sub") =>
                     LET a == Four(Packed(R.hi), Packed(R.lo))
                         b == Four(Packed(R.xhi), Packed(R.xlo))
                     IN  /\ Four(Packed(reg["hi"]), Packed(reg["lo"])) = Wrapped(a - b)
                         /\ fl.cf = 1 <=> a < b
           P2 == Ended("packed add") /\ Low(R.lo) + Low(R.xlo) \notin 10..15 =>
                     LET sum == Packed(R.lo) + Packed(R.xlo)
                     IN  Packed(reg["lo"]) = sum % 100 /\ (fl.cf = 1 <=> sum >= 100)
           P3 == Ended("unpacked add") =>
                     10 * reg["hi"] + reg["lo"] = 10 * R.hi + R.lo + R.xlo
           P4 == Ended("unpacked sub") =>
                     /\ 10 * reg["hi"] + reg["lo"] = (10 * R.hi + R.lo) - R.xlo \/ R.hi = 0
                     /\ fl.cf = 1 <=> R.lo < R.xlo
           P5 == Ended("aad div") => 10 * R.hi + R.lo = R.xlo * reg["lo"] + reg["hi"]
           P6 == Ended("mul aam") => reg["lo"] = (R.lo * R.xlo) % 10
<1>7. P1
  BY <1>1, Zenon
<1>8. P2
  BY <1>2, Zenon
<1>9. P3 /\ P4 /\ P5 /\ P6
  BY <1>3, <1>4, <1>5, <1>6, Zenon
<1>10. DecimalArithmetic <=> P1 /\ P2 /\ P3 /\ P4 /\ P5 /\ P6
  BY DEF DecimalArithmetic, Four, Wrapped
<1> HIDE DEF P1, P2, P3, P4, P5, P6
<1> QED BY <1>7, <1>8, <1>9, <1>10

\* Decimal numbers come out right, digit by digit, whatever the digits (the property
\* DecimalArithmetic).
THEOREM Softx86AluDecimalArithmetic == Spec => []DecimalArithmetic
<1> QED BY DecimalsInit, DecimalsStep, DecimalsAreRight, PTL DEF Spec

=============================================================================
