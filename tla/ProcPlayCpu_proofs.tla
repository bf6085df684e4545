------------------------- MODULE ProcPlayCpu_proofs -------------------------
(***************************************************************************)
(* That the Cpu class of ProcPlay (ProcPlayCpu) keeps its memory flat and    *)
(* runs what it is given: for every size of the RAM, every place of the      *)
(* segments and every text.                                                *)
(***************************************************************************)
EXTENDS ProcPlayCpu, Recursion_proofs, SequenceTheorems, FiniteSetTheorems

Bytes == 0..255
Offsets == 0..(Word - 1)

\* What a byte and a word are.
LEMMA ByteRange == \A x : x \in Bytes <=> x \in Int /\ 0 <= x /\ x <= 255
  BY DEF Bytes

\* The number of words, less one.
LEMMA WordValue == Word \in Int /\ Word - 1 = 65535
  BY SMT DEF Word

\* The words are the numbers below it.
LEMMA OffsetRange == \A x : x \in Offsets <=> x \in Int /\ 0 <= x /\ x <= 65535
<1>1. \A x : x \in Offsets <=> x \in Int /\ 0 <= x /\ x <= Word - 1
  BY WordValue DEF Offsets
<1>. QED
  BY <1>1, WordValue

\* A number cut to a word is one, and cut to a byte.
LEMMA Cuts ==
    ASSUME NEW x \in Int
    PROVE  x % Word \in Offsets /\ x % 256 \in Bytes
<1>1. x % 256 >= 0 /\ x % 256 <= 255 /\ x % 256 \in Int
  OBVIOUS
<1>2. x % Word \in Offsets
  BY WordValue DEF Offsets
<1>. QED
  BY <1>1, <1>2, ByteRange

\* The high byte of a word is a byte.
LEMMA HighByte ==
    ASSUME NEW x \in Offsets
    PROVE  x \div 256 \in Bytes
<1>1. x \in Int /\ 0 <= x /\ x <= 65535
  BY OffsetRange
<1>2. x \div 256 \in Int /\ 0 <= x \div 256 /\ x \div 256 <= 255
  BY <1>1
<1>. QED
  BY <1>2, ByteRange

-----------------------------------------------------------------------------
(***************************************************************************)
(* The memory callbacks.                                                   *)
(***************************************************************************)
Addresses == 0..(RAM_SIZE - 1)
IsRam(m) == m \in [Addresses -> Bytes]

\* The constants.
LEMMA Constants ==
    /\ RAM_SIZE \in Nat \ {0} /\ INITIAL_IP \in Nat /\ SEGMENTS_BASE \in Nat
    /\ StepLimit \in Nat \ {0, 1} /\ MaxRuns \in Nat
  BY CpuAssumption

\* The bytes that are in RAM come first.
LEMMA CpsizeCounts ==
    ASSUME NEW address \in Nat, NEW n \in Nat
    PROVE  /\ Cpsize(address, n) \in 0..n
           /\ \A k \in 1..n : k <= Cpsize(address, n) <=> address + k - 1 < RAM_SIZE
  BY Constants DEF Cpsize

\* What is read beyond the end is FF.
LEMMA ReadsWhole ==
    ASSUME NEW m, IsRam(m), NEW address \in Nat, NEW n \in Nat
    PROVE  on_read_memory(m, address, n) =
               [k \in 1..n |-> IF address + k - 1 < RAM_SIZE THEN m[address + k - 1] ELSE 255]
<1>. DEFINE cp == Cpsize(address, n)
            s == [k \in 1..cp |-> m[address + k - 1]]
            t == [k \in 1..(n - cp) |-> 255]
            r == [k \in 1..n |-> IF address + k - 1 < RAM_SIZE THEN m[address + k - 1] ELSE 255]
<1>1. cp \in 0..n /\ \A k \in 1..n : k <= cp <=> address + k - 1 < RAM_SIZE
  BY CpsizeCounts
<1>2. \A k \in 1..cp : m[address + k - 1] \in Bytes
  <2>1. ASSUME NEW k \in 1..cp PROVE m[address + k - 1] \in Bytes
    <3>1. k \in 1..n /\ k <= cp
      BY <1>1
    <3>2. address + k - 1 \in Addresses
      BY <1>1, <3>1, Constants DEF Addresses
    <3>. QED
      BY <3>2 DEF IsRam
  <2>. QED
    BY <2>1
<1>. HIDE DEF cp
<1>3. s \in Seq(Bytes) /\ Len(s) = cp
  BY <1>1, <1>2
<1>4. t \in Seq(Bytes) /\ Len(t) = n - cp
  BY <1>1 DEF Bytes
<1>5. r \in Seq(Bytes) /\ Len(r) = n
  <2>1. \A k \in 1..n : r[k] \in Bytes
    BY <1>1, <1>2 DEF Bytes
  <2>. QED
    BY <2>1
<1>6. \A k \in 1..n : r[k] = IF k <= cp THEN m[address + k - 1] ELSE 255
  BY <1>1
<1>s. (\A k \in 1..cp : s[k] = m[address + k - 1]) /\ (\A k \in 1..(n - cp) : t[k] = 255)
  OBVIOUS
<1>. HIDE DEF r, s, t
<1>7. /\ s \o t \in Seq(Bytes) /\ Len(s \o t) = cp + (n - cp)
      /\ \A k \in 1..(cp + (n - cp)) : (s \o t)[k] = IF k <= cp THEN s[k] ELSE t[k - cp]
  <2>1. /\ s \o t \in Seq(Bytes) /\ Len(s \o t) = Len(s) + Len(t)
        /\ \A k \in 1..(Len(s) + Len(t)) :
              (s \o t)[k] = IF k <= Len(s) THEN s[k] ELSE t[k - Len(s)]
    BY <1>3, <1>4, ConcatProperties, Zenon
  <2>. QED
    BY <1>3, <1>4, <2>1, Zenon
<1>8. cp + (n - cp) = n
  BY <1>1
<1>9. \A k \in 1..n : (s \o t)[k] = r[k]
  <2>1. ASSUME NEW k \in 1..n PROVE (s \o t)[k] = r[k]
    <3>1. (s \o t)[k] = IF k <= cp THEN s[k] ELSE t[k - cp]
      BY <1>7, <1>8
    <3>2. (k <= cp => k \in 1..cp) /\ (~(k <= cp) => k - cp \in 1..(n - cp))
      BY <1>1
    <3>. QED
      BY <1>6, <1>s, <3>1, <3>2
  <2>. QED
    BY <2>1
<1>10. s \o t = r
  BY <1>5, <1>7, <1>8, <1>9, SeqEqual
<1>. QED
  BY <1>10 DEF on_read_memory, cp, r, s, t

\* It is a sequence of bytes.
LEMMA ReadsBytes ==
    ASSUME NEW m, IsRam(m), NEW address \in Nat, NEW n \in Nat
    PROVE  /\ on_read_memory(m, address, n) \in [1..n -> Bytes]
           /\ \A k \in 1..n : address + k - 1 < RAM_SIZE =>
                 on_read_memory(m, address, n)[k] = m[address + k - 1]
<1>1. ASSUME NEW k \in 1..n, address + k - 1 < RAM_SIZE
      PROVE  m[address + k - 1] \in Bytes
  <2>1. address + k - 1 \in Addresses
    BY <1>1, Constants DEF Addresses
  <2>. QED
    BY <2>1 DEF IsRam
<1>. DEFINE r == [k \in 1..n |-> IF address + k - 1 < RAM_SIZE THEN m[address + k - 1] ELSE 255]
<1>2. on_read_memory(m, address, n) = r
  BY ReadsWhole
<1>3. r \in [1..n -> Bytes]
  <2>1. ASSUME NEW k \in 1..n
        PROVE  (IF address + k - 1 < RAM_SIZE THEN m[address + k - 1] ELSE 255) \in Bytes
    BY <1>1 DEF Bytes
  <2>. QED
    BY <2>1
<1>4. \A k \in 1..n : address + k - 1 < RAM_SIZE => r[k] = m[address + k - 1]
  OBVIOUS
<1>. HIDE DEF r
<1>. QED
  BY <1>2, <1>3, <1>4

\* The bytes are in m from address on, as far as there is RAM.
Overwritten(m, address, bytes) ==
    [x \in DOMAIN m |-> IF x \in address..(address + Len(bytes) - 1)
                        THEN bytes[x - address + 1] ELSE m[x]]

\* What is written where there is RAM is written, and nothing else.
LEMMA WritesWhole ==
    ASSUME NEW m, IsRam(m), NEW address \in Nat, NEW bytes \in Seq(Bytes)
    PROVE  /\ on_write_memory(m, address, bytes) = Overwritten(m, address, bytes)
           /\ IsRam(Overwritten(m, address, bytes))
<1>. DEFINE n == Len(bytes)
            cp == Cpsize(address, n)
<1>1. n \in Nat /\ \A k \in 1..n : bytes[k] \in Bytes
  BY LenProperties
<1>2. cp \in 0..n /\ \A k \in 1..n : k <= cp <=> address + k - 1 < RAM_SIZE
  BY <1>1, CpsizeCounts
<1>3. DOMAIN m = Addresses
  BY DEF IsRam
<1>. HIDE DEF n, cp
<1>4. ASSUME NEW x \in Addresses
      PROVE  x \in address..(address + cp - 1) <=> x \in address..(address + n - 1)
  <2>1. x \in Nat /\ x < RAM_SIZE
    BY Constants DEF Addresses
  <2>2. CASE x \in address..(address + n - 1)
    <3>1. x - address + 1 \in 1..n /\ address + (x - address + 1) - 1 = x
      BY <1>1, <2>1, <2>2
    <3>2. x - address + 1 <= cp
      BY <1>2, <2>1, <3>1
    <3>. QED
      BY <1>2, <2>1, <2>2, <3>2
  <2>3. CASE x \notin address..(address + n - 1)
    BY <1>1, <1>2, <2>1, <2>3
  <2>. QED
    BY <2>2, <2>3
<1>5. on_write_memory(m, address, bytes) =
          [x \in DOMAIN m |-> IF x \in address..(address + n - 1)
                              THEN bytes[x - address + 1] ELSE m[x]]
  BY <1>3, <1>4 DEF on_write_memory, n, cp
<1>6. ASSUME NEW x \in Addresses
      PROVE  (IF x \in address..(address + n - 1) THEN bytes[x - address + 1] ELSE m[x]) \in Bytes
  <2>1. x \in address..(address + n - 1) => x - address + 1 \in 1..n
    BY <1>1, Constants DEF Addresses
  <2>. QED
    BY <1>1, <2>1 DEF IsRam
<1>. QED
  BY <1>3, <1>5, <1>6 DEF IsRam, Overwritten, n

-----------------------------------------------------------------------------
(***************************************************************************)
(* The bytes a text is assembled to: the lines one after the other.  The     *)
(* recursion is taken out of FlattenSeq here, and nowhere else.             *)
(***************************************************************************)
Texts == Seq(Seq(Bytes))

\* The first k lines, for every k, as a function of k: Begins(lines, c).
Begins(lines, c) ==
    /\ c \in [Nat -> Seq(Bytes)] /\ c[0] = << >>
    /\ \A k \in Nat : c[k + 1] = IF k + 1 \in 1..Len(lines) THEN c[k] \o lines[k + 1] ELSE c[k]

\* There is such a function,
LEMMA SomeBegins ==
    ASSUME NEW lines \in Texts
    PROVE  \E c : Begins(lines, c)
<1>. DEFINE B == Seq(Bytes)
            G == [p \in B \X Nat |->
                     IF p[2] + 1 \in 1..Len(lines) THEN p[1] \o lines[p[2] + 1] ELSE p[1]]
<1>1. << >> \in B
  OBVIOUS
<1>2. G \in [B \X Nat -> B]
  <2>1. ASSUME NEW p \in B \X Nat
        PROVE  (IF p[2] + 1 \in 1..Len(lines) THEN p[1] \o lines[p[2] + 1] ELSE p[1]) \in B
    <3>1. p[2] + 1 \in 1..Len(lines) => lines[p[2] + 1] \in B
      BY DEF Texts
    <3>. QED
      BY <3>1, ConcatProperties
  <2>. QED
    BY <2>1
<1>3. \A x \in B, k \in Nat :
          G[<<x, k>>] = IF k + 1 \in 1..Len(lines) THEN x \o lines[k + 1] ELSE x
  OBVIOUS
<1>. HIDE DEF G
<1>4. IsRecursion(B, << >>, G)
  BY <1>1, <1>2 DEF IsRecursion
<1>5. PICK c \in [Nat -> B] : c[0] = << >> /\ \A k \in Nat : c[k + 1] = G[<<c[k], k>>]
  <2>. DEFINE e == << >>
  <2>1. IsRecursion(B, e, G)
    BY <1>4
  <2>. HIDE DEF B, e
  <2>2. \E c \in [Nat -> B] : c[0] = e /\ \A k \in Nat : c[k + 1] = G[<<c[k], k>>]
    BY <2>1, RecursiveSequence
  <2>. QED
    BY <2>2 DEF e
<1>6. ASSUME NEW k \in Nat
      PROVE  c[k + 1] = IF k + 1 \in 1..Len(lines) THEN c[k] \o lines[k + 1] ELSE c[k]
  BY <1>3, <1>5
<1>. QED
  BY <1>5, <1>6 DEF Begins

\* and FlattenSeq gives its last value.
LEMMA FlattensLines ==
    ASSUME NEW lines \in Texts, NEW c, Begins(lines, c)
    PROVE  FlattenSeq(lines) = c[Len(lines)]
<1>. DEFINE n == Len(lines)
            IsLoop(f) == f = [i \in 1..n |-> IF i = 1 THEN lines[i] ELSE f[i - 1] \o lines[i]]
            F == CHOOSE f : IsLoop(f)
<1>0. n \in Nat /\ \A i \in 1..n : lines[i] \in Seq(Bytes)
  BY DEF Texts
<1>1. /\ c \in [Nat -> Seq(Bytes)] /\ c[0] = << >>
      /\ \A k \in Nat : c[k + 1] = IF k + 1 \in 1..n THEN c[k] \o lines[k + 1] ELSE c[k]
  BY DEF Begins
<1>a. ASSUME NEW k \in Nat, k + 1 \in 1..n PROVE c[k + 1] = c[k] \o lines[k + 1]
  <2>1. c[k + 1] = IF k + 1 \in 1..n THEN c[k] \o lines[k + 1] ELSE c[k]
    BY <1>1
  <2>. QED
    BY <1>a, <2>1, Zenon
<1>2. CASE n = 0
  <2>1. lines = << >>
    BY <1>0, <1>2 DEF Texts
  <2>. QED
    BY <1>1, <1>2, <2>1 DEF FlattenSeq
<1>3. CASE n # 0
  <2>1. FlattenSeq(lines) = F[n]
    BY <1>3 DEF FlattenSeq
  <2>2. IsLoop([i \in 1..n |-> c[i]])
    <3>1. ASSUME NEW i \in 1..n
          PROVE  c[i] = IF i = 1 THEN lines[i] ELSE [j \in 1..n |-> c[j]][i - 1] \o lines[i]
      <4>1. i - 1 \in Nat /\ (i - 1) + 1 = i
        OBVIOUS
      <4>2. c[i] = c[i - 1] \o lines[i]
        BY <1>a, <4>1
      <4>3. CASE i = 1
        <5>1. i - 1 = 0 /\ lines[i] \in Seq(Bytes)
          BY <1>0, <4>3
        <5>2. c[i - 1] = << >>
          BY <1>1, <5>1, Zenon
        <5>3. << >> \o lines[i] = lines[i]
          BY <5>1, ConcatEmptySeq
        <5>. QED
          BY <4>2, <4>3, <5>2, <5>3, Zenon
      <4>4. CASE i # 1
        <5>1. i - 1 \in 1..n
          BY <1>0, <4>4
        <5>. QED
          BY <4>2, <4>4, <5>1
      <4>. QED
        BY <4>3, <4>4
    <3>. QED
      BY <3>1
  <2>3. IsLoop(F)
    BY <2>2
  <2>. HIDE DEF F
  <2>4. \A i \in 1..n : F[i] = IF i = 1 THEN lines[i] ELSE F[i - 1] \o lines[i]
    BY <2>3
  <2>. DEFINE S == {i \in Nat : i + 1 \in 1..n => F[i + 1] = c[i + 1]}
  <2>5. 0 \in S
    <3>1. 0 \in Nat /\ 0 + 1 = 1 /\ 1 \in 1..n
      BY <1>0, <1>3
    <3>2. c[0 + 1] = c[0] \o lines[0 + 1]
      BY <1>a, <3>1
    <3>3. F[1] = lines[1] /\ lines[1] \in Seq(Bytes)
      BY <1>0, <2>4, <3>1
    <3>4. << >> \o lines[1] = lines[1]
      BY <3>3, ConcatEmptySeq
    <3>5. F[0 + 1] = c[0 + 1]
      BY <1>1, <3>1, <3>2, <3>3, <3>4, Zenon
    <3>. QED
      BY <3>5
  <2>6. ASSUME NEW i \in Nat, i \in S PROVE i + 1 \in S
    <3>1. SUFFICES ASSUME (i + 1) + 1 \in 1..n PROVE F[(i + 1) + 1] = c[(i + 1) + 1]
      OBVIOUS
    <3>2. i + 1 \in 1..n /\ ((i + 1) + 1) - 1 = i + 1 /\ (i + 1) + 1 # 1
      BY <1>0, <3>1
    <3>3. F[(i + 1) + 1] = F[i + 1] \o lines[(i + 1) + 1]
      BY <2>4, <3>1, <3>2
    <3>4. c[(i + 1) + 1] = c[i + 1] \o lines[(i + 1) + 1]
      BY <1>a, <3>1, i + 1 \in Nat, Zenon
    <3>5. F[i + 1] = c[i + 1]
      BY <2>6, <3>2
    <3>. QED
      BY <3>3, <3>4, <3>5
  <2>. HIDE DEF S
  <2>7. Nat \subseteq S
    BY <2>5, <2>6, NatSetInduction
  <2>8. n - 1 \in S /\ (n - 1) + 1 = n /\ n \in 1..n
    BY <1>0, <1>3, <2>7
  <2>9. F[n] = c[n]
    BY <2>8 DEF S
  <2>. QED
    BY <2>1, <2>9
<1>. QED
  BY <1>2, <1>3

\* A text is assembled to bytes.
LEMMA Assembled ==
    ASSUME NEW lines \in Texts
    PROVE  FlattenSeq(lines) \in Seq(Bytes)
<1>1. PICK c : Begins(lines, c)
  BY SomeBegins
<1>2. Len(lines) \in Nat
  BY DEF Texts
<1>. QED
  BY <1>1, <1>2, FlattensLines DEF Begins

-----------------------------------------------------------------------------
(***************************************************************************)
(* One instruction.                                                        *)
(***************************************************************************)
Contexts == [ip : Nat, cs : Offsets, base : Nat, ax : Offsets, cx : Offsets, di : Offsets]

\* At least as many bytes as the longest instruction has.
Fetches == [1..5 -> Bytes]

\* Two bytes are a word.
LEMMA OperandWord ==
    ASSUME NEW x \in Bytes, NEW y \in Bytes
    PROVE  x + (256 * y) \in Offsets
<1>1. x \in Int /\ y \in Int /\ 0 <= x /\ 0 <= y /\ x <= 255 /\ y <= 255
  BY ByteRange
<1>2. x + (256 * y) \in Int /\ 0 <= x + (256 * y) /\ x + (256 * y) <= 65535
  BY <1>1
<1>. QED
  BY <1>2, OffsetRange

\* An instruction leaves registers,
LEMMA EffectType ==
    ASSUME NEW b \in Fetches, NEW rep \in BOOLEAN, NEW c \in Contexts, NEW m, IsRam(m)
    PROVE  EffectRegs(b, rep, c, m) \in Contexts
<1>1. \A k \in 1..4 : Operand(b, k) \in Offsets
  <2>1. ASSUME NEW k \in 1..4 PROVE Operand(b, k) \in Offsets
    <3>1. k \in 1..5 /\ k + 1 \in 1..5
      OBVIOUS
    <3>2. b[k] \in Bytes /\ b[k + 1] \in Bytes
      BY <3>1 DEF Fetches
    <3>. QED
      BY <3>2, OperandWord DEF Operand
  <2>. QED
    BY <2>1
<1>2. Data + Operand(b, 2) \in Nat
  BY <1>1, Constants, OffsetRange DEF Data, SEGMENT_TO_LINEAR
<1>3. Operand(on_read_memory(m, Data + Operand(b, 2), 2), 1) \in Offsets
  <2>. DEFINE w == on_read_memory(m, Data + Operand(b, 2), 2)
  <2>1. w \in [1..2 -> Bytes]
    BY <1>2, ReadsBytes
  <2>. HIDE DEF w
  <2>2. w[1] \in Bytes /\ w[1 + 1] \in Bytes
    BY <2>1
  <2>3. Operand(w, 1) \in Offsets
    BY <2>2, OperandWord DEF Operand
  <2>. QED
    BY <2>3 DEF w
<1>4. /\ (c.ax + 1) % Word \in Offsets /\ (c.di + 1) % Word \in Offsets
      /\ (c.cx # 0 => c.cx - 1 \in Offsets)
  <2>1. c.ax \in Offsets /\ c.di \in Offsets /\ c.cx \in Offsets
    BY DEF Contexts
  <2>. QED
    BY <2>1, Cuts, OffsetRange
<1>5. (c.ip + Rel(b[2])) % Word \in Nat
  <2>1. b[2] \in Int /\ c.ip \in Nat
    BY ByteRange DEF Fetches, Contexts
  <2>2. c.ip + Rel(b[2]) \in Int
    BY <2>1 DEF Rel
  <2>. QED
    BY <2>2, Cuts, OffsetRange
<1>6. SEGMENT_TO_LINEAR(Operand(b, 4)) \in Nat /\ Operand(b, 2) \in Nat
  BY <1>1, OffsetRange DEF SEGMENT_TO_LINEAR
<1>7. CASE b[1] = \h40
  BY <1>4, <1>7 DEF EffectRegs, Contexts
<1>8. CASE b[1] \in {\hB8, \hB9, \hBF}
  BY <1>1, <1>8 DEF EffectRegs, Contexts
<1>9. CASE b[1] = \hA1
  BY <1>3, <1>9 DEF EffectRegs, Contexts
<1>10. CASE b[1] = \hAA
  <2>1. CASE Idle(b, rep, c)
    BY <1>10, <2>1 DEF EffectRegs
  <2>2. CASE ~Idle(b, rep, c)
    <3>1. rep => c.cx - 1 \in Offsets
      BY <1>4, <1>10, <2>2 DEF Idle
    <3>2. (IF rep THEN c.cx - 1 ELSE c.cx) \in Offsets
      BY <3>1 DEF Contexts
    <3>3. EffectRegs(b, rep, c, m) =
              [c EXCEPT !.di = (c.di + 1) % Word, !.cx = IF rep THEN c.cx - 1 ELSE c.cx]
      BY <1>10, <2>2 DEF EffectRegs
    <3>. QED
      BY <1>4, <3>2, <3>3 DEF Contexts
  <2>. QED
    BY <2>1, <2>2
<1>11. CASE b[1] = \hEB
  BY <1>5, <1>11 DEF EffectRegs, Contexts
<1>12. CASE b[1] = \hEA
  <2>1. EffectRegs(b, rep, c, m) =
            [c EXCEPT !.ip = Operand(b, 2), !.cs = Operand(b, 4),
                      !.base = SEGMENT_TO_LINEAR(Operand(b, 4))]
    BY <1>12 DEF EffectRegs
  <2>. QED
    <3>1. Operand(b, 4) \in Offsets
      BY <1>1
    <3>. QED
      BY <1>6, <2>1, <3>1 DEF Contexts
<1>13. CASE b[1] \notin {\h40, \hB8, \hB9, \hBF, \hA1, \hAA, \hEB, \hEA}
  BY <1>13 DEF EffectRegs
<1>. QED
  BY <1>7, <1>8, <1>9, <1>10, <1>11, <1>12, <1>13

\* and writes bytes to an address.
LEMMA WrittenType ==
    ASSUME NEW b \in Fetches, NEW rep \in BOOLEAN, NEW c \in Contexts, NEW m, IsRam(m)
    PROVE  Address(b, c) \in Nat /\ Written(b, rep, c, m) \in Seq(Bytes)
<1>1. Operand(b, 2) \in Offsets
  BY OperandWord DEF Fetches, Operand
<1>2. Data \in Nat /\ Operand(b, 2) \in Nat /\ c.di \in Nat /\ c.ax \in Offsets
  BY <1>1, Constants, OffsetRange DEF Data, SEGMENT_TO_LINEAR, Contexts
<1>3. Address(b, c) \in Nat
  BY <1>2 DEF Address
<1>4. c.ax % 256 \in Bytes /\ c.ax \div 256 \in Bytes
  BY <1>2, Cuts, HighByte, OffsetRange
<1>5. (on_read_memory(m, Data, 1)[1] + AL(c)) % 256 \in Bytes
  <2>1. on_read_memory(m, Data, 1) \in [1..1 -> Bytes]
    BY <1>2, ReadsBytes
  <2>2. on_read_memory(m, Data, 1)[1] \in Bytes
    BY <2>1
  <2>. QED
    BY <1>4, <2>2, Cuts, ByteRange DEF AL
<1>6. << >> \in Seq(Bytes) /\ \A x, y \in Bytes : <<x>> \in Seq(Bytes) /\ <<x, y>> \in Seq(Bytes)
  OBVIOUS
<1>7. Wide(c.ax) \in Seq(Bytes) /\ <<AL(c)>> \in Seq(Bytes)
  BY <1>4, <1>6 DEF Wide, AL
<1>8. <<(on_read_memory(m, Data, 1)[1] + AL(c)) % 256>> \in Seq(Bytes)
  BY <1>5, <1>6
<1>9. Written(b, rep, c, m) \in Seq(Bytes)
  BY <1>6, <1>7, <1>8, Zenon DEF Written
<1>. QED
  BY <1>3, <1>9

\* The prefixes before an opcode are counted, up to the limit.
LEMMA PrefixesCounted ==
    /\ PrefixCount \in 0..StepLimit
    /\ \A k \in 0..(PrefixCount - 1) : Fetched(k)[1] \in Prefix
    /\ PrefixCount = StepLimit \/ Fetched(PrefixCount)[1] \notin Prefix
<1>. DEFINE P(k) == Fetched(k)[1] \in Prefix
            Good(p) == (\A k \in 0..(p - 1) : P(k)) /\ (p = StepLimit \/ ~P(p))
            S == {n \in Nat : n <= StepLimit =>
                     (\A k \in 0..(n - 1) : P(k)) \/ \E p \in 0..StepLimit : Good(p)}
<1>1. PrefixCount = CHOOSE p \in 0..StepLimit : Good(p)
  BY DEF PrefixCount
<1>. HIDE DEF P
<1>2. 0 \in S
  OBVIOUS
<1>3. ASSUME NEW n \in Nat, n \in S PROVE n + 1 \in S
  <2>1. SUFFICES ASSUME n + 1 <= StepLimit, ~ \E p \in 0..StepLimit : Good(p)
                 PROVE  \A k \in 0..((n + 1) - 1) : P(k)
    OBVIOUS
  <2>2. \A k \in 0..(n - 1) : P(k)
    BY <1>3, <2>1, Constants
  <2>3. P(n)
    BY <2>1, <2>2, Constants
  <2>. QED
    BY <2>2, <2>3
<1>. HIDE DEF S
<1>4. StepLimit \in S
  BY <1>2, <1>3, NatSetInduction, Constants
<1>5. \E p \in 0..StepLimit : Good(p)
  <2>1. CASE \A k \in 0..(StepLimit - 1) : P(k)
    BY <2>1, Constants
  <2>2. CASE ~ \A k \in 0..(StepLimit - 1) : P(k)
    BY <1>4, <2>2, Constants DEF S
  <2>. QED
    BY <2>1, <2>2
<1>6. PrefixCount \in 0..StepLimit /\ Good(PrefixCount)
  BY <1>1, <1>5
<1>. QED
  BY <1>6 DEF P

\* An instruction of the alphabet has a length.
LEMMA LengthNat ==
    ASSUME NEW b, Alphabet(b)
    PROVE  Length(b) \in 1..5
  BY DEF Alphabet, Length

-----------------------------------------------------------------------------
(***************************************************************************)
(* The inductive invariant of memory and registers.                        *)
(***************************************************************************)
Memory ==
    /\ ctx \in Contexts /\ IsRam(ram) /\ flat = ram
    /\ registers = update_registers(ctx)

Counts == todo \in Nat /\ runs \in 0..MaxRuns
Counted == Counts /\ fresh \in BOOLEAN

IInv == Memory /\ Counted /\ OwnCodeFirst

\* A step leaves registers, and a RAM in which each address has what was written last.
LEMMA StepMemory ==
    ASSUME ctx \in Contexts, IsRam(ram), flat = ram, softx86_step
    PROVE  ctx' \in Contexts /\ IsRam(ram') /\ flat' = ram'
<1>. DEFINE p == PrefixCount
            b == Fetched(p)
            c == [ctx EXCEPT !.ip = @ + p + Length(b)]
            rep == Reps = 1
            r == EffectRegs(b, rep, c, ram)
            again == Fails \/ b[1] = \hF4 \/ (b[1] = \hAA /\ rep /\ r.cx # 0)
            a == Address(b, c)
            w == Written(b, rep, c, ram)
<1>1. CASE p = StepLimit \/ Reps > 1
  BY <1>1 DEF softx86_step
<1>2. CASE ~(p = StepLimit \/ Reps > 1)
  <2>1. /\ Alphabet(b)
        /\ ctx' = IF again THEN [r EXCEPT !.ip = ctx.ip, !.cs = ctx.cs] ELSE r
        /\ ram' = on_write_memory(ram, a, w)
        /\ flat' = [x \in DOMAIN flat |->
                       IF x \in a..(a + Len(w) - 1) THEN w[x - a + 1] ELSE flat[x]]
    BY <1>2 DEF softx86_step
  <2>2. p \in Nat
    BY PrefixesCounted, Constants
  <2>3. b \in Fetches
    <3>1. ctx.base + ctx.ip + p \in Nat
      BY <2>2 DEF Contexts
    <3>. HIDE DEF p
    <3>. QED
      BY <3>1, ReadsBytes DEF Fetched, Fetches
  <2>. HIDE DEF p, b
  <2>4. c \in Contexts
    <3>1. ctx.ip + p + Length(b) \in Nat
      BY <2>1, <2>2, LengthNat DEF Contexts
    <3>. QED
      BY <3>1 DEF Contexts
  <2>5. rep \in BOOLEAN
    OBVIOUS
  <2>. HIDE DEF c, rep
  <2>6. r \in Contexts
    BY <2>3, <2>4, <2>5, EffectType
  <2>7. a \in Nat /\ w \in Seq(Bytes)
    BY <2>3, <2>4, <2>5, WrittenType
  <2>. HIDE DEF r, a, w
  <2>8. IsRam(ram') /\ flat' = ram'
    <3>1. on_write_memory(ram, a, w) = Overwritten(ram, a, w) /\ IsRam(Overwritten(ram, a, w))
      BY <2>7, WritesWhole
    <3>2. flat' = Overwritten(ram, a, w)
      BY <2>1 DEF Overwritten
    <3>. QED
      BY <2>1, <3>1, <3>2
  <2>9. [r EXCEPT !.ip = ctx.ip, !.cs = ctx.cs] \in Contexts
    BY <2>6 DEF Contexts
  <2>. HIDE DEF again
  <2>. QED
    BY <2>1, <2>6, <2>8, <2>9
<1>. QED
  BY <1>1, <1>2

\* The segments begin at a word, and a register is cleared to one.
LEMMA BaseOffset == SEGMENTS_BASE \in Offsets /\ 0 \in Offsets
<1>1. SEGMENTS_BASE \in Nat /\ SEGMENTS_BASE < 65536
  BY CpuAssumption
<1>. QED
  BY <1>1, OffsetRange

\* Initially memory is clear.
LEMMA InitInv == Init => IInv
<1>. SUFFICES ASSUME Init PROVE IInv
  OBVIOUS
<1>1. Fresh \in Contexts
  <2>1. SEGMENTS_BASE \in Offsets /\ 0 \in Offsets
    BY BaseOffset
  <2>. QED
    BY <2>1, Constants DEF Fresh, Contexts, SEGMENT_TO_LINEAR
<1>2. IsRam(Cleared) /\ Cleared = [a \in 0..(RAM_SIZE - 1) |-> 0]
  BY DEF IsRam, Cleared, Addresses, Bytes
<1>3. Counted
  <2>1. todo = 0 /\ fresh = FALSE /\ runs = 0
    BY DEF Init
  <2>. QED
    <3>1. Counts
      BY <2>1, Constants DEF Counts
    <3>. QED
      BY <2>1, <3>1 DEF Counted
<1>4. OwnCodeFirst
  BY DEF Init, OwnCodeFirst
<1>. QED
  BY <1>1, <1>2, <1>3, <1>4 DEF Init, IInv, Memory

\* Every step keeps the invariant.
LEMMA NextInv ==
    ASSUME IInv, [Next]_vars
    PROVE  IInv'
<1>0. Memory /\ Counted /\ OwnCodeFirst
  BY DEF IInv
<1>1. CASE reset
  <2>1. ctx' \in Contexts
    <3>1. SEGMENTS_BASE \in Offsets /\ 0 \in Offsets
      BY BaseOffset
    <3>. QED
      BY <1>1, <3>1, Constants DEF reset, Fresh, Contexts, SEGMENT_TO_LINEAR
  <2>2. IsRam(ram') /\ flat' = ram'
    BY <1>0, <1>1 DEF reset, Memory, IsRam, Cleared, Addresses, Bytes
  <2>3. registers' = update_registers(ctx')
    BY <1>1 DEF reset
  <2>4. Counted'
    <3>1. todo' = todo /\ fresh' = FALSE /\ runs' = runs + 1 /\ runs < MaxRuns
      BY <1>1 DEF reset
    <3>. QED
      <4>1. Counts'
        BY <1>0, <3>1, Constants DEF Counted, Counts
      <4>. QED
        BY <3>1, <4>1 DEF Counted
  <2>5. OwnCodeFirst'
    BY <1>1 DEF reset, OwnCodeFirst
  <2>. QED
    BY <2>1, <2>2, <2>3, <2>4, <2>5 DEF IInv, Memory, update_registers
<1>2. CASE step
  <2>1. ctx' \in Contexts /\ IsRam(ram') /\ flat' = ram'
    BY <1>0, <1>2, StepMemory DEF step, Memory
  <2>2. registers' = update_registers(ctx')
    BY <1>2 DEF step
  <2>3. Counted'
    <3>1. todo' = todo - 1 /\ todo > 0 /\ fresh' = FALSE /\ runs' = runs
      BY <1>2 DEF step
    <3>. QED
      <4>1. Counts'
        BY <1>0, <3>1 DEF Counted, Counts
      <4>. QED
        BY <3>1, <4>1 DEF Counted
  <2>4. OwnCodeFirst'
    BY <1>2 DEF step, OwnCodeFirst
  <2>. QED
    BY <2>1, <2>2, <2>3, <2>4 DEF IInv, Memory, update_registers
<1>3. ASSUME NEW lines \in Sources, run(lines)
      PROVE  IInv'
  <2>. DEFINE code == FlattenSeq(lines)
              a == registers.ip + ctx.base
  <2>1. code \in Seq(Bytes)
    BY CpuAssumption, Assembled DEF Texts, Bytes
  <2>2. a \in Nat /\ a = ctx.base + ctx.ip
    BY <1>0 DEF Memory, Contexts, update_registers
  <2>3. /\ ram' = on_write_memory(ram, a, code)
        /\ flat' = [x \in DOMAIN flat |->
                       IF x \in a..(a + Len(code) - 1) THEN code[x - a + 1] ELSE flat[x]]
        /\ UNCHANGED <<ctx, registers>> /\ fresh' = TRUE
        /\ begin' = [lines |-> lines, ctx |-> ctx, ram |-> ram]
    BY <1>3 DEF run, load_at_current_ip
  <2>4. Counted'
    <3>1. Len(lines) \in Nat
      BY CpuAssumption
    <3>. QED
      BY <1>0, <1>3, <3>1, Constants DEF run, Counted, Counts
  <2>. HIDE DEF a
  <2>5. begin'.lines = lines /\ code = FlattenSeq(begin'.lines)
    BY <2>3
  <2>. HIDE DEF code
  <2>6. /\ IsRam(ram') /\ flat' = ram'
        /\ ram' = [x \in DOMAIN ram |-> IF x \in a..(a + Len(code) - 1)
                                        THEN code[x - a + 1] ELSE ram[x]]
    <3>1. IsRam(ram) /\ flat = ram
      BY <1>0 DEF Memory
    <3>2. on_write_memory(ram, a, code) = Overwritten(ram, a, code) /\ IsRam(Overwritten(ram, a, code))
      BY <2>1, <2>2, <3>1, WritesWhole
    <3>3. flat' = Overwritten(ram, a, code)
      BY <2>3, <3>1 DEF Overwritten
    <3>4. ram' = Overwritten(ram, a, code)
      BY <2>3, <3>2
    <3>. QED
      BY <3>2, <3>3, <3>4 DEF Overwritten
  <2>7. ASSUME NEW k \in 1..Len(code), a + k - 1 < RAM_SIZE
        PROVE  ram'[a + k - 1] = code[k]
    <3>1. a + k - 1 \in DOMAIN ram
      BY <1>0, <2>2, <2>7, Constants DEF Memory, IsRam, Addresses
    <3>2. Len(code) \in Nat
      BY <2>1
    <3>3. a + k - 1 \in a..(a + Len(code) - 1) /\ (a + k - 1) - a + 1 = k
      BY <2>2, <3>2
    <3>. QED
      BY <2>6, <3>1, <3>3
  <2>8. OwnCodeFirst'
    BY <2>2, <2>3, <2>5, <2>7 DEF OwnCodeFirst
  <2>. QED
    BY <1>0, <2>3, <2>4, <2>6, <2>8 DEF IInv, Memory, update_registers
<1>4. CASE UNCHANGED vars
  BY <1>0, <1>4 DEF vars, IInv, Memory, Counted, Counts, OwnCodeFirst, IsRam, update_registers
<1>. QED
  BY <1>1, <1>2, <1>3, <1>4 DEF Next

(***************************************************************************)
(* The invariant.                                                          *)
(***************************************************************************)
THEOREM CpuInvariant == Spec => []IInv
  BY InitInv, NextInv, PTL DEF Spec

(***************************************************************************)
(* Types, for every size of the RAM and every text.                         *)
(***************************************************************************)
THEOREM TypeCorrect == Spec => []TypeOK
<1>1. IInv => TypeOK
  BY DEF IInv, Memory, Counted, Counts, IsRam, Addresses, Bytes, Contexts, Offsets, TypeOK
<1>. QED
  BY <1>1, CpuInvariant, PTL

\* Three bytes, as the property reads them.
LEMMA ReadsThree ==
    ASSUME NEW m, IsRam(m), NEW address \in Nat
    PROVE  on_read_memory(m, address, 3) =
               [k \in 1..3 |-> IF address + k - 1 < RAM_SIZE THEN m[address + k - 1] ELSE 255]
<1>1. \A n \in Nat : on_read_memory(m, address, n) =
          [k \in 1..n |-> IF address + k - 1 < RAM_SIZE THEN m[address + k - 1] ELSE 255]
  BY ReadsWhole
<1>2. \A n \in Nat : n = 3 => on_read_memory(m, address, 3) =
          [k \in 1..3 |-> IF address + k - 1 < RAM_SIZE THEN m[address + k - 1] ELSE 255]
  BY <1>1, Zenon
<1>. QED
  BY <1>2

(***************************************************************************)
(* What is read is what was last written, and FF beyond the end.            *)
(***************************************************************************)
THEOREM MemoryCorrect == Spec => []MemoryFlat
<1>1. ASSUME IInv, NEW a \in 0..(RAM_SIZE + 1)
      PROVE  on_read_memory(ram, a, 3) =
                 [k \in 1..3 |-> IF a + k - 1 < RAM_SIZE THEN flat[a + k - 1] ELSE 255]
  <2>1. a \in Nat /\ IsRam(ram) /\ flat = ram
    BY <1>1, Constants DEF IInv, Memory
  <2>. QED
    BY <2>1, ReadsThree
<1>2. IInv => MemoryFlat
  BY <1>1 DEF MemoryFlat
<1>. QED
  BY <1>2, CpuInvariant, PTL

(***************************************************************************)
(* The first bytes fetched are those of the first line, whatever the runs     *)
(* before have left.                                                       *)
(***************************************************************************)
THEOREM LoadCorrect == Spec => []OwnCodeFirst
<1>1. IInv => OwnCodeFirst
  BY DEF IInv
<1>. QED
  BY <1>1, CpuInvariant, PTL

-----------------------------------------------------------------------------
(***************************************************************************)
(* Lines that are one instruction each.                                    *)
(***************************************************************************)
\* One such line, with its opcode and the bytes after it.
Single(b) ==
    /\ b \in Seq(Bytes) /\ Len(b) > 0 /\ Len(b) = Length(b)
    /\ b[1] \in {\h90, \h40, \hB8, \hB9, \hBF, \hA1, \hA3, \hAA, \h63}

\* The bytes fetched begin with those of the line.
Shows(e, b) == \A i \in 1..Len(b) : e[i] = b[i]

\* Each line of a plain text is one.
LEMMA SingleLines ==
    ASSUME NEW lines \in Texts, Plain(lines)
    PROVE  \A k \in 1..Len(lines) : Single(lines[k])
  BY DEF Texts, Plain, Single

\* It has as many bytes as its opcode says.
LEMMA SingleLength ==
    ASSUME NEW b, Single(b)
    PROVE  /\ Len(b) \in {1, 3}
           /\ Len(b) = IF b[1] \in {\hB8, \hB9, \hBF, \hA1, \hA3} THEN 3 ELSE 1
           /\ Length(b) = Len(b)
  BY DEF Single, Length

\* The instruction fetched at a line is the one the line is,
LEMMA SameLength ==
    ASSUME NEW b, Single(b), NEW e \in Fetches, Shows(e, b)
    PROVE  /\ e[1] = b[1] /\ Length(e) = Len(b) /\ Alphabet(e) /\ e[1] \notin Prefix
           /\ b[1] \in {\hB8, \hB9, \hBF, \hA1, \hA3} => Operand(e, 2) = Operand(b, 2)
<1>. DEFINE n == Len(b)
<1>1. /\ n \in {1, 3} /\ n = IF b[1] \in {\hB8, \hB9, \hBF, \hA1, \hA3} THEN 3 ELSE 1
      /\ Length(b) = n /\ \A i \in 1..n : e[i] = b[i]
  BY SingleLength DEF Shows
<1>2. b[1] \in {\h90, \h40, \hB8, \hB9, \hBF, \hA1, \hA3, \hAA, \h63}
  BY DEF Single
<1>. HIDE DEF n
<1>3. e[1] = b[1]
  BY <1>1
<1>4. Length(e) = Length(b)
  BY <1>2, <1>3 DEF Length
<1>5. Alphabet(e) /\ e[1] \notin Prefix
  BY <1>2, <1>3 DEF Alphabet, Prefix
<1>6. ASSUME b[1] \in {\hB8, \hB9, \hBF, \hA1, \hA3}
      PROVE  Operand(e, 2) = Operand(b, 2)
  <2>1. n = 3
    BY <1>1, <1>6
  <2>2. e[2] = b[2] /\ e[2 + 1] = b[2 + 1]
    BY <1>1, <2>1
  <2>. QED
    BY <2>2 DEF Operand
<1>. QED
  BY <1>1, <1>3, <1>4, <1>5, <1>6 DEF n

\* A line without a prefix: what it makes of registers, and what it writes.
Leaves(b, c, m) == EffectRegs(b, FALSE, c, m)
Stores(b, c, m) == Written(b, FALSE, c, m)

\* and has its effect.
LEMMA SameEffect ==
    ASSUME NEW b, Single(b), NEW e \in Fetches, Shows(e, b), NEW c, NEW m,
           NEW rep \in BOOLEAN, ~rep
    PROVE  /\ EffectRegs(e, rep, c, m) = EffectRegs(b, rep, c, m)
           /\ Address(e, c) = Address(b, c)
           /\ Written(e, rep, c, m) = Written(b, rep, c, m)
<1>1. /\ e[1] = b[1]
      /\ b[1] \in {\hB8, \hB9, \hBF, \hA1, \hA3} => Operand(e, 2) = Operand(b, 2)
  BY SameLength
<1>2. b[1] \in {\h90, \h40, \hB8, \hB9, \hBF, \hA1, \hA3, \hAA, \h63}
  BY DEF Single
<1>3. ~Idle(e, rep, c) /\ ~Idle(b, rep, c)
  BY DEF Idle
<1>4. Address(e, c) = Address(b, c)
  BY <1>1 DEF Address
<1>5. Written(e, rep, c, m) = Written(b, rep, c, m)
  BY <1>1, <1>3 DEF Written
<1>6. EffectRegs(e, rep, c, m) = EffectRegs(b, rep, c, m)
  BY <1>1, <1>2, <1>3 DEF EffectRegs
<1>. QED
  BY <1>4, <1>5, <1>6

\* There are such bytes.
LEMMA SomeShows ==
    ASSUME NEW b, Single(b)
    PROVE  \E e \in Fetches : Shows(e, b)
<1>. DEFINE e == [i \in 1..5 |-> IF i <= Len(b) THEN b[i] ELSE 0]
<1>1. Len(b) \in {1, 3}
  BY SingleLength
<1>2. \A i \in 1..Len(b) : b[i] \in Bytes
  BY DEF Single
<1>3. e \in Fetches
  BY <1>1, <1>2 DEF Fetches, Bytes
<1>4. Shows(e, b)
  BY <1>1 DEF Shows
<1>. QED
  BY <1>3, <1>4

\* A line that goes on to the next keeps code segment and IP.
LEMMA SingleGoesOn ==
    ASSUME NEW b, Single(b), NEW c \in Contexts, NEW m, IsRam(m)
    PROVE  /\ Leaves(b, c, m) \in Contexts
           /\ Leaves(b, c, m).ip = c.ip
           /\ Leaves(b, c, m).base = c.base
           /\ Address(b, c) \in Nat /\ Stores(b, c, m) \in Seq(Bytes)
<1>. DEFINE rep == FALSE
<1>r. rep \in BOOLEAN /\ ~rep
  OBVIOUS
<1>l. Leaves(b, c, m) = EffectRegs(b, rep, c, m) /\ Stores(b, c, m) = Written(b, rep, c, m)
  BY Zenon DEF Leaves, Stores
<1>. HIDE DEF rep
<1>1. PICK e \in Fetches : Shows(e, b)
  BY SomeShows
<1>2. /\ EffectRegs(e, rep, c, m) = EffectRegs(b, rep, c, m)
      /\ Address(e, c) = Address(b, c)
      /\ Written(e, rep, c, m) = Written(b, rep, c, m)
  BY <1>1, <1>r, SameEffect
<1>3. EffectRegs(b, rep, c, m) \in Contexts
  BY <1>1, <1>2, <1>r, EffectType
<1>4. Address(b, c) \in Nat /\ Written(b, rep, c, m) \in Seq(Bytes)
  BY <1>1, <1>2, <1>r, WrittenType
<1>5. b[1] \in {\h90, \h40, \hB8, \hB9, \hBF, \hA1, \hA3, \hAA, \h63}
  BY DEF Single
<1>6. EffectRegs(b, rep, c, m).ip = c.ip /\ EffectRegs(b, rep, c, m).base = c.base
  <2>1. ~Idle(b, rep, c)
    BY <1>r DEF Idle
  <2>2. CASE b[1] \in {\h40, \hB8, \hB9, \hBF, \hA1}
    BY <2>2 DEF EffectRegs, Contexts
  <2>3. CASE b[1] = \hAA
    <3>1. EffectRegs(b, rep, c, m) =
              [c EXCEPT !.di = (c.di + 1) % Word, !.cx = IF rep THEN c.cx - 1 ELSE c.cx]
      BY <2>1, <2>3 DEF EffectRegs
    <3>. QED
      BY <3>1 DEF Contexts
  <2>4. CASE b[1] \in {\h90, \hA3, \h63}
    BY <2>4 DEF EffectRegs
  <2>. QED
    BY <1>5, <2>2, <2>3, <2>4
<1>. QED
  BY <1>3, <1>4, <1>6, <1>l
-----------------------------------------------------------------------------
(***************************************************************************)
(* What a plain text means: registers and RAM before the first line, and     *)
(* what one line makes of them.                                            *)
(***************************************************************************)
States == [ctx : Contexts, ram : [Addresses -> Bytes], stop : BOOLEAN, spoilt : BOOLEAN]

\* A call of run: its lines, and registers and RAM before it.
Calls == [lines : Texts, ctx : Contexts, ram : [Addresses -> Bytes]]

Code(r)   == FlattenSeq(r.lines)
Origin(r) == r.ctx.base + r.ctx.ip

Loaded(r) ==
    [ctx |-> r.ctx, ram |-> on_write_memory(r.ram, Origin(r), Code(r)),
     stop |-> FALSE, spoilt |-> Origin(r) + Len(Code(r)) > RAM_SIZE]

\* Behind a line.
Behind(c, b) == [c EXCEPT !.ip = @ + Len(b)]

\* Line b writes into the n bytes from a on.
Hits(p, b, a, n) ==
    \E x \in 0..(Len(Stores(b, Behind(p.ctx, b), p.ram)) - 1) :
        Address(b, Behind(p.ctx, b)) + x \in a..(a + n - 1)

Stopped(p) == [p EXCEPT !.stop = TRUE]

Executed(p, b, a, n) ==
    IF p.stop \/ b[1] = \h63 THEN Stopped(p)
    ELSE [ctx |-> Leaves(b, Behind(p.ctx, b), p.ram),
          ram |-> on_write_memory(p.ram, Address(b, Behind(p.ctx, b)),
                                  Stores(b, Behind(p.ctx, b), p.ram)),
          stop |-> FALSE, spoilt |-> p.spoilt \/ Hits(p, b, a, n)]

\* g has the state after k lines, for every k.
Means(r, g) ==
    /\ g \in [Nat -> States] /\ g[0] = Loaded(r)
    /\ \A k \in Nat :
          g[k + 1] = IF k + 1 \in 1..Len(r.lines)
                     THEN Executed(g[k], r.lines[k + 1], Origin(r), Len(Code(r))) ELSE g[k]

\* A call has code, and a place for it.
LEMMA CallCode ==
    ASSUME NEW r \in Calls
    PROVE  /\ r.lines \in Texts /\ r.ctx \in Contexts /\ IsRam(r.ram)
           /\ Code(r) \in Seq(Bytes) /\ Origin(r) \in Nat
<1>1. r.lines \in Texts /\ r.ctx \in Contexts /\ IsRam(r.ram)
  BY DEF Calls, IsRam
<1>2. r.ctx.base \in Nat /\ r.ctx.ip \in Nat
  BY <1>1 DEF Contexts
<1>. QED
  BY <1>1, <1>2, Assembled DEF Code, Origin

\* What is loaded is a state,
LEMMA LoadedState ==
    ASSUME NEW r \in Calls
    PROVE  Loaded(r) \in States
<1>1. on_write_memory(r.ram, Origin(r), Code(r)) \in [Addresses -> Bytes]
  <2>1. IsRam(r.ram) /\ Origin(r) \in Nat /\ Code(r) \in Seq(Bytes)
    BY CallCode
  <2>2. IsRam(on_write_memory(r.ram, Origin(r), Code(r)))
    BY <2>1, WritesWhole
  <2>. QED
    BY <2>2 DEF IsRam
<1>2. r.ctx \in Contexts
  BY CallCode
<1>3. (Origin(r) + Len(Code(r)) > RAM_SIZE) \in BOOLEAN
  OBVIOUS
<1>. QED
  BY <1>1, <1>2, <1>3, Zenon DEF Loaded, States

\* as is what a line leaves.
LEMMA ExecutedState ==
    ASSUME NEW p \in States, NEW b, Single(b), NEW a, NEW n
    PROVE  Executed(p, b, a, n) \in States
<1>. DEFINE c == Behind(p.ctx, b)
<1>0. p.ctx \in Contexts /\ IsRam(p.ram)
  BY DEF States, IsRam
<1>1. c \in Contexts
  <2>1. Len(b) \in Nat
    BY SingleLength
  <2>2. p.ctx.ip + Len(b) \in Nat
    BY <1>0, <2>1 DEF Contexts
  <2>. QED
    BY <1>0, <2>2 DEF Contexts, Behind
<1>. HIDE DEF c
<1>2. Leaves(b, c, p.ram) \in Contexts /\ Address(b, c) \in Nat /\ Stores(b, c, p.ram) \in Seq(Bytes)
  BY <1>0, <1>1, SingleGoesOn
<1>3. on_write_memory(p.ram, Address(b, c), Stores(b, c, p.ram)) \in [Addresses -> Bytes]
  <2>1. IsRam(on_write_memory(p.ram, Address(b, c), Stores(b, c, p.ram)))
    BY <1>0, <1>2, WritesWhole
  <2>. QED
    BY <2>1 DEF IsRam
<1>4. (p.spoilt \/ Hits(p, b, a, n)) \in BOOLEAN
  OBVIOUS
<1>5. Stopped(p) \in States
  BY DEF Stopped, States
<1>6. CASE p.stop \/ b[1] = \h63
  BY <1>5, <1>6 DEF Executed
<1>7. CASE ~(p.stop \/ b[1] = \h63)
  <2>1. Executed(p, b, a, n) =
            [ctx |-> Leaves(b, c, p.ram),
             ram |-> on_write_memory(p.ram, Address(b, c), Stores(b, c, p.ram)),
             stop |-> FALSE, spoilt |-> p.spoilt \/ Hits(p, b, a, n)]
    BY <1>7, Zenon DEF Executed, c
  <2>. DEFINE l == Leaves(b, c, p.ram)
              m == on_write_memory(p.ram, Address(b, c), Stores(b, c, p.ram))
              s == p.spoilt \/ Hits(p, b, a, n)
  <2>2. l \in Contexts /\ m \in [Addresses -> Bytes] /\ s \in BOOLEAN
    BY <1>2, <1>3, <1>4
  <2>. HIDE DEF l, m, s
  <2>3. [ctx |-> l, ram |-> m, stop |-> FALSE, spoilt |-> s] \in States
    BY <2>2 DEF States
  <2>. QED
    BY <2>1, <2>3 DEF l, m, s
<1>. QED
  BY <1>6, <1>7

\* A plain text has a meaning.
LEMMA SomeMeaning ==
    ASSUME NEW r \in Calls, Plain(r.lines)
    PROVE  \E g : Means(r, g)
<1>. DEFINE lines == r.lines
            a == Origin(r)
            n == Len(Code(r))
            v == Loaded(r)
            V == States
            Next1(p, k) == IF k + 1 \in 1..Len(lines) THEN Executed(p, lines[k + 1], a, n) ELSE p
            G == [q \in V \X Nat |-> Next1(q[1], q[2])]
<1>1. v \in V
  BY LoadedState
<1>2. \A k \in 1..Len(lines) : Single(lines[k])
  BY CallCode, SingleLines
<1>. HIDE DEF lines, a, n, v
<1>3. ASSUME NEW p \in V, NEW k \in Nat PROVE Next1(p, k) \in V
  <2>1. k + 1 \in 1..Len(lines) => Executed(p, lines[k + 1], a, n) \in V
    BY <1>2, ExecutedState
  <2>. QED
    BY <2>1
<1>. HIDE DEF Next1, V
<1>4. G \in [V \X Nat -> V]
  BY <1>3
<1>5. \A p \in V, k \in Nat : G[<<p, k>>] = Next1(p, k)
  OBVIOUS
<1>. HIDE DEF G
<1>6. IsRecursion(V, v, G)
  BY <1>1, <1>4 DEF IsRecursion
<1>7. PICK g \in [Nat -> V] : g[0] = v /\ \A k \in Nat : g[k + 1] = G[<<g[k], k>>]
  BY <1>6, RecursiveSequence
<1>8. \A k \in Nat : g[k + 1] = Next1(g[k], k)
  BY <1>5, <1>7
<1>9. Means(r, g)
  BY <1>7, <1>8, Zenon DEF Means, Next1, V, v, lines, a, n
<1>. QED
  BY <1>9
\* The recursion of Meaning is taken out here: it is the last of them.
LEMMA MeaningIs ==
    ASSUME begin \in Calls, NEW g, Means(begin, g)
    PROVE  Meaning = g[Len(begin.lines)]
<1>. DEFINE code == FlattenSeq(begin.lines)
            a == begin.ctx.base + begin.ctx.ip
            n == Len(begin.lines)
            First == [ctx |-> begin.ctx, ram |-> on_write_memory(begin.ram, a, code),
                      stop |-> FALSE, spoilt |-> a + Len(code) > RAM_SIZE]
            After(p, b) ==
                LET c == [p.ctx EXCEPT !.ip = @ + Len(b)]
                    to == Address(b, c)
                    w  == Written(b, FALSE, c, p.ram)
                IN  IF p.stop \/ b[1] = \h63 THEN [p EXCEPT !.stop = TRUE]
                    ELSE [ctx |-> EffectRegs(b, FALSE, c, p.ram),
                          ram |-> on_write_memory(p.ram, to, w), stop |-> FALSE,
                          spoilt |-> p.spoilt \/ \E x \in 0..(Len(w) - 1) :
                                                    to + x \in a..(a + Len(code) - 1)]
            IsLoop(f) == f = [k \in 0..n |-> IF k = 0 THEN First
                                             ELSE After(f[k - 1], begin.lines[k])]
            F == CHOOSE f : IsLoop(f)
<1>1. Meaning = F[n]
  BY DEF Meaning
<1>2. First = Loaded(begin) /\ \A p, b : After(p, b) = Executed(p, b, Origin(begin), Len(Code(begin)))
  <2>1. First = Loaded(begin)
    BY DEF Loaded, Origin, Code
  <2>2. ASSUME NEW p, NEW b
        PROVE  After(p, b) = Executed(p, b, Origin(begin), Len(Code(begin)))
    BY Zenon DEF Executed, Stopped, Hits, Stores, Leaves, Behind, Origin, Code
  <2>. QED
    BY <2>1, <2>2
<1>. HIDE DEF First, After
<1>3. n \in Nat
  BY CallCode DEF Texts
<1>. HIDE DEF n
<1>4. /\ g[0] = First
      /\ \A k \in Nat : k + 1 \in 1..n => g[k + 1] = After(g[k], begin.lines[k + 1])
  BY <1>2, Zenon DEF Means, n
<1>5. IsLoop([k \in 0..n |-> g[k]])
  <2>1. ASSUME NEW k \in 0..n
        PROVE  g[k] = IF k = 0 THEN First
                      ELSE After([i \in 0..n |-> g[i]][k - 1], begin.lines[k])
    <3>1. CASE k = 0
      BY <1>4, <3>1
    <3>2. CASE k # 0
      <4>1. k - 1 \in Nat /\ (k - 1) + 1 = k /\ k \in 1..n /\ k - 1 \in 0..n
        BY <1>3, <3>2
      <4>2. g[k] = After(g[k - 1], begin.lines[k])
        BY <1>4, <4>1
      <4>. QED
        BY <3>2, <4>1, <4>2
    <3>. QED
      BY <3>1, <3>2
  <2>. QED
    BY <2>1
<1>6. IsLoop(F)
  BY <1>5
<1>. HIDE DEF F
<1>7. \A k \in 0..n : F[k] = IF k = 0 THEN First ELSE After(F[k - 1], begin.lines[k])
  BY <1>6
<1>. DEFINE S == {k \in Nat : k <= n => F[k] = g[k]}
<1>8. 0 \in S
  BY <1>3, <1>4, <1>7
<1>9. ASSUME NEW k \in Nat, k \in S PROVE k + 1 \in S
  <2>1. SUFFICES ASSUME k + 1 <= n PROVE F[k + 1] = g[k + 1]
    OBVIOUS
  <2>2. k + 1 \in 0..n /\ k + 1 \in 1..n /\ (k + 1) - 1 = k /\ k + 1 # 0 /\ k <= n
    BY <1>3, <2>1
  <2>3. F[k + 1] = After(F[k], begin.lines[k + 1])
    BY <1>7, <2>2
  <2>4. F[k] = g[k]
    BY <1>9, <2>2
  <2>. QED
    BY <1>4, <2>2, <2>3, <2>4
<1>. HIDE DEF S
<1>10. n \in S
  BY <1>3, <1>8, <1>9, NatSetInduction
<1>. QED
  BY <1>1, <1>3, <1>10 DEF S, n

-----------------------------------------------------------------------------
(***************************************************************************)
(* Where the lines are in the code.                                        *)
(***************************************************************************)
\* s begins with t.
Extends(s, t) == Len(t) <= Len(s) /\ \A x \in 1..Len(t) : s[x] = t[x]

\* The first lines are where they are, however many follow.
LEMMA BeginsExtend ==
    ASSUME NEW lines \in Texts, NEW c, Begins(lines, c), NEW k \in Nat, NEW i \in Nat, k <= i
    PROVE  Extends(c[i], c[k])
<1>1. \A x \in Nat : c[x] \in Seq(Bytes)
  BY DEF Begins
<1>2. ASSUME NEW x \in Nat PROVE Extends(c[x + 1], c[x])
  <2>1. c[x + 1] = IF x + 1 \in 1..Len(lines) THEN c[x] \o lines[x + 1] ELSE c[x]
    BY DEF Begins
  <2>2. CASE x + 1 \in 1..Len(lines)
    <3>. DEFINE s == c[x]
                t == lines[x + 1]
    <3>1. s \in Seq(Bytes) /\ t \in Seq(Bytes) /\ c[x + 1] = s \o t
      <4>1. lines[x + 1] \in Seq(Bytes)
        BY <2>2 DEF Texts
      <4>. QED
        BY <1>1, <2>1, <2>2, <4>1, Zenon
    <3>. HIDE DEF s, t
    <3>2. /\ Len(s \o t) = Len(s) + Len(t)
          /\ \A y \in 1..(Len(s) + Len(t)) :
                (s \o t)[y] = IF y <= Len(s) THEN s[y] ELSE t[y - Len(s)]
          /\ Len(s) \in Nat /\ Len(t) \in Nat
      BY <3>1, ConcatProperties, LenProperties, Zenon
    <3>3. Extends(s \o t, s)
      BY <3>2 DEF Extends
    <3>. QED
      BY <3>1, <3>3 DEF s
  <2>3. CASE x + 1 \notin 1..Len(lines)
    <3>1. c[x] \in Seq(Bytes) /\ c[x + 1] = c[x]
      BY <1>1, <2>1, <2>3
    <3>2. Len(c[x]) \in Nat
      BY <3>1
    <3>. QED
      BY <3>1, <3>2 DEF Extends
  <2>. QED
    BY <2>2, <2>3
<1>3. \A s, t, u : s \in Seq(Bytes) /\ t \in Seq(Bytes) /\ u \in Seq(Bytes)
                      /\ Extends(s, t) /\ Extends(t, u) => Extends(s, u)
  <2>1. ASSUME NEW s \in Seq(Bytes), NEW t \in Seq(Bytes), NEW u \in Seq(Bytes),
               Extends(s, t), Extends(t, u)
        PROVE  Extends(s, u)
    <3>1. Len(s) \in Nat /\ Len(t) \in Nat /\ Len(u) \in Nat
      OBVIOUS
    <3>. QED
      BY <2>1, <3>1 DEF Extends
  <2>. QED
    BY <2>1
<1>. DEFINE S == {d \in Nat : Extends(c[k + d], c[k])}
<1>4. 0 \in S
  <2>1. Len(c[k]) \in Nat /\ k + 0 = k
    BY <1>1
  <2>. QED
    BY <2>1 DEF Extends
<1>5. ASSUME NEW d \in Nat, d \in S PROVE d + 1 \in S
  <2>1. Extends(c[(k + d) + 1], c[k + d]) /\ k + d \in Nat /\ (k + d) + 1 \in Nat
    BY <1>2
  <2>2. Extends(c[k + d], c[k])
    BY <1>5
  <2>3. Extends(c[(k + d) + 1], c[k])
    <3>1. c[(k + d) + 1] \in Seq(Bytes) /\ c[k + d] \in Seq(Bytes) /\ c[k] \in Seq(Bytes)
      BY <1>1, <2>1
    <3>. QED
      BY <1>3, <2>1, <2>2, <3>1
  <2>4. (k + d) + 1 = k + (d + 1)
    OBVIOUS
  <2>. QED
    BY <2>3, <2>4
<1>. HIDE DEF S
<1>6. i - k \in S /\ k + (i - k) = i
  BY <1>4, <1>5, NatSetInduction
<1>. QED
  BY <1>6 DEF S

\* A line is in the code behind those before it.
InPlace(r, c, k) ==
    /\ Len(c[k]) \in Nat /\ Len(r.lines[k + 1]) \in Nat /\ Len(Code(r)) \in Nat
    /\ Len(c[k + 1]) = Len(c[k]) + Len(r.lines[k + 1])
    /\ Len(c[k + 1]) <= Len(Code(r))
    /\ \A i \in 1..Len(r.lines[k + 1]) : Code(r)[Len(c[k]) + i] = r.lines[k + 1][i]

\* Each line is.
LEMMA LinePlace ==
    ASSUME NEW r \in Calls, NEW c, Begins(r.lines, c), NEW k \in 0..(Len(r.lines) - 1)
    PROVE  InPlace(r, c, k)
<1>. DEFINE n == Len(r.lines)
            s == c[k]
            t == r.lines[k + 1]
            code == Code(r)
<1>0. r.lines \in Texts /\ n \in Nat
  BY CallCode DEF Texts
<1>1. k \in Nat /\ k + 1 \in 1..n
  BY <1>0
<1>2. s \in Seq(Bytes) /\ t \in Seq(Bytes) /\ c[k + 1] = s \o t
  <2>1. c[k + 1] = IF k + 1 \in 1..n THEN s \o t ELSE s
    BY <1>1 DEF Begins
  <2>2. t \in Seq(Bytes)
    BY <1>0, <1>1 DEF Texts
  <2>3. s \in Seq(Bytes)
    BY <1>1 DEF Begins
  <2>. QED
    BY <1>1, <2>1, <2>2, <2>3, Zenon
<1>3. code \in Seq(Bytes) /\ Extends(code, s \o t)
  <2>1. code = c[n]
    BY <1>0, FlattensLines DEF Code
  <2>2. n \in Nat /\ k + 1 \in Nat /\ k + 1 <= n
    BY <1>0, <1>1
  <2>. HIDE DEF n, s, t
  <2>3. Extends(c[n], c[k + 1])
    BY <1>0, <2>2, BeginsExtend
  <2>. QED
    BY <1>2, <2>1, <2>3, CallCode
<1>. HIDE DEF n, s, t, code
<1>4. /\ Len(s \o t) = Len(s) + Len(t)
      /\ \A y \in 1..(Len(s) + Len(t)) :
            (s \o t)[y] = IF y <= Len(s) THEN s[y] ELSE t[y - Len(s)]
      /\ Len(s) \in Nat /\ Len(t) \in Nat /\ Len(code) \in Nat
  BY <1>2, <1>3, ConcatProperties, LenProperties, Zenon
<1>. DEFINE x == Len(s)
            y == Len(t)
            z == Len(code)
<1>5. x + y <= z /\ \A i \in 1..(x + y) : code[i] = (s \o t)[i]
  BY <1>3, <1>4 DEF Extends
<1>6. x \in Nat /\ y \in Nat /\ \A i \in 1..(x + y) : (s \o t)[i] = IF i <= x THEN s[i] ELSE t[i - x]
  BY <1>4
<1>. HIDE DEF x, y, z
<1>7. ASSUME NEW i \in 1..y PROVE code[x + i] = t[i]
  <2>1. x + i \in 1..(x + y) /\ ~(x + i <= x) /\ (x + i) - x = i
    BY <1>6
  <2>. QED
    BY <1>5, <1>6, <2>1
<1>. QED
  BY <1>2, <1>4, <1>5, <1>7 DEF s, t, code, x, y, z, InPlace
-----------------------------------------------------------------------------
(***************************************************************************)
(* As long as no line writes into the code, all of it stays where it was      *)
(* loaded, and IP is in front of a line: the next, or the one that stops.    *)
(***************************************************************************)
Whole(r, p) ==
    /\ Origin(r) + Len(Code(r)) <= RAM_SIZE
    /\ \A i \in 1..Len(Code(r)) : p.ram[Origin(r) + i - 1] = Code(r)[i]

Stands(r, p, c, j, k) ==
    /\ p.ctx.base = r.ctx.base /\ p.ctx.ip = r.ctx.ip + Len(c[j])
    /\ p.stop => j < Len(r.lines) /\ r.lines[j + 1][1] = \h63
    /\ ~p.stop => j = k

Stays(r, p, c, k) == p.spoilt \/ (Whole(r, p) /\ \E j \in 0..k : Stands(r, p, c, j, k))

\* What is loaded is there.
LEMMA LoadedStays ==
    ASSUME NEW r \in Calls, NEW c, Begins(r.lines, c)
    PROVE  Stays(r, Loaded(r), c, 0)
<1>. DEFINE a == Origin(r)
            code == Code(r)
            n == Len(code)
            p == Loaded(r)
            m == on_write_memory(r.ram, a, code)
<1>1. a \in Nat /\ code \in Seq(Bytes) /\ IsRam(r.ram) /\ r.ctx \in Contexts
  BY CallCode
<1>2. n \in Nat
  BY <1>1
<1>3. p.ctx = r.ctx /\ p.ram = m /\ p.stop = FALSE /\ p.spoilt = (a + n > RAM_SIZE)
  BY DEF Loaded
<1>4. m = [x \in DOMAIN r.ram |-> IF x \in a..(a + n - 1) THEN code[x - a + 1] ELSE r.ram[x]]
  <2>1. m = Overwritten(r.ram, a, code)
    BY <1>1, WritesWhole
  <2>. QED
    BY <2>1 DEF Overwritten
<1>. HIDE DEF a, code, n, p, m
<1>5. ASSUME a + n <= RAM_SIZE, NEW i \in 1..n PROVE m[a + i - 1] = code[i]
  <2>1. a + i - 1 \in DOMAIN r.ram
    BY <1>1, <1>2, <1>5, Constants DEF IsRam, Addresses
  <2>2. a + i - 1 \in a..(a + n - 1) /\ (a + i - 1) - a + 1 = i
    BY <1>1, <1>2
  <2>. QED
    BY <1>4, <2>1, <2>2
<1>6. Stands(r, p, c, 0, 0)
  <2>1. Len(c[0]) = 0 /\ r.ctx.ip \in Nat
    BY <1>1 DEF Begins, Contexts
  <2>. QED
    BY <1>3, <2>1 DEF Stands
<1>7. p.spoilt \/ a + n <= RAM_SIZE
  <2>1. a + n > RAM_SIZE \/ a + n <= RAM_SIZE
    BY <1>1, <1>2, Constants
  <2>2. a + n > RAM_SIZE => p.spoilt
    BY <1>3, Zenon
  <2>. QED
    BY <2>1, <2>2
<1>8. CASE a + n <= RAM_SIZE
  <2>1. Whole(r, p)
    BY <1>3, <1>5, <1>8 DEF Whole, a, code, n
  <2>. QED
    BY <1>6, <2>1 DEF Stays, p
<1>. QED
  BY <1>7, <1>8 DEF Stays, p

\* and each line that writes elsewhere leaves it there.
LEMMA ExecutedStays ==
    ASSUME NEW r \in Calls, Plain(r.lines), NEW c, Begins(r.lines, c),
           NEW k \in 0..(Len(r.lines) - 1), NEW p \in States, Stays(r, p, c, k)
    PROVE  Stays(r, Executed(p, r.lines[k + 1], Origin(r), Len(Code(r))), c, k + 1)
<1>. DEFINE lines == r.lines
            b == lines[k + 1]
            a == Origin(r)
            code == Code(r)
            n == Len(code)
            q == Executed(p, b, a, n)
<1>0. /\ lines \in Texts /\ Len(lines) \in Nat /\ r.ctx.ip \in Nat
      /\ a \in Nat /\ code \in Seq(Bytes) /\ n \in Nat
  BY CallCode DEF Texts, Contexts
<1>1. k \in Nat /\ k + 1 \in 1..Len(lines) /\ k < Len(lines)
  BY <1>0
<1>2. Single(b)
  BY <1>0, <1>1, SingleLines
<1>3. p.ctx \in Contexts /\ IsRam(p.ram) /\ p.stop \in BOOLEAN /\ p.spoilt \in BOOLEAN
  BY DEF States, IsRam
<1>4. Len(c[k]) \in Nat /\ Len(b) \in Nat /\ Len(c[k + 1]) = Len(c[k]) + Len(b)
  BY LinePlace DEF InPlace
<1>. HIDE DEF b, a, n, code
<1>5. CASE p.stop \/ b[1] = \h63
  <2>1. q = Stopped(p)
    BY <1>5 DEF Executed
  <2>2. q.ctx = p.ctx /\ q.ram = p.ram /\ q.spoilt = p.spoilt /\ q.stop = TRUE
    BY <2>1 DEF Stopped, States
  <2>. HIDE DEF q
  <2>3. ASSUME Whole(r, p), NEW j \in 0..k, Stands(r, p, c, j, k)
        PROVE  Whole(r, q) /\ Stands(r, q, c, j, k + 1) /\ j \in 0..(k + 1)
    <3>1. Whole(r, q)
      BY <2>2, <2>3 DEF Whole
    <3>2. j < Len(lines) /\ lines[j + 1][1] = \h63
      <4>1. CASE p.stop
        BY <2>3, <4>1 DEF Stands
      <4>2. CASE ~p.stop
        BY <1>1, <1>5, <2>3, <4>2 DEF Stands, b
      <4>. QED
        BY <4>1, <4>2
    <3>3. Stands(r, q, c, j, k + 1)
      BY <2>2, <2>3, <3>2 DEF Stands
    <3>. QED
      BY <1>1, <3>1, <3>3
  <2>4. Stays(r, q, c, k + 1)
    BY <2>2, <2>3 DEF Stays
  <2>. QED
    BY <2>4 DEF q, b, a, n, code
<1>6. CASE ~(p.stop \/ b[1] = \h63)
  <2>. DEFINE d == Behind(p.ctx, b)
              to == Address(b, d)
              w == Stores(b, d, p.ram)
  <2>1. /\ q.ctx = Leaves(b, d, p.ram) /\ q.ram = on_write_memory(p.ram, to, w)
        /\ q.stop = FALSE /\ q.spoilt = (p.spoilt \/ Hits(p, b, a, n))
    BY <1>6 DEF Executed
  <2>2. d \in Contexts /\ d.base = p.ctx.base /\ d.ip = p.ctx.ip + Len(b)
    <3>1. p.ctx.ip + Len(b) \in Nat
      BY <1>3, <1>4 DEF Contexts
    <3>. QED
      BY <1>3, <3>1 DEF Behind, Contexts
  <2>3. Hits(p, b, a, n) <=> \E x \in 0..(Len(w) - 1) : to + x \in a..(a + n - 1)
    BY DEF Hits
  <2>. HIDE DEF d
  <2>4. q.ctx.ip = d.ip /\ q.ctx.base = d.base /\ to \in Nat /\ w \in Seq(Bytes)
    BY <1>2, <1>3, <2>1, <2>2, SingleGoesOn
  <2>5. q.ram = [x \in DOMAIN p.ram |-> IF x \in to..(to + Len(w) - 1)
                                        THEN w[x - to + 1] ELSE p.ram[x]]
    <3>. HIDE DEF q, w, to
    <3>1. on_write_memory(p.ram, to, w) = Overwritten(p.ram, to, w)
      BY <1>3, <2>4, WritesWhole
    <3>. QED
      BY <2>1, <3>1 DEF Overwritten
  <2>6. Len(w) \in Nat
    BY <2>4
  <2>. HIDE DEF q, w, to
  <2>. DEFINE l == Len(w)
  <2>7. ASSUME Whole(r, p), ~Hits(p, b, a, n)
        PROVE  Whole(r, q)
    <3>1. a + n <= RAM_SIZE /\ \A i \in 1..n : p.ram[a + i - 1] = code[i]
      BY <2>7 DEF Whole, a, n, code
    <3>2. ASSUME NEW i \in 1..n PROVE q.ram[a + i - 1] = code[i]
      <4>1. a + i - 1 \in DOMAIN p.ram
        BY <1>0, <1>3, <3>1, Constants DEF IsRam, Addresses
      <4>2. a + i - 1 \notin to..(to + l - 1)
        <5>. HIDE DEF l
        <5>1. SUFFICES ASSUME a + i - 1 \in to..(to + l - 1) PROVE FALSE
          OBVIOUS
        <5>2. l \in Nat
          BY <2>6 DEF l
        <5>3. (a + i - 1) - to \in 0..(l - 1) /\ to + ((a + i - 1) - to) = a + i - 1
              /\ a + i - 1 \in a..(a + n - 1)
          BY <1>0, <2>4, <5>1, <5>2
        <5>. QED
          BY <2>3, <2>7, <5>3 DEF l
      <4>. QED
        BY <2>5, <3>1, <4>1, <4>2
    <3>. QED
      BY <3>1, <3>2 DEF Whole, a, n, code
  <2>8. ASSUME NEW j \in 0..k, Stands(r, p, c, j, k)
        PROVE  Stands(r, q, c, k + 1, k + 1)
    <3>1. j = k /\ p.ctx.base = r.ctx.base /\ p.ctx.ip = r.ctx.ip + Len(c[k])
      BY <1>6, <2>8 DEF Stands
    <3>2. q.ctx.ip = r.ctx.ip + Len(c[k + 1])
      BY <1>0, <1>4, <2>2, <2>4, <3>1
    <3>. QED
      BY <2>1, <2>2, <2>4, <3>1, <3>2 DEF Stands
  <2>9. Stays(r, q, c, k + 1)
    <3>1. k + 1 \in 0..(k + 1)
      BY <1>1
    <3>. QED
      BY <2>1, <2>7, <2>8, <3>1 DEF Stays
  <2>. QED
    BY <2>9 DEF q, b, a, n, code
<1>. QED
  BY <1>5, <1>6

\* So it is after every line.
LEMMA MeaningStays ==
    ASSUME NEW r \in Calls, Plain(r.lines), NEW c, Begins(r.lines, c), NEW g, Means(r, g)
    PROVE  \A k \in 0..Len(r.lines) : Stays(r, g[k], c, k)
<1>. DEFINE n == Len(r.lines)
            S == {k \in Nat : k <= n => Stays(r, g[k], c, k)}
<1>1. n \in Nat
  BY CallCode DEF Texts
<1>2. g \in [Nat -> States] /\ g[0] = Loaded(r)
  BY DEF Means
<1>3. 0 \in S
  BY <1>2, LoadedStays
<1>4. ASSUME NEW k \in Nat, k \in S PROVE k + 1 \in S
  <2>1. SUFFICES ASSUME k + 1 <= n PROVE Stays(r, g[k + 1], c, k + 1)
    OBVIOUS
  <2>2. k \in 0..(n - 1) /\ k + 1 \in 1..n /\ k <= n
    BY <1>1, <2>1
  <2>3. g[k + 1] = Executed(g[k], r.lines[k + 1], Origin(r), Len(Code(r)))
    BY <2>2 DEF Means
  <2>4. Stays(r, g[k], c, k) /\ g[k] \in States
    BY <1>2, <1>4, <2>2
  <2>. HIDE DEF S
  <2>. QED
    BY <2>2, <2>3, <2>4, ExecutedStays
<1>. HIDE DEF S
<1>5. Nat \subseteq S
  BY <1>3, <1>4, NatSetInduction
<1>. QED
  BY <1>1, <1>5 DEF S
-----------------------------------------------------------------------------
(***************************************************************************)
(* The step taken for a line does what the line means.                      *)
(***************************************************************************)
\* r was called, g is what its text means and k steps have been taken; the code is whole.
Midway(r, g, c, k) ==
    /\ r \in Calls /\ Plain(r.lines) /\ Begins(r.lines, c) /\ Means(r, g)
    /\ k \in 0..(Len(r.lines) - 1) /\ ~g[k].spoilt
    /\ ctx = g[k].ctx /\ ram = g[k].ram

\* The bytes e are those of line j + 1, the next after k or, in state p, the one that stops.
Faces(r, p, e, j, k) ==
    /\ e \in Fetches /\ Shows(e, r.lines[j + 1]) /\ Single(r.lines[j + 1])
    /\ p.stop => r.lines[j + 1][1] = \h63
    /\ ~p.stop => j = k

\* Those fetched are.
LEMMA FetchesLine ==
    ASSUME ctx \in Contexts, IsRam(ram), NEW r, NEW g, NEW c, NEW k, Midway(r, g, c, k)
    PROVE  \E j \in 0..(Len(r.lines) - 1) : Faces(r, g[k], Fetched(0), j, k)
<1>0. /\ r \in Calls /\ Plain(r.lines) /\ Begins(r.lines, c) /\ Means(r, g)
      /\ k \in 0..(Len(r.lines) - 1) /\ ~g[k].spoilt
      /\ ctx = g[k].ctx /\ ram = g[k].ram
  BY DEF Midway
<1>. DEFINE n == Len(r.lines)
            a == Origin(r)
            code == Code(r)
<1>1. r.lines \in Texts /\ n \in Nat /\ a \in Nat /\ r.ctx.ip \in Nat /\ r.ctx.base \in Nat
  BY <1>0, CallCode DEF Texts, Contexts
<1>2. Stays(r, g[k], c, k)
  <2>1. k \in 0..n
    BY <1>0, <1>1
  <2>. QED
    BY <1>0, <2>1, MeaningStays
<1>3. PICK j \in 0..k : Stands(r, g[k], c, j, k)
  BY <1>0, <1>2 DEF Stays
<1>4. Whole(r, g[k])
  BY <1>0, <1>2 DEF Stays
<1>5. j \in 0..(n - 1) /\ j + 1 \in 1..n
  BY <1>0, <1>1
<1>. DEFINE b == r.lines[j + 1]
            x == Len(c[j])
            y == Len(b)
            z == Len(code)
<1>6. /\ x \in Nat /\ y \in Nat /\ z \in Nat /\ x + y <= z
      /\ \A i \in 1..y : code[x + i] = b[i]
  <2>1. /\ x \in Nat /\ y \in Nat /\ z \in Nat
        /\ Len(c[j + 1]) = x + y /\ Len(c[j + 1]) <= z
        /\ \A i \in 1..y : code[x + i] = b[i]
    <3>0. r \in Calls /\ Begins(r.lines, c) /\ j \in 0..(Len(r.lines) - 1)
      BY <1>0, <1>5
    <3>1. InPlace(r, c, j)
      BY <3>0, LinePlace
    <3>. QED
      BY <3>1 DEF InPlace
  <2>. HIDE DEF x, y, z, code, b
  <2>. QED
    BY <2>1
<1>7. Single(b) /\ y <= 3
  <2>1. Single(b)
    BY <1>0, <1>1, <1>5, SingleLines, Zenon
  <2>2. y \in {1, 3}
    <3>. HIDE DEF b
    <3>. QED
      BY <2>1, SingleLength
  <2>. HIDE DEF y, b
  <2>. QED
    BY <2>1, <2>2
<1>8. ctx.base + ctx.ip + 0 = a + x /\ a + x \in Nat
  <2>1. ctx.base = r.ctx.base /\ ctx.ip = r.ctx.ip + x /\ a = r.ctx.base + r.ctx.ip
    BY <1>0, <1>3, Zenon DEF Stands, Origin
  <2>2. x \in Nat
    BY <1>6
  <2>. HIDE DEF a, x
  <2>. QED
    BY <1>1, <2>1, <2>2
<1>9. a + z <= RAM_SIZE /\ \A i \in 1..z : ram[a + i - 1] = code[i]
  BY <1>0, <1>4 DEF Whole
<1>. HIDE DEF a, b, x, y, z, code
<1>10. /\ Fetched(0) \in Fetches
       /\ \A i \in 1..5 : (a + x) + i - 1 < RAM_SIZE => Fetched(0)[i] = ram[(a + x) + i - 1]
  <2>. DEFINE o == a + x
              l == 5
  <2>1. Fetched(0) = on_read_memory(ram, o, l)
    BY <1>8 DEF Fetched
  <2>2. o \in Nat /\ l \in Nat
    BY <1>8
  <2>. HIDE DEF o, l
  <2>3. /\ on_read_memory(ram, o, l) \in [1..l -> Bytes]
        /\ \A i \in 1..l : o + i - 1 < RAM_SIZE => on_read_memory(ram, o, l)[i] = ram[o + i - 1]
    BY <2>2, ReadsBytes
  <2>. QED
    BY <2>1, <2>3 DEF o, l, Fetches
<1>11. ASSUME NEW i \in 1..y PROVE Fetched(0)[i] = b[i]
  <2>1. i \in 1..5 /\ x + i \in 1..z /\ (a + x) + i - 1 < RAM_SIZE
        /\ (a + x) + i - 1 = a + (x + i) - 1
    BY <1>1, <1>6, <1>7, <1>9, Constants DEF a
  <2>. QED
    BY <1>6, <1>9, <1>10, <2>1
<1>12. Shows(Fetched(0), b)
  BY <1>11 DEF Shows, y
<1>13. (g[k].stop => b[1] = \h63) /\ (~g[k].stop => j = k)
  BY <1>3 DEF Stands, b
<1>. QED
  <2>1. Faces(r, g[k], Fetched(0), j, k)
    BY <1>7, <1>10, <1>12, <1>13 DEF Faces, b
  <2>. QED
    BY <1>5, <2>1

\* There is no prefix in front of a line.
LEMMA NoPrefix ==
    ASSUME Fetched(0)[1] \notin Prefix
    PROVE  PrefixCount = 0 /\ Reps = 0
<1>1. PrefixCount = 0
  <2>1. SUFFICES ASSUME PrefixCount # 0 PROVE FALSE
    OBVIOUS
  <2>. DEFINE p == PrefixCount
              P(k) == Fetched(k)[1] \in Prefix
  <2>2. p \in 0..StepLimit /\ \A k \in 0..(p - 1) : P(k)
    BY PrefixesCounted
  <2>3. p # 0 /\ ~P(0)
    BY <2>1
  <2>. HIDE DEF p, P
  <2>. QED
    BY <2>2, <2>3, Constants
<1>2. {k \in 0..(PrefixCount - 1) : Fetched(k)[1] = \hF3} = {}
  BY <1>1
<1>. QED
  BY <1>1, <1>2, FS_EmptySet DEF Reps

\* The step.
LEMMA LineStep ==
    ASSUME ctx \in Contexts, IsRam(ram), softx86_step,
           NEW r, NEW g, NEW c, NEW k, Midway(r, g, c, k)
    PROVE  ctx' = g[k + 1].ctx /\ ram' = g[k + 1].ram
<1>. DEFINE e == Fetched(0)
            t == r.lines[k + 1]
            q == g[k]
<1>0. /\ k \in 0..(Len(r.lines) - 1) /\ ctx = q.ctx /\ ram = q.ram
      /\ r \in Calls /\ g \in [Nat -> States]
  BY DEF Midway, Means
<1>e. PICK j \in 0..(Len(r.lines) - 1) : Faces(r, g[k], Fetched(0), j, k)
  BY FetchesLine
<1>1. /\ e \in Fetches /\ Shows(e, r.lines[j + 1]) /\ Single(r.lines[j + 1])
      /\ q.stop => r.lines[j + 1][1] = \h63
      /\ ~q.stop => j = k
  BY <1>e DEF Faces
<1>. DEFINE b == r.lines[j + 1]
<1>2. k \in Nat /\ k + 1 \in 1..Len(r.lines) /\ q \in States
  <2>1. Len(r.lines) \in Nat
    BY <1>0, CallCode DEF Texts
  <2>. QED
    BY <1>0, <2>1
<1>3. g[k + 1] = Executed(q, t, Origin(r), Len(Code(r)))
  BY <1>2 DEF Midway, Means
<1>4. e[1] = b[1] /\ Length(e) = Len(b) /\ Alphabet(e) /\ e[1] \notin Prefix
  BY <1>1, SameLength
<1>5. PrefixCount = 0 /\ Reps = 0
  BY <1>4, NoPrefix
<1>. DEFINE d == Behind(ctx, b)
            rep == Reps = 1
            x == EffectRegs(e, rep, d, ram)
            to == Address(e, d)
            w == Written(e, rep, d, ram)
            again == Fails \/ e[1] = \hF4 \/ (e[1] = \hAA /\ rep /\ x.cx # 0)
<1>6. rep \in BOOLEAN /\ ~rep
  BY <1>5
<1>7. /\ ctx' = IF again THEN [x EXCEPT !.ip = ctx.ip, !.cs = ctx.cs] ELSE x
      /\ ram' = on_write_memory(ram, to, w)
  <2>1. 0 # StepLimit /\ ~(Reps > 1)
    BY <1>5, Constants
  <2>2. [ctx EXCEPT !.ip = @ + PrefixCount + Length(e)] = d
    <3>1. Len(b) \in Nat /\ ctx.ip \in Nat
      BY <1>1, SingleLength DEF Contexts
    <3>2. ctx.ip + 0 + Length(e) = ctx.ip + Len(b)
      BY <1>4, <3>1
    <3>. QED
      BY <1>5, <3>2 DEF Behind
  <2>. DEFINE p == PrefixCount
              e1 == Fetched(p)
              d1 == [ctx EXCEPT !.ip = @ + p + Length(e1)]
              x1 == EffectRegs(e1, rep, d1, ram)
              again1 == Fails \/ e1[1] = \hF4 \/ (e1[1] = \hAA /\ rep /\ x1.cx # 0)
  <2>3. ~(p = StepLimit \/ Reps > 1)
    BY <1>5, <2>1
  <2>4. /\ ctx' = IF again1 THEN [x1 EXCEPT !.ip = ctx.ip, !.cs = ctx.cs] ELSE x1
        /\ ram' = on_write_memory(ram, Address(e1, d1), Written(e1, rep, d1, ram))
    BY <2>3 DEF softx86_step
  <2>5. e1 = e /\ d1 = d
    BY <1>5, <2>2
  <2>. HIDE DEF e1, d1, p, e, d, rep
  <2>. QED
    BY <2>4, <2>5
<1>8. b[1] \in {\h90, \h40, \hB8, \hB9, \hBF, \hA1, \hA3, \hAA, \h63}
  BY <1>1 DEF Single
<1>9. again <=> b[1] = \h63
  <2>1. Fails <=> e[1] \in Unknown
    <3>1. ~(0 + 1 >= StepLimit) /\ ~(0 > 1)
      BY Constants
    <3>. QED
      BY <1>5, <3>1 DEF Fails
  <2>. HIDE DEF e, b, x, rep
  <2>2. e[1] \in Unknown \cup {\hF4} <=> b[1] = \h63
    BY <1>4, <1>8 DEF Unknown
  <2>. QED
    BY <1>6, <2>1, <2>2
<1>10. d \in Contexts /\ [d EXCEPT !.ip = ctx.ip, !.cs = ctx.cs] = ctx
  <2>1. Len(b) \in Nat
    BY <1>1, SingleLength
  <2>2. ctx.ip + Len(b) \in Nat
    BY <2>1 DEF Contexts
  <2>. QED
    BY <2>2 DEF Contexts, Behind
<1>. HIDE DEF e, t, q, b, d, again
<1>11. CASE b[1] = \h63
  <2>1. x = d /\ w = << >>
    BY <1>4, <1>11 DEF EffectRegs, Written
  <2>2. ctx' = ctx
    BY <1>7, <1>9, <1>10, <1>11, <2>1
  <2>3. ram' = ram
    <3>1. to \in Nat
      BY <1>1, <1>6, <1>10, WrittenType
    <3>. DEFINE nil == << >>
    <3>2. nil \in Seq(Bytes) /\ Len(nil) = 0
      OBVIOUS
    <3>. HIDE DEF to, nil
    <3>3. on_write_memory(ram, to, nil) = Overwritten(ram, to, nil)
      BY <3>1, <3>2, WritesWhole
    <3>4. ram = [y \in DOMAIN ram |-> ram[y]]
      BY DEF IsRam
    <3>5. on_write_memory(ram, to, nil) = ram
      BY <3>1, <3>2, <3>3, <3>4 DEF Overwritten
    <3>. QED
      BY <1>7, <2>1, <3>5 DEF nil
  <2>4. q.stop \/ t[1] = \h63
    BY <1>1, <1>11 DEF b, q, t
  <2>5. g[k + 1] = Stopped(q)
    BY <1>3, <2>4 DEF Executed
  <2>6. Stopped(q).ctx = q.ctx /\ Stopped(q).ram = q.ram
    BY <1>2 DEF Stopped, States
  <2>. QED
    BY <1>0, <2>2, <2>3, <2>5, <2>6
<1>12. CASE b[1] # \h63
  <2>1. ~q.stop /\ t = b
    BY <1>1, <1>12 DEF b, q, t
  <2>2. /\ g[k + 1].ctx = Leaves(b, d, ram)
        /\ g[k + 1].ram = on_write_memory(ram, Address(b, d), Stores(b, d, ram))
    BY <1>0, <1>3, <1>12, <2>1 DEF Executed, d
  <2>3. x = EffectRegs(b, rep, d, ram) /\ to = Address(b, d) /\ w = Written(b, rep, d, ram)
    <3>. HIDE DEF rep
    <3>1. Single(b) /\ e \in Fetches /\ Shows(e, b)
      BY <1>1 DEF b
    <3>. QED
      BY <1>6, <3>1, SameEffect
  <2>4. EffectRegs(b, rep, d, ram) = Leaves(b, d, ram) /\ Written(b, rep, d, ram) = Stores(b, d, ram)
    <3>1. rep = FALSE
      BY <1>6
    <3>. HIDE DEF rep
    <3>. QED
      BY <3>1, Zenon DEF Leaves, Stores
  <2>. HIDE DEF x, to, w
  <2>. QED
    BY <1>7, <1>9, <1>12, <2>2, <2>3, <2>4
<1>. QED
  BY <1>11, <1>12
-----------------------------------------------------------------------------
(***************************************************************************)
(* The inductive invariant: as many steps have been taken as lines are done   *)
(* with, and as long as no line has written into the code, registers and RAM  *)
(* are what those lines mean.                                               *)
(***************************************************************************)
\* Of call r, t lines are to be done, with registers c and RAM m.
Done(r, t) == Len(r.lines) - t

Keeps(g, k, c, m) == g[k].spoilt \/ (c = g[k].ctx /\ m = g[k].ram)

Follows(r, t, c, m) ==
    Plain(r.lines) => \A g : Means(r, g) => Keeps(g, Done(r, t), c, m)

Running(r, t, c, m) == r \in Calls /\ t \in 0..Len(r.lines) /\ Follows(r, t, c, m)

RunInv == Running(begin, todo, ctx, ram)

\* A call leaves registers alone, and the RAM with its code: what no line means.
LEMMA NoneDone ==
    ASSUME NEW r \in Calls
    PROVE  Running(r, Len(r.lines), r.ctx, on_write_memory(r.ram, Origin(r), Code(r)))
<1>. DEFINE n == Len(r.lines)
            m == on_write_memory(r.ram, Origin(r), Code(r))
<1>1. n \in Nat
  BY CallCode DEF Texts
<1>2. Done(r, n) = 0 /\ n \in 0..n
  BY <1>1 DEF Done
<1>3. ASSUME NEW g, Means(r, g) PROVE Keeps(g, 0, r.ctx, m)
  <2>1. g[0] = Loaded(r)
    BY <1>3 DEF Means
  <2>. QED
    BY <2>1 DEF Keeps, Loaded
<1>4. Follows(r, n, r.ctx, m)
  BY <1>2, <1>3 DEF Follows
<1>. QED
  BY <1>2, <1>4 DEF Running

\* With no lines the RAM is as it was.
LEMMA NoLines ==
    ASSUME NEW c \in Contexts, NEW m, IsRam(m)
    PROVE  Running(Idling(c, m), 0, c, m)
<1>. DEFINE r == Idling(c, m)
            a == Origin(r)
            nil == << >>
<1>1. r \in Calls /\ r.lines = nil /\ r.ctx = c /\ r.ram = m
  BY DEF Idling, Calls, Texts, IsRam
<1>2. nil \in Seq(Bytes) /\ Len(nil) = 0
  OBVIOUS
<1>3. Code(r) = nil
  BY <1>1 DEF Code, FlattenSeq
<1>4. a \in Nat
  BY <1>1, CallCode
<1>. HIDE DEF r, a, nil
<1>5. on_write_memory(m, a, nil) = Overwritten(m, a, nil)
  BY <1>2, <1>4, WritesWhole
<1>6. m = [x \in DOMAIN m |-> m[x]]
  BY DEF IsRam
<1>7. on_write_memory(m, a, nil) = m
  BY <1>2, <1>4, <1>5, <1>6 DEF Overwritten
<1>8. Running(r, Len(r.lines), r.ctx, on_write_memory(r.ram, Origin(r), Code(r)))
  BY <1>1, NoneDone
<1>. QED
  BY <1>1, <1>2, <1>3, <1>7, <1>8 DEF r, a

\* Initially nothing is asked for.
LEMMA InitRun == Init => RunInv
<1>. SUFFICES ASSUME Init PROVE RunInv
  OBVIOUS
<1>1. ctx \in Contexts /\ IsRam(ram)
  BY InitInv DEF IInv, Memory
<1>2. begin = Idling(ctx, ram) /\ todo = 0
  BY DEF Init
<1>. QED
  BY <1>1, <1>2, NoLines DEF RunInv

\* A line that has written into the code is not taken back.
LEMMA StaysSpoilt ==
    ASSUME NEW r \in Calls, NEW g, Means(r, g), NEW k \in 0..(Len(r.lines) - 1), g[k].spoilt
    PROVE  g[k + 1].spoilt
<1>1. Len(r.lines) \in Nat
  BY CallCode DEF Texts
<1>2. k \in Nat /\ k + 1 \in 1..Len(r.lines) /\ g[k] \in States
  BY <1>1 DEF Means
<1>3. g[k + 1] = Executed(g[k], r.lines[k + 1], Origin(r), Len(Code(r)))
  BY <1>2 DEF Means
<1>. QED
  BY <1>2, <1>3 DEF Executed, Stopped, States

\* A step does one line more.
LEMMA StepRun ==
    ASSUME ctx \in Contexts, IsRam(ram), RunInv, step
    PROVE  RunInv'
<1>1. begin' = begin /\ todo' = todo - 1 /\ todo > 0 /\ softx86_step
  BY DEF step
<1>2. begin \in Calls /\ todo \in 0..Len(begin.lines) /\ Follows(begin, todo, ctx, ram)
  BY DEF RunInv, Running
<1>3. Len(begin.lines) \in Nat
  BY <1>2, CallCode DEF Texts
<1>. DEFINE k == Done(begin, todo)
<1>4. /\ k \in 0..(Len(begin.lines) - 1) /\ Done(begin, todo - 1) = k + 1
      /\ todo - 1 \in 0..Len(begin.lines)
  BY <1>1, <1>2, <1>3 DEF Done
<1>. HIDE DEF k
<1>5. ASSUME Plain(begin.lines), NEW g, Means(begin, g), ~g[k + 1].spoilt
      PROVE  ctx' = g[k + 1].ctx /\ ram' = g[k + 1].ram
  <2>1. ~g[k].spoilt
    BY <1>2, <1>4, <1>5, StaysSpoilt
  <2>2. ctx = g[k].ctx /\ ram = g[k].ram
    BY <1>2, <1>5, <2>1 DEF Follows, Keeps, k
  <2>3. PICK c : Begins(begin.lines, c)
    BY <1>2, CallCode, SomeBegins
  <2>4. Midway(begin, g, c, k)
    BY <1>2, <1>4, <1>5, <2>1, <2>2, <2>3 DEF Midway
  <2>. QED
    BY <1>1, <2>4, LineStep
<1>6. Follows(begin, todo - 1, ctx', ram')
  BY <1>4, <1>5 DEF Follows, Keeps
<1>. QED
  BY <1>1, <1>2, <1>4, <1>6 DEF RunInv, Running

\* Every step keeps the invariant.
LEMMA NextRun ==
    ASSUME IInv, RunInv, [Next]_vars
    PROVE  RunInv'
<1>0. Memory /\ ctx \in Contexts /\ IsRam(ram) /\ registers = update_registers(ctx)
  BY DEF IInv, Memory
<1>1. CASE step
  BY <1>0, <1>1, StepRun
<1>2. CASE reset
  <2>1. ctx' \in Contexts /\ IsRam(ram')
    BY <1>2, NextInv DEF Next, IInv, Memory, IsRam
  <2>2. begin' = Idling(ctx', ram') /\ todo' = 0
    BY <1>2 DEF reset
  <2>3. Running(begin', 0, ctx', ram')
    BY <2>1, <2>2, NoLines
  <2>. QED
    BY <2>2, <2>3 DEF RunInv
<1>3. ASSUME NEW lines \in Sources, run(lines)
      PROVE  RunInv'
  <2>. DEFINE r == [lines |-> lines, ctx |-> ctx, ram |-> ram]
  <2>1. /\ begin' = r /\ todo' = Len(lines) /\ ctx' = ctx
        /\ ram' = on_write_memory(ram, registers.ip + ctx.base, FlattenSeq(lines))
    BY <1>3 DEF run, load_at_current_ip
  <2>2. r \in Calls
    <3>1. lines \in Texts
      BY CpuAssumption DEF Texts, Bytes
    <3>. QED
      BY <1>0, <3>1 DEF Calls, IsRam
  <2>3. r.lines = lines /\ r.ctx = ctx /\ r.ram = ram
    OBVIOUS
  <2>4. registers.ip + ctx.base = Origin(r)
    <3>1. registers.ip = ctx.ip /\ ctx.ip \in Nat /\ ctx.base \in Nat
      BY <1>0 DEF update_registers, Contexts
    <3>. QED
      BY <2>3, <3>1 DEF Origin
  <2>5. Running(r, Len(r.lines), r.ctx, on_write_memory(r.ram, Origin(r), Code(r)))
    BY <2>2, NoneDone
  <2>. HIDE DEF r
  <2>. QED
    BY <2>1, <2>3, <2>4, <2>5 DEF RunInv, Code
<1>4. CASE UNCHANGED vars
  BY <1>4 DEF vars, RunInv
<1>. QED
  BY <1>1, <1>2, <1>3, <1>4 DEF Next

\* The two invariants together.
LEMMA RunInvariant == Spec => [](IInv /\ RunInv)
<1>1. Init => IInv /\ RunInv
  BY InitInv, InitRun
<1>2. (IInv /\ RunInv) /\ [Next]_vars => (IInv /\ RunInv)'
  BY NextInv, NextRun
<1>. QED
  BY <1>1, <1>2, PTL DEF Spec

(***************************************************************************)
(* Running a text of lines that are one instruction each executes its lines:  *)
(* for every size of the RAM, every place of the segments and every text.     *)
(***************************************************************************)
THEOREM RunCorrect == Spec => []RunExecutesLines
<1>1. ASSUME IInv, RunInv PROVE RunExecutesLines
  <2>. SUFFICES ASSUME todo = 0, Plain(begin.lines)
                PROVE  Meaning.spoilt \/ (/\ ctx = Meaning.ctx /\ ram = Meaning.ram
                                          /\ registers = update_registers(ctx))
    BY Zenon DEF RunExecutesLines
  <2>1. begin \in Calls /\ Follows(begin, 0, ctx, ram)
    BY <1>1 DEF RunInv, Running
  <2>2. PICK g : Means(begin, g)
    BY <2>1, SomeMeaning
  <2>3. Done(begin, 0) = Len(begin.lines)
    <3>1. Len(begin.lines) \in Nat
      BY <2>1, CallCode DEF Texts
    <3>. QED
      BY <3>1 DEF Done
  <2>4. Meaning = g[Len(begin.lines)]
    BY <2>1, <2>2, MeaningIs
  <2>5. Keeps(g, Len(begin.lines), ctx, ram)
    BY <2>1, <2>2, <2>3 DEF Follows
  <2>6. registers = update_registers(ctx)
    BY <1>1 DEF IInv, Memory
  <2>. HIDE DEF Meaning
  <2>. QED
    BY <2>4, <2>5, <2>6 DEF Keeps
<1>2. IInv /\ RunInv => RunExecutesLines
  BY <1>1
<1>. QED
  BY <1>2, RunInvariant, PTL

=============================================================================
