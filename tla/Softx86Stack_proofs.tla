------------------------- MODULE Softx86Stack_proofs -------------------------
(***************************************************************************)
(* Proofs about Softx86Stack, for every width of byte and word, every CPU    *)
(* and every bound: what is on the stack stays there (StackCorrect), so      *)
(* calls, interrupts, frames and PUSHA are undone by their counterparts.     *)
(*                                                                         *)
(* Depths are bytes below the empty stack, whose SP is b: At(b, d) is SP at   *)
(* depth d, and the address of the word pushed last.  SP wraps, so words of   *)
(* different depth lie apart only because depths are even and no depth       *)
(* exceeds the segment (AtApart); everything else speaks of depths.          *)
(***************************************************************************)
EXTENDS Softx86Stack, Recursion_proofs

-----------------------------------------------------------------------------
(***************************************************************************)
(* Numbers.                                                                *)
(***************************************************************************)
\* Bytes have at least three values, and a word is two of them.
LEMMA ByteFacts == Byte \in Nat /\ Byte >= 3 /\ Word = Byte * Byte
  BY ByteAssumption

\* There are as many words as start values of the registers, and they pair up.
LEMMA WordFacts == Word \in Nat /\ Word >= 9 /\ Word % 2 = 0
<1>1. Byte * Byte \in Nat /\ Byte * Byte >= 9
  BY ByteFacts
<1> QED BY <1>1, ByteAssumption

\* A value reduced to a word is a word.
LEMMA ModWord == ASSUME NEW x \in Int PROVE x % Word \in Words
  BY WordFacts DEF Words

\* Quotient and remainder.
LEMMA WordMod == ASSUME NEW x \in Int PROVE \E q \in Int : x = (q * Word) + (x % Word)
<1>1. x = ((x \div Word) * Word) + (x % Word) /\ x \div Word \in Int
  BY WordFacts
<1> QED BY <1>1

\* The remainder is the only word at a multiple of Word from a number.
LEMMA ModUnique ==
    ASSUME NEW x \in Int, NEW q \in Int, NEW y \in Words, x = (q * Word) + y
    PROVE  x % Word = y
  BY WordFacts DEF Words

\* Reducing a summand first makes no difference.
LEMMA ModSum ==
    ASSUME NEW x \in Int, NEW y \in Int
    PROVE  ((x % Word) + y) % Word = (x + y) % Word
<1>1. PICK q \in Int : x = (q * Word) + (x % Word)
  BY WordMod
<1> DEFINE r == x % Word
           s == (r + y) % Word
<1>2. r \in Int
  BY WordFacts
<1>3. PICK p \in Int : r + y = (p * Word) + s
  <2> HIDE DEF r
  <2> QED BY <1>2, WordMod
<1>4. s \in Words
  BY <1>2, ModWord
<1> HIDE DEF r, s
<1>5. x + y = ((q + p) * Word) + s
  <2>1. x = (q * Word) + r
    BY <1>1 DEF r
  <2>2. s \in Int
    BY <1>4, WordFacts DEF Words
  <2> QED BY <1>2, <1>3, <2>1, <2>2, WordFacts
<1>6. (x + y) % Word = s
  BY <1>4, <1>5, ModUnique
<1> QED BY <1>6 DEF s, r

\* The two bytes of a word are the word.
LEMMA WordSplit ==
    ASSUME NEW w \in Words
    PROVE  /\ w % Byte \in 0..Byte - 1 /\ (w \div Byte) % Byte \in 0..Byte - 1
           /\ (w % Byte) + Byte * ((w \div Byte) % Byte) = w
<1> DEFINE r == w % Byte
           q == w \div Byte
<1>1. w = (Byte * q) + r /\ q \in Nat /\ r \in 0..Byte - 1
  BY ByteFacts DEF Words
<1> HIDE DEF r, q
<1>2. q < Byte
  <2>1. SUFFICES ASSUME q >= Byte PROVE FALSE
    BY <1>1, ByteFacts
  <2>2. Byte * q >= Byte * Byte
    BY <1>1, <2>1, ByteFacts
  <2>3. w < Byte * Byte
    BY ByteFacts DEF Words
  <2> QED BY <1>1, <2>2, <2>3, ByteFacts
<1>3. q % Byte = q
  BY <1>1, <1>2, ByteFacts
<1>4. r \in 0..Byte - 1 /\ q % Byte \in 0..Byte - 1 /\ r + Byte * (q % Byte) = w
  BY <1>1, <1>2, <1>3, ByteFacts
<1> QED BY <1>4, Zenon DEF r, q

\* Two bytes make a word.
LEMMA WordJoin ==
    ASSUME NEW x \in 0..Byte - 1, NEW y \in 0..Byte - 1
    PROVE  x + Byte * y \in Words
<1>1. Byte * y <= Byte * (Byte - 1) /\ Byte * y \in Nat
  BY ByteFacts
<1>2. Byte * (Byte - 1) = (Byte * Byte) - Byte
  BY ByteFacts
<1> QED BY <1>1, <1>2, ByteFacts DEF Words

-----------------------------------------------------------------------------
(***************************************************************************)
(* Depths and addresses.                                                   *)
(***************************************************************************)
Even(n) == n % 2 = 0

\* Words above an even depth lie at even depths.
LEMMA EvenAbove ==
    ASSUME NEW x \in Nat, NEW n \in Nat, NEW i \in 1..n, Even(x), NEW d \in Nat, d >= x + 2 * n
    PROVE  x + 2 * i \in 2..d /\ Even(x + 2 * i)
<1>1. i \in Nat /\ i >= 1 /\ i <= n
  OBVIOUS
<1>2. x + 2 * i \in 2..d
  BY <1>1
<1>3. (x + 2 * i) % 2 = 0
  BY <1>1 DEF Even
<1> QED BY <1>2, <1>3 DEF Even

\* Sums of even numbers are even.
LEMMA EvenSum == ASSUME NEW x \in Nat, NEW y \in Nat, Even(x), Even(y) PROVE Even(x + y)
  BY DEF Even

At(b, d) == (b - d) % Word

\* Depths have addresses.
LEMMA AtType == ASSUME NEW b \in Words, NEW d \in Int PROVE At(b, d) \in Words
  BY ModWord, WordFacts DEF At, Words

\* With nothing in use, SP is where it started.
LEMMA AtTop == ASSUME NEW b \in Words PROVE At(b, 0) = b
  BY WordFacts DEF At, Words

\* Moving SP is moving by as much in depth, whether or not it wraps.
LEMMA AtMoves ==
    ASSUME NEW b \in Words, NEW d \in Int, NEW k \in Int
    PROVE  /\ (At(b, d) - k) % Word = At(b, d + k)
           /\ (At(b, d) + k) % Word = At(b, d - k)
<1>1. b \in Int /\ b - d \in Int /\ -k \in Int
  BY WordFacts DEF Words
<1>2. (((b - d) % Word) + (-k)) % Word = ((b - d) + (-k)) % Word
  BY <1>1, ModSum
<1>3. (((b - d) % Word) + k) % Word = ((b - d) + k) % Word
  BY <1>1, ModSum
<1>4. (b - d) % Word \in Int
  BY <1>1, WordFacts
<1>5. At(b, d) + (-k) = At(b, d) - k /\ (b - d) + (-k) = b - (d + k) /\ (b - d) + k = b - (d - k)
  BY <1>1, <1>4 DEF At
<1> QED BY <1>2, <1>3, <1>5 DEF At

\* Words at two even depths within the segment have no byte in common.
LEMMA AtApart ==
    ASSUME NEW b \in Words, NEW c \in 2..Word, NEW d \in 2..Word, Even(c), Even(d), c # d
    PROVE  At(b, c) # At(b, d) /\ At(b, c) + 1 # At(b, d) /\ At(b, c) # At(b, d) + 1
<1>1. \A x \in 2..Word : At(b, x) = IF x <= b THEN b - x ELSE b - x + Word
  BY WordFacts DEF At, Words
<1>2. At(b, c) = (IF c <= b THEN b - c ELSE b - c + Word)
      /\ At(b, d) = (IF d <= b THEN b - d ELSE b - d + Word)
  BY <1>1
<1> QED BY <1>2, WordFacts DEF Even, Words

-----------------------------------------------------------------------------
(***************************************************************************)
(* softx86_stack_pushw.                                                    *)
(***************************************************************************)
Mem == [0..Word -> 0..Byte - 1]

WordIn(m, a) == m[a] + Byte * m[a + 1]

\* The stack s holds d bytes.
Stacked(s, b, d) == s.sp = At(b, d) /\ s.mem \in Mem

\* The words up to depth d are in n what they are in m.
Keeps(m, n, b, d) == \A c \in 2..d : Even(c) => WordIn(n, At(b, c)) = WordIn(m, At(b, c))

\* What is in memory at an address of a word is a word.
LEMMA WordInType == ASSUME NEW m \in Mem, NEW a \in Words PROVE WordIn(m, a) \in Words
<1>1. a \in 0..Word /\ a + 1 \in 0..Word
  BY WordFacts DEF Words
<1> QED BY <1>1, WordJoin DEF WordIn, Mem

\* pushw stores its word one further down and leaves those above alone.
LEMMA PushwStores ==
    ASSUME NEW b \in Words, NEW d \in Nat, Even(d), d + 2 <= Word, NEW w \in Words,
           NEW s, Stacked(s, b, d)
    PROVE  /\ Stacked(pushw(s, w), b, d + 2)
           /\ WordIn(pushw(s, w).mem, At(b, d + 2)) = w
           /\ Keeps(s.mem, pushw(s, w).mem, b, d)
<1> DEFINE a == At(b, d + 2)
           lo == w % Byte
           hi == (w \div Byte) % Byte
           n == [s.mem EXCEPT ![a] = lo, ![a + 1] = hi]
<1>1. (s.sp - 2) % Word = a
  BY AtMoves, WordFacts DEF Stacked
<1>2. pushw(s, w) = [sp |-> a, mem |-> n]
  BY <1>1, Zenon DEF pushw
<1>3. a \in 0..Word - 1 /\ s.mem \in [0..Word -> 0..Byte - 1]
  <2>1. a \in Words
    BY AtType
  <2> HIDE DEF a, n
  <2> QED BY <2>1 DEF Stacked, Words, Mem
<1>4. lo \in 0..Byte - 1 /\ hi \in 0..Byte - 1 /\ lo + Byte * hi = w
  BY WordSplit
<1>5. a \in 0..Word /\ a + 1 \in 0..Word /\ a # a + 1
  BY <1>3, WordFacts
<1> HIDE DEF a, lo, hi
<1>6. n \in Mem /\ n[a] = lo /\ n[a + 1] = hi
  BY <1>3, <1>4, <1>5 DEF Mem
<1>7. ASSUME NEW c \in 2..d, Even(c) PROVE WordIn(n, At(b, c)) = WordIn(s.mem, At(b, c))
  <2> DEFINE x == At(b, c)
  <2>1. c \in 2..Word /\ d + 2 \in 2..Word /\ c # d + 2 /\ Even(d + 2)
    BY WordFacts DEF Even
  <2>2. x # a /\ x + 1 # a /\ x # a + 1
    BY <1>7, <2>1, AtApart DEF a
  <2>3. x \in 0..Word - 1
    BY <2>1, AtType DEF Words
  <2> HIDE DEF x
  <2>4. x \in 0..Word /\ x + 1 \in 0..Word /\ x + 1 # a + 1
    BY <1>3, <2>2, <2>3, WordFacts
  <2>5. n[x] = s.mem[x] /\ n[x + 1] = s.mem[x + 1]
    BY <1>3, <2>2, <2>4
  <2> QED BY <2>5 DEF WordIn, x
<1>8. Keeps(s.mem, n, b, d)
  BY <1>7 DEF Keeps
<1>9. WordIn(n, a) = w
  BY <1>4, <1>6 DEF WordIn
<1> HIDE DEF n
<1> QED BY <1>2, <1>6, <1>8, <1>9 DEF Stacked, a

\* What two steps keep one after the other, both keep.
LEMMA KeepsBoth ==
    ASSUME NEW b, NEW c \in Nat, NEW d \in Nat, c <= d, NEW l, NEW m, NEW n,
           Keeps(l, m, b, c), Keeps(m, n, b, d)
    PROVE  Keeps(l, n, b, c)
  BY DEF Keeps

\* A word that is kept.
LEMMA KeptWord ==
    ASSUME NEW b, NEW c \in Nat, NEW d \in Nat, c >= 2, c <= d, Even(c), NEW m, NEW n, Keeps(m, n, b, d)
    PROVE  WordIn(n, At(b, c)) = WordIn(m, At(b, c))
  BY DEF Keeps

\* Two words, the first one lying above the second.
LEMMA Pushw2Stores ==
    ASSUME NEW b \in Words, NEW d \in Nat, Even(d), d + 4 <= Word, NEW v \in Words, NEW w \in Words,
           NEW s, Stacked(s, b, d)
    PROVE  /\ Stacked(pushw2(s, v, w), b, d + 4)
           /\ WordIn(pushw2(s, v, w).mem, At(b, d + 2)) = v
           /\ WordIn(pushw2(s, v, w).mem, At(b, d + 4)) = w
           /\ Keeps(s.mem, pushw2(s, v, w).mem, b, d)
<1> DEFINE p == pushw(s, v)
           q == pushw(p, w)
<1>0. d + 2 \in Nat /\ Even(d + 2) /\ d + 2 <= Word /\ (d + 2) + 2 = d + 4
  BY WordFacts DEF Even
<1>1. Stacked(p, b, d + 2) /\ WordIn(p.mem, At(b, d + 2)) = v /\ Keeps(s.mem, p.mem, b, d)
  BY <1>0, PushwStores
<1> HIDE DEF p
<1>2. Stacked(q, b, d + 4) /\ WordIn(q.mem, At(b, d + 4)) = w /\ Keeps(p.mem, q.mem, b, d + 2)
  BY <1>0, <1>1, PushwStores
<1> HIDE DEF q
<1>3. Keeps(s.mem, q.mem, b, d)
  BY <1>0, <1>1, <1>2, KeepsBoth
<1>4. WordIn(q.mem, At(b, d + 2)) = v
  BY <1>0, <1>1, <1>2, KeptWord
<1>5. pushw2(s, v, w) = q
  BY DEF pushw2, p, q
<1> QED BY <1>2, <1>3, <1>4, <1>5

\* Three words.
LEMMA Pushw3Stores ==
    ASSUME NEW b \in Words, NEW d \in Nat, Even(d), d + 6 <= Word,
           NEW u \in Words, NEW v \in Words, NEW w \in Words, NEW s, Stacked(s, b, d)
    PROVE  /\ Stacked(pushw3(s, u, v, w), b, d + 6)
           /\ WordIn(pushw3(s, u, v, w).mem, At(b, d + 2)) = u
           /\ WordIn(pushw3(s, u, v, w).mem, At(b, d + 4)) = v
           /\ WordIn(pushw3(s, u, v, w).mem, At(b, d + 6)) = w
           /\ Keeps(s.mem, pushw3(s, u, v, w).mem, b, d)
<1> DEFINE p == pushw2(s, u, v)
           q == pushw(p, w)
<1>0. d + 2 \in Nat /\ d + 4 \in Nat /\ Even(d + 2) /\ Even(d + 4) /\ d + 4 <= Word
      /\ (d + 4) + 2 = d + 6
  BY WordFacts DEF Even
<1>1. /\ Stacked(p, b, d + 4)
      /\ WordIn(p.mem, At(b, d + 2)) = u /\ WordIn(p.mem, At(b, d + 4)) = v
      /\ Keeps(s.mem, p.mem, b, d)
  BY <1>0, Pushw2Stores
<1> HIDE DEF p
<1>2. Stacked(q, b, d + 6) /\ WordIn(q.mem, At(b, d + 6)) = w /\ Keeps(p.mem, q.mem, b, d + 4)
  BY <1>0, <1>1, PushwStores
<1> HIDE DEF q
<1>3. Keeps(s.mem, q.mem, b, d)
  BY <1>0, <1>1, <1>2, KeepsBoth
<1>4. WordIn(q.mem, At(b, d + 2)) = u /\ WordIn(q.mem, At(b, d + 4)) = v
  BY <1>0, <1>1, <1>2, KeptWord
<1>5. pushw3(s, u, v, w) = q
  BY DEF pushw3, p, q
<1> QED BY <1>2, <1>3, <1>4, <1>5

-----------------------------------------------------------------------------
(***************************************************************************)
(* The inductive invariant, for the SP b of an empty stack.  Openings are    *)
(* counted from the innermost; the 0th is the present.                       *)
(***************************************************************************)
DepthAt(o, d, j) == IF j = 0 THEN d ELSE o[j].depth
BPAt(o, bp, j)   == IF j = 0 THEN bp ELSE o[j].reg["bp"]
CSAt(o, c, j)    == IF j = 0 THEN c ELSE o[j].cs

\* An opening has room for its words below whatever was open before it; only a
\* frame has more room than that, and words lie side by side.
Nested(o, d) ==
    \A k \in 1..Len(o) :
        /\ Even(o[k].depth)
        /\ \A j \in 0..k - 1 : DepthAt(o, d, j) >= o[k].depth + 2 * Len(Saved(o[k]))
        /\ o[k].kind # "frame" => DepthAt(o, d, k - 1) = o[k].depth + 2 * Len(Saved(o[k]))
        /\ \A j \in 0..k - 1 : (\A i \in j + 1..k : o[i].kind = "word")
                                => DepthAt(o, d, j) = o[k].depth + 2 * (k - j)

\* The words of an opening are in memory m, below the SP it found.
Imaged(o, m, b) ==
    \A k \in 1..Len(o) :
        /\ o[k].reg["sp"] = At(b, o[k].depth)
        /\ \A i \in 1..Len(Saved(o[k])) : WordIn(m, At(b, o[k].depth + 2 * i)) = Saved(o[k])[i]

\* BP changes with frames only, to the word that holds the BP before.
FramesLinked(o, bp, b) ==
    \A k \in 1..Len(o) : \A j \in 0..k - 1 :
        (\A i \in j + 1..k - 1 : o[i].kind # "frame")
        => BPAt(o, bp, j) = IF o[k].kind = "frame" THEN At(b, o[k].depth + 2) ELSE o[k].reg["bp"]

\* A procedure called near returns in the segment of its call.
SegmentsKept(o, c) ==
    \A k \in 1..Len(o) : \A j \in 0..k - 1 :
        o[k].kind = "near" /\ (\A i \in j + 1..k - 1 : o[i].kind \notin {"far", "int"})
        => CSAt(o, c, j) = o[k].cs

StackInv(b) ==
    /\ TypeOK
    /\ Even(depth) /\ reg["sp"] = At(b, depth)
    /\ Nested(open, depth)
    /\ Imaged(open, mem, b)
    /\ FramesLinked(open, reg["bp"], b)
    /\ SegmentsKept(open, cs)

IInv == \E b \in Words : StackInv(b)

-----------------------------------------------------------------------------
(***************************************************************************)
(* Opening and closing, as changes of the list o of openings.               *)
(***************************************************************************)
\* An opening put on top is the first, and the others are one further down.
LEMMA OnTop ==
    ASSUME NEW o \in Seq(Opening), NEW e \in Opening, NEW p, p = <<e>> \o o
    PROVE  /\ p \in Seq(Opening) /\ Len(p) = Len(o) + 1 /\ p[1] = e
           /\ \A k \in 1..Len(o) : p[k + 1] = o[k]
           /\ \A k \in 2..Len(p) : k - 1 \in 1..Len(o) /\ p[k] = o[k - 1]
<1>1. <<e>> \in Seq(Opening) /\ Len(<<e>>) = 1 /\ <<e>>[1] = e
  OBVIOUS
<1>2. p \in Seq(Opening) /\ Len(p) = Len(o) + 1
  BY <1>1
<1>3. p[1] = e
  BY <1>1, <1>2
<1>4. \A k \in 1..Len(o) : p[k + 1] = o[k]
  BY <1>1, <1>2
<1>5. \A k \in 2..Len(p) : k - 1 \in 1..Len(o) /\ p[k] = o[k - 1]
  BY <1>2, <1>4
<1> QED BY <1>2, <1>3, <1>4, <1>5

\* Openings left when the first n are gone.
LEMMA Below ==
    ASSUME NEW o \in Seq(Opening), NEW n \in 0..Len(o), NEW p, p = SubSeq(o, n + 1, Len(o))
    PROVE  /\ p \in Seq(Opening) /\ Len(p) = Len(o) - n
           /\ \A k \in 1..Len(p) : k + n \in 1..Len(o) /\ p[k] = o[k + n]
<1>1. Len(p) = Len(o) - n
  OBVIOUS
<1>2. \A k \in 1..Len(p) : k + n \in 1..Len(o) /\ p[k] = o[k + n]
  BY <1>1
<1>3. p \in Seq(Opening)
  OBVIOUS
<1> QED BY <1>1, <1>2, <1>3

\* How many words an opening of each kind saves, and that they are words.
LEMMA SavedFacts ==
    ASSUME NEW e \in Opening
    PROVE  /\ Len(Saved(e)) = CASE e.kind = "far" -> 2 [] e.kind = "int" -> 3
                                [] e.kind = "all" -> 8 [] OTHER -> 1
           /\ \A i \in 1..Len(Saved(e)) : Saved(e)[i] \in Words
<1>1. e.ip % Word \in Words /\ e.flags \in Words /\ e.cs \in Words /\ e.word \in Words
  BY ModWord, WordFacts DEF Opening, Words
<1>2. \A r \in Regs : e.reg[r] \in Words
  BY DEF Opening
<1>3. e.kind \in Kinds
  BY DEF Opening
<1>4. CASE e.kind \in {"word", "flags", "near", "frame"}
  BY <1>1, <1>2, <1>4 DEF Saved, Regs
<1>5. CASE e.kind = "far"
  BY <1>1, <1>5 DEF Saved
<1>6. CASE e.kind = "int"
  BY <1>1, <1>6 DEF Saved
<1>7. CASE e.kind = "all"
  BY <1>1, <1>2, <1>7 DEF Saved, Regs, General
<1> QED BY <1>3, <1>4, <1>5, <1>6, <1>7 DEF Kinds

\* An opening with room for its words goes below what is open.
LEMMA NestedPush ==
    ASSUME NEW o \in Seq(Opening), NEW d \in Nat, Even(d), Nested(o, d),
           NEW e \in Opening, e.depth = d, NEW n \in Nat, n >= 2 * Len(Saved(e)),
           e.kind # "frame" => n = 2 * Len(Saved(e)), NEW p, p = <<e>> \o o
    PROVE  Nested(p, d + n)
<1>1. Len(p) = Len(o) + 1 /\ p[1] = e /\ \A k \in 1..Len(o) : p[k + 1] = o[k]
  BY OnTop
<1>2. ASSUME NEW j \in 0..Len(o) PROVE DepthAt(p, d + n, j + 1) = DepthAt(o, d, j)
  BY <1>1 DEF DepthAt
<1>3. DepthAt(p, d + n, 0) = d + n /\ DepthAt(o, d, 0) = d
  BY DEF DepthAt
<1>4. /\ Len(Saved(e)) \in Nat
      /\ e.kind = "word" => n = 2
  <2>1. Len(Saved(e)) \in Nat /\ (e.kind = "word" => Len(Saved(e)) = 1)
    BY SavedFacts
  <2>2. ASSUME e.kind = "word" PROVE n = 2
    <3>1. n = 2 * Len(Saved(e)) /\ Len(Saved(e)) = 1
      BY <2>1, <2>2
    <3> QED BY <3>1
  <2> QED BY <2>1, <2>2
<1>5. \A k \in 1..Len(o) : o[k].depth \in Nat /\ Len(Saved(o[k])) \in Nat
  <2>1. ASSUME NEW k \in 1..Len(o) PROVE o[k].depth \in Nat /\ Len(Saved(o[k])) \in Nat
    <3>1. o[k] \in Opening
      OBVIOUS
    <3>2. o[k].depth \in Nat
      BY <3>1, WordFacts DEF Opening
    <3>3. Len(Saved(o[k])) \in Nat
      BY <3>1, SavedFacts
    <3> QED BY <3>2, <3>3
  <2> QED BY <2>1
<1> SUFFICES ASSUME NEW k \in 1..Len(p)
             PROVE  /\ Even(p[k].depth)
                    /\ \A j \in 0..k - 1 : DepthAt(p, d + n, j) >= p[k].depth + 2 * Len(Saved(p[k]))
                    /\ p[k].kind # "frame"
                       => DepthAt(p, d + n, k - 1) = p[k].depth + 2 * Len(Saved(p[k]))
                    /\ \A j \in 0..k - 1 : (\A i \in j + 1..k : p[i].kind = "word")
                                            => DepthAt(p, d + n, j) = p[k].depth + 2 * (k - j)
  BY DEF Nested
<1>6. CASE k = 1
  <2>1. p[k] = e /\ k - 1 = 0 /\ \A j \in 0..k - 1 : j = 0
    BY <1>1, <1>6
  <2>2. (\A i \in 0 + 1..k : p[i].kind = "word") => d + n = d + 2 * (k - 0)
    BY <1>1, <1>4, <1>6
  <2>3. d + n >= d + 2 * Len(Saved(e))
    BY <1>4
  <2> QED BY <1>3, <2>1, <2>2, <2>3
<1>7. CASE k # 1
  <2>1. PICK m \in 1..Len(o) : k = m + 1
    <3>1. k - 1 \in 1..Len(o) /\ k = (k - 1) + 1
      BY <1>1, <1>7
    <3> QED BY <3>1
  <2>2. p[k] = o[m] /\ k - 1 = m
    BY <1>1, <2>1
  <2>3. /\ Even(o[m].depth)
        /\ \A j \in 0..m - 1 : DepthAt(o, d, j) >= o[m].depth + 2 * Len(Saved(o[m]))
        /\ o[m].kind # "frame" => DepthAt(o, d, m - 1) = o[m].depth + 2 * Len(Saved(o[m]))
        /\ \A j \in 0..m - 1 : (\A i \in j + 1..m : o[i].kind = "word")
                                => DepthAt(o, d, j) = o[m].depth + 2 * (m - j)
    BY DEF Nested
  <2>4. DepthAt(p, d + n, m) = DepthAt(o, d, m - 1)
    <3>1. m - 1 \in 0..Len(o) /\ (m - 1) + 1 = m
      OBVIOUS
    <3> QED BY <1>2, <3>1
  <2>5. 0 \in 0..m - 1 /\ o[m].depth \in Nat /\ Len(Saved(o[m])) \in Nat
    BY <1>5
  <2>6. d >= o[m].depth + 2 * Len(Saved(o[m]))
    BY <1>3, <2>3, <2>5
  <2>7. ASSUME NEW j \in 0..k - 1, j # 0
        PROVE  \E i \in 0..m - 1 : j = i + 1 /\ DepthAt(p, d + n, j) = DepthAt(o, d, i)
    <3>1. j - 1 \in 0..m - 1 /\ j - 1 \in 0..Len(o) /\ j = (j - 1) + 1
      BY <2>2, <2>7
    <3>2. DepthAt(p, d + n, (j - 1) + 1) = DepthAt(o, d, j - 1)
      BY <1>2, <3>1
    <3> QED BY <3>1, <3>2
  <2>8. ASSUME NEW j \in 0..k - 1 PROVE DepthAt(p, d + n, j) >= p[k].depth + 2 * Len(Saved(p[k]))
    <3>1. CASE j = 0
      BY <1>3, <2>2, <2>5, <2>6, <3>1
    <3>2. CASE j # 0
      BY <2>2, <2>3, <2>7, <3>2
    <3> QED BY <3>1, <3>2
  <2>9. ASSUME NEW j \in 0..k - 1, \A i \in j + 1..k : p[i].kind = "word"
        PROVE  DepthAt(p, d + n, j) = p[k].depth + 2 * (k - j)
    <3>1. CASE j = 0
      <4>1. ASSUME NEW i \in 0 + 1..m PROVE o[i].kind = "word"
        <5>1. i + 1 \in j + 1..k /\ p[i + 1] = o[i]
          BY <2>1, <3>1, <1>1
        <5> QED BY <2>9, <5>1
      <4>2. d = o[m].depth + 2 * (m - 0)
        BY <1>3, <2>3, <2>5, <4>1
      <4>3. n = 2
        <5>1. 1 \in j + 1..k /\ p[1] = e
          BY <1>1, <3>1, <2>1
        <5> QED BY <1>4, <2>9, <5>1
      <4> QED BY <1>3, <2>1, <2>2, <2>5, <3>1, <4>2, <4>3
    <3>2. CASE j # 0
      <4>1. PICK i \in 0..m - 1 : j = i + 1 /\ DepthAt(p, d + n, j) = DepthAt(o, d, i)
        BY <2>7, <3>2
      <4>2. ASSUME NEW l \in i + 1..m PROVE o[l].kind = "word"
        <5>1. l + 1 \in j + 1..k /\ p[l + 1] = o[l]
          BY <1>1, <2>1, <4>1
        <5> QED BY <2>9, <5>1
      <4>3. DepthAt(o, d, i) = o[m].depth + 2 * (m - i)
        BY <2>3, <4>2
      <4>4. m - i = k - j
        BY <2>1, <4>1
      <4> QED BY <2>2, <4>1, <4>3, <4>4
    <3> QED BY <3>1, <3>2
  <2> QED BY <2>2, <2>3, <2>4, <2>8, <2>9
<1> QED BY <1>6, <1>7

\* What is left when the first n openings are gone is as it was.
LEMMA NestedPop ==
    ASSUME NEW o \in Seq(Opening), NEW d, Nested(o, d), NEW n \in 1..Len(o),
           NEW p, p = SubSeq(o, n + 1, Len(o))
    PROVE  Nested(p, o[n].depth)
<1>1. Len(p) = Len(o) - n /\ \A k \in 1..Len(p) : k + n \in 1..Len(o) /\ p[k] = o[k + n]
  BY Below
<1>2. \A j \in 0..Len(p) : DepthAt(p, o[n].depth, j) = DepthAt(o, d, j + n)
  BY <1>1 DEF DepthAt
<1> SUFFICES ASSUME NEW k \in 1..Len(p)
             PROVE  /\ Even(p[k].depth)
                    /\ \A j \in 0..k - 1 : DepthAt(p, o[n].depth, j) >= p[k].depth + 2 * Len(Saved(p[k]))
                    /\ p[k].kind # "frame"
                       => DepthAt(p, o[n].depth, k - 1) = p[k].depth + 2 * Len(Saved(p[k]))
                    /\ \A j \in 0..k - 1 : (\A i \in j + 1..k : p[i].kind = "word")
                                            => DepthAt(p, o[n].depth, j) = p[k].depth + 2 * (k - j)
  BY DEF Nested
<1>3. k + n \in 1..Len(o) /\ p[k] = o[k + n]
  BY <1>1
<1>4. /\ Even(o[k + n].depth)
      /\ \A j \in 0..(k + n) - 1 : DepthAt(o, d, j) >= o[k + n].depth + 2 * Len(Saved(o[k + n]))
      /\ o[k + n].kind # "frame"
         => DepthAt(o, d, (k + n) - 1) = o[k + n].depth + 2 * Len(Saved(o[k + n]))
      /\ \A j \in 0..(k + n) - 1 : (\A i \in j + 1..k + n : o[i].kind = "word")
                                    => DepthAt(o, d, j) = o[k + n].depth + 2 * ((k + n) - j)
  BY <1>3 DEF Nested
<1>5. \A j \in 0..k - 1 : /\ j + n \in 0..(k + n) - 1 /\ j \in 0..Len(p)
                          /\ DepthAt(p, o[n].depth, j) = DepthAt(o, d, j + n)
  BY <1>1, <1>2
<1>6. DepthAt(p, o[n].depth, k - 1) = DepthAt(o, d, (k + n) - 1)
  BY <1>5
<1>7. ASSUME NEW j \in 0..k - 1, \A i \in j + 1..k : p[i].kind = "word"
      PROVE  DepthAt(p, o[n].depth, j) = p[k].depth + 2 * (k - j)
  <2>1. \A i \in (j + n) + 1..k + n : o[i].kind = "word"
    <3>1. ASSUME NEW i \in (j + n) + 1..k + n PROVE o[i].kind = "word"
      <4>1. i - n \in j + 1..k /\ i - n \in 1..Len(p) /\ (i - n) + n = i
        BY <1>3, <1>1
      <4>2. p[i - n] = o[i]
        BY <1>1, <4>1
      <4> QED BY <1>7, <4>1, <4>2
    <3> QED BY <3>1
  <2>2. DepthAt(o, d, j + n) = o[k + n].depth + 2 * ((k + n) - (j + n))
    BY <1>4, <1>5, <2>1
  <2>3. (k + n) - (j + n) = k - j
    OBVIOUS
  <2> QED BY <1>3, <1>5, <2>2, <2>3
<1> QED BY <1>3, <1>4, <1>5, <1>6, <1>7

\* An opening that finds SP at its depth and stores its words without touching others.
LEMMA ImagedPush ==
    ASSUME NEW b \in Words, NEW o \in Seq(Opening), NEW d \in Nat, Nested(o, d),
           NEW m, Imaged(o, m, b), NEW n, Keeps(m, n, b, d),
           NEW e \in Opening, e.depth = d, e.reg["sp"] = At(b, d),
           \A i \in 1..Len(Saved(e)) : WordIn(n, At(b, d + 2 * i)) = Saved(e)[i],
           NEW p, p = <<e>> \o o
    PROVE  Imaged(p, n, b)
<1>1. Len(p) = Len(o) + 1 /\ p[1] = e /\ \A k \in 1..Len(o) : p[k + 1] = o[k]
  BY OnTop
<1> SUFFICES ASSUME NEW k \in 1..Len(p)
             PROVE  /\ p[k].reg["sp"] = At(b, p[k].depth)
                    /\ \A i \in 1..Len(Saved(p[k])) :
                          WordIn(n, At(b, p[k].depth + 2 * i)) = Saved(p[k])[i]
  BY DEF Imaged
<1>2. CASE k = 1
  BY <1>1, <1>2
<1>3. CASE k # 1
  <2>1. PICK l \in 1..Len(o) : p[k] = o[l]
    <3>1. k - 1 \in 1..Len(o) /\ (k - 1) + 1 = k
      BY <1>1, <1>3
    <3> QED BY <1>1, <3>1
  <2>2. /\ o[l].reg["sp"] = At(b, o[l].depth)
        /\ \A i \in 1..Len(Saved(o[l])) : WordIn(m, At(b, o[l].depth + 2 * i)) = Saved(o[l])[i]
    BY DEF Imaged
  <2>3. Even(o[l].depth) /\ d >= o[l].depth + 2 * Len(Saved(o[l]))
    <3>1. 0 \in 0..l - 1 /\ DepthAt(o, d, 0) = d
      BY DEF DepthAt
    <3> QED BY <3>1 DEF Nested
  <2>4. o[l].depth \in Nat /\ Len(Saved(o[l])) \in Nat
    <3>1. o[l] \in Opening
      OBVIOUS
    <3>2. o[l].depth \in Nat
      BY <3>1, WordFacts DEF Opening
    <3> QED BY <3>1, <3>2, SavedFacts
  <2>5. ASSUME NEW i \in 1..Len(Saved(o[l]))
        PROVE  WordIn(n, At(b, o[l].depth + 2 * i)) = Saved(o[l])[i]
    <3> DEFINE c == o[l].depth + 2 * i
    <3>1. c \in 2..d /\ Even(c)
      <4> DEFINE x == o[l].depth
                 n1 == Len(Saved(o[l]))
      <4>1. x \in Nat /\ n1 \in Nat /\ i \in 1..n1 /\ Even(x) /\ d >= x + 2 * n1
        BY <2>3, <2>4
      <4> HIDE DEF x, n1
      <4>2. x + 2 * i \in 2..d /\ Even(x + 2 * i)
        BY <4>1, EvenAbove
      <4> QED BY <4>2 DEF x
    <3>2. WordIn(n, At(b, c)) = WordIn(m, At(b, c))
      BY <3>1 DEF Keeps
    <3> QED BY <2>2, <3>2
  <2> QED BY <2>1, <2>2, <2>5
<1> QED BY <1>2, <1>3

\* Closing leaves memory alone.
LEMMA ImagedPop ==
    ASSUME NEW o \in Seq(Opening), NEW b, NEW m, Imaged(o, m, b), NEW n \in 1..Len(o),
           NEW p, p = SubSeq(o, n + 1, Len(o))
    PROVE  Imaged(p, m, b)
<1>1. \A k \in 1..Len(p) : k + n \in 1..Len(o) /\ p[k] = o[k + n]
  BY Below
<1>2. ASSUME NEW k \in 1..Len(p)
      PROVE  /\ p[k].reg["sp"] = At(b, p[k].depth)
             /\ \A i \in 1..Len(Saved(p[k])) : WordIn(m, At(b, p[k].depth + 2 * i)) = Saved(p[k])[i]
  <2>1. k + n \in 1..Len(o) /\ p[k] = o[k + n]
    BY <1>1
  <2> QED BY <2>1 DEF Imaged
<1> QED BY <1>2 DEF Imaged

\* An opening keeps BP, unless it is a frame: then BP is the address of its word.
LEMMA FramesLinkedPush ==
    ASSUME NEW b \in Words, NEW o \in Seq(Opening), NEW d \in Nat,
           NEW x \in Words, FramesLinked(o, x, b),
           NEW e \in Opening, e.depth = d, e.reg["bp"] = x,
           NEW y, y = IF e.kind = "frame" THEN At(b, d + 2) ELSE x,
           NEW p, p = <<e>> \o o
    PROVE  FramesLinked(p, y, b)
<1>1. Len(p) = Len(o) + 1 /\ p[1] = e /\ \A k \in 1..Len(o) : p[k + 1] = o[k]
  BY OnTop
<1>2. ASSUME NEW j \in 0..Len(o) PROVE BPAt(p, y, j + 1) = BPAt(o, x, j)
  BY <1>1 DEF BPAt
<1>3. BPAt(p, y, 0) = y /\ BPAt(o, x, 0) = x
  BY DEF BPAt
<1> SUFFICES ASSUME NEW k \in 1..Len(p), NEW j \in 0..k - 1, \A i \in j + 1..k - 1 : p[i].kind # "frame"
             PROVE  BPAt(p, y, j) = IF p[k].kind = "frame" THEN At(b, p[k].depth + 2) ELSE p[k].reg["bp"]
  BY DEF FramesLinked
<1>4. CASE k = 1
  BY <1>1, <1>3, <1>4
<1>5. CASE k # 1
  <2>1. PICK m \in 1..Len(o) : k = m + 1
    <3>1. k - 1 \in 1..Len(o) /\ k = (k - 1) + 1
      BY <1>1, <1>5
    <3> QED BY <3>1
  <2>2. p[k] = o[m]
    BY <1>1, <2>1
  <2>3. \A i \in 0..m - 1 : (\A l \in i + 1..m - 1 : o[l].kind # "frame")
           => BPAt(o, x, i) = IF o[m].kind = "frame" THEN At(b, o[m].depth + 2) ELSE o[m].reg["bp"]
    BY DEF FramesLinked
  <2>4. \E i \in 0..m - 1 : /\ BPAt(p, y, j) = BPAt(o, x, i)
                            /\ \A l \in i + 1..m - 1 : l + 1 \in j + 1..k - 1
    <3>1. CASE j = 0
      <4>1. p[1].kind # "frame"
        BY <2>1, <3>1
      <4>2. BPAt(p, y, j) = BPAt(o, x, 0)
        BY <1>1, <1>3, <3>1, <4>1
      <4>3. 0 \in 0..m - 1 /\ \A l \in 0 + 1..m - 1 : l + 1 \in j + 1..k - 1
        BY <2>1, <3>1
      <4> QED BY <4>2, <4>3
    <3>2. CASE j # 0
      <4>1. j - 1 \in 0..m - 1 /\ j - 1 \in 0..Len(o) /\ j = (j - 1) + 1
        BY <2>1, <3>2
      <4>2. BPAt(p, y, (j - 1) + 1) = BPAt(o, x, j - 1)
        BY <1>2, <4>1
      <4>3. \A l \in (j - 1) + 1..m - 1 : l + 1 \in j + 1..k - 1
        BY <2>1
      <4> QED BY <4>1, <4>2, <4>3
    <3> QED BY <3>1, <3>2
  <2>5. PICK i \in 0..m - 1 : /\ BPAt(p, y, j) = BPAt(o, x, i)
                              /\ \A l \in i + 1..m - 1 : l + 1 \in j + 1..k - 1
    BY <2>4
  <2>6. ASSUME NEW l \in i + 1..m - 1 PROVE o[l].kind # "frame"
    <3>1. l + 1 \in j + 1..k - 1
      BY <2>5
    <3>2. l \in 1..Len(o)
      OBVIOUS
    <3>3. p[l + 1] = o[l]
      BY <1>1, <3>2
    <3> QED BY <3>1, <3>3
  <2>7. BPAt(o, x, i) = IF o[m].kind = "frame" THEN At(b, o[m].depth + 2) ELSE o[m].reg["bp"]
    BY <2>3, <2>6
  <2> QED BY <2>2, <2>5, <2>7
<1> QED BY <1>4, <1>5

\* Closing gives BP back as the opening found it.
LEMMA FramesLinkedPop ==
    ASSUME NEW o \in Seq(Opening), NEW b, NEW x, FramesLinked(o, x, b), NEW n \in 1..Len(o),
           NEW p, p = SubSeq(o, n + 1, Len(o))
    PROVE  FramesLinked(p, o[n].reg["bp"], b)
<1> DEFINE y == o[n].reg["bp"]
<1>1. Len(p) = Len(o) - n /\ \A k \in 1..Len(p) : k + n \in 1..Len(o) /\ p[k] = o[k + n]
  BY Below
<1>2. \A j \in 0..Len(p) : BPAt(p, y, j) = BPAt(o, x, j + n)
  BY <1>1 DEF BPAt
<1> HIDE DEF y
<1> SUFFICES ASSUME NEW k \in 1..Len(p), NEW j \in 0..k - 1, \A i \in j + 1..k - 1 : p[i].kind # "frame"
             PROVE  BPAt(p, y, j) = IF p[k].kind = "frame" THEN At(b, p[k].depth + 2) ELSE p[k].reg["bp"]
  BY DEF FramesLinked, y
<1>3. k + n \in 1..Len(o) /\ p[k] = o[k + n] /\ j + n \in 0..(k + n) - 1
  BY <1>1
<1>4. ASSUME NEW i \in (j + n) + 1..(k + n) - 1 PROVE o[i].kind # "frame"
  <2>1. i - n \in j + 1..k - 1 /\ i - n \in 1..Len(p) /\ (i - n) + n = i
    BY <1>3, <1>1
  <2>2. p[i - n] = o[i]
    BY <1>1, <2>1
  <2> QED BY <2>1, <2>2
<1>5. BPAt(o, x, j + n) = IF o[k + n].kind = "frame" THEN At(b, o[k + n].depth + 2) ELSE o[k + n].reg["bp"]
  BY <1>3, <1>4 DEF FramesLinked
<1>6. BPAt(p, y, j) = BPAt(o, x, j + n)
  BY <1>1, <1>2
<1> QED BY <1>3, <1>5, <1>6

\* An opening stays in the segment, unless it is a far call or an interrupt.
LEMMA SegmentsKeptPush ==
    ASSUME NEW o \in Seq(Opening), NEW c, SegmentsKept(o, c), NEW e \in Opening, e.cs = c,
           NEW s, e.kind \notin {"far", "int"} => s = c,
           NEW p, p = <<e>> \o o
    PROVE  SegmentsKept(p, s)
<1>1. Len(p) = Len(o) + 1 /\ p[1] = e /\ \A k \in 1..Len(o) : p[k + 1] = o[k]
  BY OnTop
<1>2. ASSUME NEW j \in 0..Len(o) PROVE CSAt(p, s, j + 1) = CSAt(o, c, j)
  BY <1>1 DEF CSAt
<1>3. CSAt(p, s, 0) = s /\ CSAt(o, c, 0) = c
  BY DEF CSAt
<1> SUFFICES ASSUME NEW k \in 1..Len(p), NEW j \in 0..k - 1, p[k].kind = "near",
                    \A i \in j + 1..k - 1 : p[i].kind \notin {"far", "int"}
             PROVE  CSAt(p, s, j) = p[k].cs
  BY DEF SegmentsKept
<1>4. CASE k = 1
  BY <1>1, <1>3, <1>4
<1>5. CASE k # 1
  <2>1. PICK m \in 1..Len(o) : k = m + 1
    <3>1. k - 1 \in 1..Len(o) /\ k = (k - 1) + 1
      BY <1>1, <1>5
    <3> QED BY <3>1
  <2>2. p[k] = o[m]
    BY <1>1, <2>1
  <2>3. \A i \in 0..m - 1 : (\A l \in i + 1..m - 1 : o[l].kind \notin {"far", "int"})
           => CSAt(o, c, i) = o[m].cs
    BY <2>2 DEF SegmentsKept
  <2>4. \E i \in 0..m - 1 : /\ CSAt(p, s, j) = CSAt(o, c, i)
                            /\ \A l \in i + 1..m - 1 : l + 1 \in j + 1..k - 1
    <3>1. CASE j = 0
      <4>1. p[1].kind \notin {"far", "int"}
        BY <2>1, <3>1
      <4>2. CSAt(p, s, j) = CSAt(o, c, 0)
        BY <1>1, <1>3, <3>1, <4>1
      <4>3. 0 \in 0..m - 1 /\ \A l \in 0 + 1..m - 1 : l + 1 \in j + 1..k - 1
        BY <2>1, <3>1
      <4> QED BY <4>2, <4>3
    <3>2. CASE j # 0
      <4>1. j - 1 \in 0..m - 1 /\ j - 1 \in 0..Len(o) /\ j = (j - 1) + 1
        BY <2>1, <3>2
      <4>2. CSAt(p, s, (j - 1) + 1) = CSAt(o, c, j - 1)
        BY <1>2, <4>1
      <4>3. \A l \in (j - 1) + 1..m - 1 : l + 1 \in j + 1..k - 1
        BY <2>1
      <4> QED BY <4>1, <4>2, <4>3
    <3> QED BY <3>1, <3>2
  <2>5. PICK i \in 0..m - 1 : /\ CSAt(p, s, j) = CSAt(o, c, i)
                              /\ \A l \in i + 1..m - 1 : l + 1 \in j + 1..k - 1
    BY <2>4
  <2>6. ASSUME NEW l \in i + 1..m - 1 PROVE o[l].kind \notin {"far", "int"}
    <3>1. l + 1 \in j + 1..k - 1
      BY <2>5
    <3>2. l \in 1..Len(o)
      OBVIOUS
    <3>3. p[l + 1] = o[l]
      BY <1>1, <3>2
    <3> QED BY <3>1, <3>3
  <2>7. CSAt(o, c, i) = o[m].cs
    BY <2>3, <2>6
  <2> QED BY <2>2, <2>5, <2>7
<1> QED BY <1>4, <1>5

\* A return goes to the segment some opening m of those closed found, when the
\* ones closed after it lie in that segment too.
LEMMA SegmentsKeptPop ==
    ASSUME NEW o \in Seq(Opening), NEW c, SegmentsKept(o, c), NEW n \in 1..Len(o),
           NEW m \in 0..n, \A i \in m + 1..n : o[i].kind \notin {"far", "int"},
           NEW p, p = SubSeq(o, n + 1, Len(o))
    PROVE  SegmentsKept(p, CSAt(o, c, m))
<1> DEFINE s == CSAt(o, c, m)
<1>1. Len(p) = Len(o) - n /\ \A k \in 1..Len(p) : k + n \in 1..Len(o) /\ p[k] = o[k + n]
  BY Below
<1>2. \A j \in 1..Len(p) : CSAt(p, s, j) = CSAt(o, c, j + n)
  BY <1>1 DEF CSAt
<1>3. CSAt(p, s, 0) = CSAt(o, c, m)
  BY DEF CSAt
<1> HIDE DEF s
<1> SUFFICES ASSUME NEW k \in 1..Len(p), NEW j \in 0..k - 1, p[k].kind = "near",
                    \A i \in j + 1..k - 1 : p[i].kind \notin {"far", "int"}
             PROVE  CSAt(p, s, j) = p[k].cs
  BY DEF SegmentsKept, s
<1>4. k + n \in 1..Len(o) /\ p[k] = o[k + n]
  BY <1>1
<1>5. ASSUME NEW i \in (j + n) + 1..(k + n) - 1 PROVE o[i].kind \notin {"far", "int"}
  <2>1. i - n \in j + 1..k - 1 /\ i - n \in 1..Len(p) /\ (i - n) + n = i
    BY <1>4, <1>1
  <2>2. p[i - n] = o[i]
    BY <1>1, <2>1
  <2> QED BY <2>1, <2>2
<1>6. \A i \in 0..(k + n) - 1 : (\A l \in i + 1..(k + n) - 1 : o[l].kind \notin {"far", "int"})
         => CSAt(o, c, i) = o[k + n].cs
  BY <1>4 DEF SegmentsKept
<1>7. CASE j = 0
  <2>1. \A l \in m + 1..(k + n) - 1 : o[l].kind \notin {"far", "int"}
    <3>1. ASSUME NEW l \in m + 1..(k + n) - 1 PROVE o[l].kind \notin {"far", "int"}
      <4>1. l \in m + 1..n \/ l \in (j + n) + 1..(k + n) - 1
        BY <1>7
      <4> QED BY <1>5, <4>1
    <3> QED BY <3>1
  <2>2. m \in 0..(k + n) - 1
    OBVIOUS
  <2> QED BY <1>3, <1>4, <1>6, <1>7, <2>1, <2>2
<1>8. CASE j # 0
  <2>1. j + n \in 0..(k + n) - 1
    OBVIOUS
  <2>2. j \in 1..Len(p)
    BY <1>8
  <2>3. CSAt(o, c, j + n) = o[k + n].cs
    BY <1>5, <1>6, <2>1
  <2> QED BY <1>2, <1>4, <2>2, <2>3
<1> QED BY <1>7, <1>8

-----------------------------------------------------------------------------
(***************************************************************************)
(* The invariant holds when the program starts, and every instruction that  *)
(* opens or closes something keeps it.                                     *)
(***************************************************************************)
\* At the start nothing is open, and SP is that of the empty stack.
LEMMA InitInv == Init => IInv
<1> SUFFICES ASSUME Init PROVE IInv
  OBVIOUS
<1>1. PICK sp \in StartSP :
         reg = [r \in Regs |-> CASE r = "sp" -> sp [] r = "ax" -> 1 [] r = "cx" -> 2
                                 [] r = "dx" -> 3 [] r = "bx" -> 4 [] OTHER -> 5]
  BY DEF Init
<1>2. sp \in Words
  BY OperandAssumption
<1>3. TypeOK
  <2>1. reg \in [Regs -> Words]
    <3>1. \A i \in 1..5 : i \in Words
      BY WordFacts DEF Words
    <3> QED BY <1>1, <1>2, <3>1
  <2>2. mem \in [0..Word -> 0..Byte - 1] /\ depth \in 0..Word
    BY WordFacts, ByteFacts DEF Init
  <2>3. flags \in 0..1 /\ cs \in Words /\ ip \in Nat /\ decrement_sp_before_store \in BOOLEAN
    BY OperandAssumption, WordFacts DEF Init, Words
  <2>4. open \in Seq(Opening) /\ ops \in 0..MaxOps
    BY OperandAssumption DEF Init
  <2> QED BY <2>1, <2>2, <2>3, <2>4 DEF TypeOK
<1>4. open = << >> /\ depth = 0 /\ reg["sp"] = sp /\ Len(open) = 0
  BY <1>1 DEF Init, Regs
<1>5. StackInv(sp)
  <2>1. Even(depth) /\ reg["sp"] = At(sp, depth)
    BY <1>2, <1>4, AtTop DEF Even
  <2>2. Nested(open, depth) /\ Imaged(open, mem, sp)
    BY <1>4 DEF Nested, Imaged
  <2>3. FramesLinked(open, reg["bp"], sp) /\ SegmentsKept(open, cs)
    BY <1>4 DEF FramesLinked, SegmentsKept
  <2> QED BY <1>3, <2>1, <2>2, <2>3 DEF StackInv
<1> QED BY <1>2, <1>5 DEF IInv

\* What Opens remembers of the present.
Opened(kind, next, word) ==
    [kind |-> kind, reg |-> reg, flags |-> flags, cs |-> cs, ip |-> next,
     word |-> word, depth |-> depth]

\* An opening e leaves memory m: its words lie below the stack, the stack is kept.
Stores(m, b, e) ==
    /\ m \in Mem /\ Keeps(mem, m, b, depth)
    /\ \A i \in 1..Len(Saved(e)) : WordIn(m, At(b, depth + 2 * i)) = Saved(e)[i]

\* n bytes are those of its words, of a frame at least those.
Fits(n, e) == n >= 2 * Len(Saved(e)) /\ (e.kind # "frame" => n = 2 * Len(Saved(e)))

\* An opening stores its words below the stack and moves SP below them; a frame
\* may move it further.
LEMMA OpensInv ==
    ASSUME NEW b \in Words, StackInv(b),
           NEW kind \in Kinds, NEW n \in Nat, NEW next \in Nat, NEW word \in Words,
           Fetch, Opens(kind, n, next, word), Even(n),
           Fits(n, Opened(kind, next, word)), Stores(mem', b, Opened(kind, next, word)),
           reg' \in [Regs -> Words], reg'["sp"] = At(b, depth + n),
           reg'["bp"] = IF kind = "frame" THEN At(b, depth + 2) ELSE reg["bp"],
           cs' \in Words, kind \notin {"far", "int"} => cs' = cs,
           flags' \in 0..1, ip' \in Nat
    PROVE  StackInv(b)'
<1> DEFINE e == Opened(kind, next, word)
<1>0. /\ n >= 2 * Len(Saved(e)) /\ (e.kind # "frame" => n = 2 * Len(Saved(e)))
      /\ mem' \in Mem /\ Keeps(mem, mem', b, depth)
      /\ \A i \in 1..Len(Saved(e)) : WordIn(mem', At(b, depth + 2 * i)) = Saved(e)[i]
  BY DEF Fits, Stores
<1>1. TypeOK /\ Even(depth) /\ reg["sp"] = At(b, depth)
      /\ Nested(open, depth) /\ Imaged(open, mem, b)
      /\ FramesLinked(open, reg["bp"], b) /\ SegmentsKept(open, cs)
  BY DEF StackInv
<1>2. open' = <<e>> \o open /\ depth' = depth + n /\ depth + n <= Word
  BY DEF Opens, Opened, Room
<1>3. e \in Opening
  BY <1>1 DEF Opened, Opening, TypeOK
<1>4. /\ e.depth = depth /\ e.reg["sp"] = At(b, depth) /\ e.reg["bp"] = reg["bp"]
      /\ e.cs = cs /\ e.kind = kind
  BY <1>1 DEF Opened
<1> HIDE DEF e
<1>5. open \in Seq(Opening) /\ depth \in Nat /\ reg["bp"] \in Words
  BY <1>1, WordFacts DEF TypeOK, Regs
<1>6. depth + n \in 0..Word /\ Even(depth + n)
  <2>1. depth + n \in 0..Word
    BY <1>2, <1>5
  <2> QED BY <1>1, <1>5, <2>1, EvenSum
<1>7. TypeOK'
  <2>1. open' \in Seq(Opening)
    BY <1>2, <1>3, <1>5, OnTop
  <2>2. ops' \in 0..MaxOps /\ decrement_sp_before_store' \in BOOLEAN
    BY <1>1, OperandAssumption DEF Fetch, TypeOK
  <2> QED BY <1>0, <1>2, <1>6, <2>1, <2>2 DEF TypeOK, Mem
<1>8. Nested(open, depth)' 
  <2>1. Nested(open', depth + n)
    BY <1>0, <1>1, <1>2, <1>3, <1>4, <1>5, NestedPush
  <2> QED BY <1>2, <2>1 DEF Nested, DepthAt
<1>9. Imaged(open, mem, b)'
  <2>1. Imaged(open', mem', b)
    BY <1>0, <1>1, <1>2, <1>3, <1>4, <1>5, ImagedPush
  <2> QED BY <2>1 DEF Imaged
<1>10. FramesLinked(open, reg["bp"], b)'
  <2>1. FramesLinked(open', reg'["bp"], b)
    BY <1>1, <1>2, <1>3, <1>4, <1>5, FramesLinkedPush
  <2> QED BY <2>1
<1>11. SegmentsKept(open, cs)'
  <2>1. SegmentsKept(open', cs')
    BY <1>1, <1>2, <1>3, <1>4, <1>5, SegmentsKeptPush
  <2> QED BY <2>1
<1>12. Even(depth') /\ reg'["sp"] = At(b, depth')
  BY <1>2, <1>6
<1> QED BY <1>7, <1>8, <1>9, <1>10, <1>11, <1>12 DEF StackInv

\* A closing of the first j openings moves SP and BP back to where the last of
\* them found them, and CS to where some opening m of them found it.
LEMMA ClosesInv ==
    ASSUME NEW b \in Words, StackInv(b), Fetch, NEW j \in 1..Len(open),
           open' = SubSeq(open, j + 1, Len(open)), depth' = open[j].depth, mem' = mem,
           reg' \in [Regs -> Words], reg'["sp"] = At(b, open[j].depth),
           reg'["bp"] = open[j].reg["bp"],
           NEW m \in 0..j, \A i \in m + 1..j : open[i].kind \notin {"far", "int"},
           cs' = CSAt(open, cs, m), flags' \in 0..1, ip' \in Nat
    PROVE  StackInv(b)'
<1>1. TypeOK /\ Nested(open, depth) /\ Imaged(open, mem, b)
      /\ FramesLinked(open, reg["bp"], b) /\ SegmentsKept(open, cs)
  BY DEF StackInv
<1>2. open \in Seq(Opening)
  BY <1>1 DEF TypeOK
<1>3. open[j] \in Opening /\ \A i \in 1..Len(open) : open[i].cs \in Words
  <2>1. \A i \in 1..Len(open) : open[i] \in Opening
    BY <1>2
  <2> QED BY <2>1 DEF Opening
<1>4. TypeOK'
  <2>1. open' \in Seq(Opening)
    BY <1>2, Below
  <2>2. ops' \in 0..MaxOps /\ decrement_sp_before_store' \in BOOLEAN
    BY <1>1, OperandAssumption DEF Fetch, TypeOK
  <2>3. depth' \in 0..Word
    BY <1>3 DEF Opening
  <2>4. cs' \in Words
    BY <1>1, <1>3 DEF CSAt, TypeOK
  <2> QED BY <1>1, <2>1, <2>2, <2>3, <2>4 DEF TypeOK
<1>5. Nested(open, depth)'
  <2>1. Nested(open', open[j].depth)
    BY <1>1, <1>2, NestedPop
  <2> QED BY <2>1
<1>6. Imaged(open, mem, b)'
  <2>1. Imaged(open', mem, b)
    BY <1>1, <1>2, ImagedPop
  <2> QED BY <2>1
<1>7. FramesLinked(open, reg["bp"], b)'
  <2>1. FramesLinked(open', open[j].reg["bp"], b)
    BY <1>1, <1>2, FramesLinkedPop
  <2> QED BY <2>1
<1>8. SegmentsKept(open, cs)'
  <2>1. SegmentsKept(open', CSAt(open, cs, m))
    BY <1>1, <1>2, SegmentsKeptPop
  <2> QED BY <2>1
<1>9. Even(depth') /\ reg'["sp"] = At(b, depth')
  BY <1>1 DEF Nested
<1> QED BY <1>4, <1>5, <1>6, <1>7, <1>8, <1>9 DEF StackInv

\* What the invariant says of the present.
LEMMA Present ==
    ASSUME NEW b \in Words, StackInv(b)
    PROVE  /\ Stacked(Stack, b, depth) /\ Stack.mem = mem
           /\ depth \in Nat /\ Even(depth) /\ depth <= Word
           /\ \A r \in Regs : reg[r] \in Words
           /\ flags \in 0..1 /\ flags \in Words /\ cs \in Words /\ ip \in Nat
           /\ reg \in [Regs -> Words] /\ mem \in Mem /\ reg["sp"] = At(b, depth)
           /\ open \in Seq(Opening)
<1>1. TypeOK /\ Even(depth) /\ reg["sp"] = At(b, depth)
  BY DEF StackInv
<1>2. 0 \in Words /\ 1 \in Words
  BY WordFacts DEF Words
<1>3. flags \in Words
  BY <1>1, <1>2 DEF TypeOK
<1>4. depth \in Nat /\ depth <= Word
  BY <1>1, WordFacts DEF TypeOK
<1>5. mem \in Mem
  BY <1>1 DEF TypeOK, Mem
<1>6. reg \in [Regs -> Words] /\ flags \in 0..1 /\ cs \in Words /\ ip \in Nat /\ open \in Seq(Opening)
  BY <1>1 DEF TypeOK
<1> QED BY <1>1, <1>3, <1>4, <1>5, <1>6 DEF Stacked, Stack

\* An instruction that opens something by pushing its words.
LEMMA StoreInv ==
    ASSUME NEW b \in Words, StackInv(b),
           NEW kind \in Kinds \ {"frame"}, NEW n \in Nat, NEW next \in Nat, NEW word \in Words,
           Fetch, Opens(kind, n, next, word),
           n = 2 * Len(Saved(Opened(kind, next, word))),
           NEW s, Store(s), Stacked(s, b, depth + n), Stores(s.mem, b, Opened(kind, next, word)),
           cs' \in Words, kind \notin {"far", "int"} => cs' = cs,
           flags' \in 0..1, ip' \in Nat
    PROVE  StackInv(b)'
<1> DEFINE e == Opened(kind, next, word)
<1>1. depth \in Nat /\ reg \in [Regs -> Words]
  BY Present
<1>2. s.sp = At(b, depth + n) /\ s.mem \in Mem /\ s.sp \in Words
  BY <1>1, AtType DEF Stacked
<1>3. /\ reg' \in [Regs -> Words] /\ reg'["sp"] = s.sp /\ reg'["bp"] = reg["bp"]
      /\ mem' = s.mem
  BY <1>1, <1>2 DEF Store, Regs
<1>4. Len(Saved(e)) \in Nat
  <2>1. e \in Opening
    BY Present DEF StackInv, TypeOK, Opened, Opening
  <2> QED BY <2>1, SavedFacts
<1>5. Even(n)
  BY <1>4 DEF Even
<1> HIDE DEF e
<1>6. /\ Stores(mem', b, e) /\ reg'["sp"] = At(b, depth + n)
      /\ reg'["bp"] = IF kind = "frame" THEN At(b, depth + 2) ELSE reg["bp"]
  BY <1>2, <1>3 DEF e
<1>7. kind \in Kinds /\ Fits(n, e)
  BY <1>4 DEF e, Fits
<1> QED BY <1>3, <1>5, <1>6, <1>7, OpensInv DEF e

\* An instruction that pushes the one word its opening saves.
LEMMA PushesOne ==
    ASSUME NEW b \in Words, StackInv(b),
           NEW kind \in Kinds \ {"frame"}, NEW next \in Nat, NEW word \in Words, NEW w \in Words,
           Saved(Opened(kind, next, word)) = <<w>>,
           Fetch, Opens(kind, 2, next, word), Store(pushw(Stack, w)),
           cs' \in Words, kind \notin {"far", "int"} => cs' = cs, flags' \in 0..1, ip' \in Nat
    PROVE  StackInv(b)'
<1> DEFINE s == pushw(Stack, w)
           e == Opened(kind, next, word)
<1>1. depth + 2 <= Word
  BY DEF Opens, Room
<1>2. Stacked(s, b, depth + 2) /\ WordIn(s.mem, At(b, depth + 2)) = w /\ Keeps(mem, s.mem, b, depth)
  BY <1>1, Present, PushwStores
<1> HIDE DEF s, e
<1>3. Saved(e) = <<w>> /\ Len(Saved(e)) = 1
  BY DEF e
<1>4. Stores(s.mem, b, e) /\ 2 = 2 * Len(Saved(e))
  BY <1>2, <1>3 DEF Stores, Stacked
<1> QED BY <1>2, <1>4, StoreInv DEF e, s

\* Two words.
LEMMA PushesTwo ==
    ASSUME NEW b \in Words, StackInv(b),
           NEW kind \in Kinds \ {"frame"}, NEW next \in Nat, NEW word \in Words,
           NEW v \in Words, NEW w \in Words, Saved(Opened(kind, next, word)) = <<v, w>>,
           Fetch, Opens(kind, 4, next, word), Store(pushw2(Stack, v, w)),
           cs' \in Words, kind \notin {"far", "int"} => cs' = cs, flags' \in 0..1, ip' \in Nat
    PROVE  StackInv(b)'
<1> DEFINE s == pushw2(Stack, v, w)
           e == Opened(kind, next, word)
<1>1. depth + 4 <= Word
  BY DEF Opens, Room
<1>2. /\ Stacked(s, b, depth + 4) /\ Keeps(mem, s.mem, b, depth)
      /\ WordIn(s.mem, At(b, depth + 2)) = v /\ WordIn(s.mem, At(b, depth + 4)) = w
  BY <1>1, Present, Pushw2Stores
<1> HIDE DEF s, e
<1>3. Saved(e) = <<v, w>> /\ Len(Saved(e)) = 2
  BY DEF e
<1>4. \A i \in 1..Len(Saved(e)) : WordIn(s.mem, At(b, depth + 2 * i)) = Saved(e)[i]
  <2>1. \A i \in 1..Len(Saved(e)) : i = 1 \/ i = 2
    BY <1>3
  <2>2. 2 * 1 = 2 /\ 2 * 2 = 4
    OBVIOUS
  <2> QED BY <1>2, <1>3, <2>1, <2>2
<1>5. Stores(s.mem, b, e) /\ 4 = 2 * Len(Saved(e))
  BY <1>2, <1>3, <1>4 DEF Stores, Stacked
<1> QED BY <1>2, <1>5, StoreInv DEF e, s

\* Three words.
LEMMA PushesThree ==
    ASSUME NEW b \in Words, StackInv(b),
           NEW kind \in Kinds \ {"frame"}, NEW next \in Nat, NEW word \in Words,
           NEW u \in Words, NEW v \in Words, NEW w \in Words,
           Saved(Opened(kind, next, word)) = <<u, v, w>>,
           Fetch, Opens(kind, 6, next, word), Store(pushw3(Stack, u, v, w)),
           cs' \in Words, kind \notin {"far", "int"} => cs' = cs, flags' \in 0..1, ip' \in Nat
    PROVE  StackInv(b)'
<1> DEFINE s == pushw3(Stack, u, v, w)
           e == Opened(kind, next, word)
<1>1. depth + 6 <= Word
  BY DEF Opens, Room
<1>2. /\ Stacked(s, b, depth + 6) /\ Keeps(mem, s.mem, b, depth)
      /\ WordIn(s.mem, At(b, depth + 2)) = u /\ WordIn(s.mem, At(b, depth + 4)) = v
      /\ WordIn(s.mem, At(b, depth + 6)) = w
  <2>1. Stacked(Stack, b, depth) /\ Stack.mem = mem /\ depth \in Nat /\ Even(depth)
    BY Present
  <2>2. /\ Stacked(s, b, depth + 6) /\ Keeps(Stack.mem, s.mem, b, depth)
        /\ WordIn(s.mem, At(b, depth + 2)) = u /\ WordIn(s.mem, At(b, depth + 4)) = v
        /\ WordIn(s.mem, At(b, depth + 6)) = w
    BY <1>1, <2>1, Pushw3Stores
  <2> QED BY <2>1, <2>2
<1> HIDE DEF s, e
<1>3. Saved(e) = <<u, v, w>> /\ Len(Saved(e)) = 3
  BY DEF e
<1>4. \A i \in 1..Len(Saved(e)) : WordIn(s.mem, At(b, depth + 2 * i)) = Saved(e)[i]
  <2>1. \A i \in 1..Len(Saved(e)) : i = 1 \/ i = 2 \/ i = 3
    BY <1>3
  <2>2. 2 * 1 = 2 /\ 2 * 2 = 4 /\ 2 * 3 = 6
    OBVIOUS
  <2> QED BY <1>2, <1>3, <2>1, <2>2
<1>5. Stores(s.mem, b, e) /\ 6 = 2 * Len(Saved(e))
  BY <1>2, <1>3, <1>4 DEF Stores, Stacked
<1> QED BY <1>2, <1>5, StoreInv DEF e, s

\* PUSH of a register, SP after the decrement where the switch is on.
LEMMA PushInv ==
    ASSUME NEW b \in Words, StackInv(b), NEW r \in Pushed, Exec_push(r)
    PROVE  StackInv(b)'
<1> DEFINE w == PushValue(r)
<1>1. w \in Words
  <2>1. (reg["sp"] - 2) % Word \in Words
    <3>1. reg["sp"] \in Words
      BY Present DEF Regs
    <3>2. reg["sp"] - 2 \in Int
      BY <3>1, WordFacts DEF Words
    <3> QED BY <3>2, ModWord
  <2>2. reg[r] \in Words
    BY Present, OperandAssumption
  <2> QED BY <2>1, <2>2 DEF PushValue
<1>2. Saved(Opened("word", ip, w)) = <<w>>
  BY DEF Opened, Saved
<1>3. /\ Fetch /\ Opens("word", 2, ip, w) /\ Store(pushw(Stack, w))
      /\ flags' = flags /\ cs' = cs /\ ip' = ip + 1
  BY DEF Exec_push
<1> HIDE DEF w
<1>4. "word" \in Kinds \ {"frame"} /\ ip \in Nat /\ ip' \in Nat /\ flags' \in 0..1 /\ cs' \in Words
  BY <1>3, Present DEF Kinds
<1> QED BY <1>1, <1>2, <1>3, <1>4, PushesOne

\* PUSHF.
LEMMA PushfInv ==
    ASSUME NEW b \in Words, StackInv(b), Exec_pushf
    PROVE  StackInv(b)'
<1>1. Saved(Opened("flags", ip, flags)) = <<flags>>
  BY DEF Opened, Saved
<1>2. /\ Fetch /\ Opens("flags", 2, ip, flags) /\ Store(pushw(Stack, flags))
      /\ flags' = flags /\ cs' = cs /\ ip' = ip + 1
  BY DEF Exec_pushf
<1>3. /\ "flags" \in Kinds \ {"frame"} /\ ip \in Nat /\ ip' \in Nat /\ flags' \in 0..1
      /\ flags \in Words /\ cs' \in Words
  BY <1>2, Present DEF Kinds
<1> QED BY <1>1, <1>2, <1>3, PushesOne

\* CALL, near: to an offset, or through an operand in n bytes of code.
LEMMA CallNearInv ==
    ASSUME NEW b \in Words, StackInv(b), NEW n \in Nat, Fetch,
           Opens("near", 2, ip + n, 0), Store(pushw(Stack, (ip + n) % Word)),
           ip' \in Nat, flags' = flags, cs' = cs
    PROVE  StackInv(b)'
<1> DEFINE w == (ip + n) % Word
<1>1. ip \in Nat /\ ip + n \in Nat /\ 0 \in Words
  <2>1. ip \in Nat
    BY Present
  <2> QED BY <2>1, WordFacts DEF Words
<1>2. w \in Words
  BY <1>1, ModWord
<1>3. Saved(Opened("near", ip + n, 0)) = <<w>>
  BY DEF Opened, Saved
<1> HIDE DEF w
<1>4. "near" \in Kinds \ {"frame"} /\ flags' \in 0..1 /\ cs' \in Words
  BY Present DEF Kinds
<1>5. Store(pushw(Stack, w))
  BY DEF w
<1> QED BY <1>1, <1>2, <1>3, <1>4, <1>5, PushesOne

\* CALL, far.
LEMMA CallFarInv ==
    ASSUME NEW b \in Words, StackInv(b), NEW n \in Nat, Fetch,
           Opens("far", 4, ip + n, 0), Store(pushw2(Stack, cs, (ip + n) % Word)),
           ip' \in Nat, flags' = flags, cs' \in Words
    PROVE  StackInv(b)'
<1> DEFINE w == (ip + n) % Word
<1>1. ip \in Nat /\ ip + n \in Nat /\ 0 \in Words /\ cs \in Words
  <2>1. ip \in Nat /\ cs \in Words
    BY Present
  <2> QED BY <2>1, WordFacts DEF Words
<1>2. w \in Words
  BY <1>1, ModWord
<1>3. Saved(Opened("far", ip + n, 0)) = <<cs, w>>
  BY DEF Opened, Saved
<1> HIDE DEF w
<1>4. "far" \in Kinds \ {"frame"} /\ flags' \in 0..1
  BY Present DEF Kinds
<1>5. Store(pushw2(Stack, cs, w))
  BY DEF w
<1> QED BY <1>1, <1>2, <1>3, <1>4, <1>5, PushesTwo

\* The frame of an interrupt.
LEMMA InterruptInv ==
    ASSUME NEW b \in Words, StackInv(b), NEW t \in Targets, NEW n \in {0, 2}, go_int_frame(t, n)
    PROVE  StackInv(b)'
<1> DEFINE w == (ip + n) % Word
<1>1. ip \in Nat /\ n \in Nat /\ ip + n \in Nat /\ 0 \in Words /\ cs \in Words /\ flags \in Words
  BY Present, WordFacts DEF Words
<1>2. w \in Words
  BY <1>1, ModWord
<1>3. Saved(Opened("int", ip + n, 0)) = <<flags, cs, w>>
  BY DEF Opened, Saved
<1>4. /\ Fetch /\ Opens("int", 6, ip + n, 0) /\ Store(pushw3(Stack, flags, cs, w))
      /\ flags' = 0 /\ cs' = t.seg /\ ip' = t.ofs
  BY DEF go_int_frame
<1> HIDE DEF w
<1>5. t.seg \in Words /\ t.ofs \in Nat
  BY OperandAssumption, WordFacts DEF Words
<1>6. "int" \in Kinds \ {"frame"} /\ flags' \in 0..1 /\ cs' \in Words /\ ip' \in Nat
  BY <1>4, <1>5 DEF Kinds
<1> QED BY <1>1, <1>2, <1>3, <1>4, <1>6, PushesThree

\* PUSHA: eight words, the fifth of them SP.
LEMMA PushaInv ==
    ASSUME NEW b \in Words, StackInv(b), Exec_pusha
    PROVE  StackInv(b)'
<1> DEFINE p == pushw3(Stack, reg["ax"], reg["cx"], reg["dx"])
           q == pushw(p, reg["bx"])
           sp == IF decrement_sp_before_store THEN q.sp ELSE reg["sp"]
           r == pushw(q, sp)
           s == pushw3(r, reg["bp"], reg["si"], reg["di"])
           e == Opened("all", ip, sp)
           d == depth
<1>1. /\ Fetch /\ Opens("all", 16, ip, sp) /\ Store(s)
      /\ flags' = flags /\ cs' = cs /\ ip' = ip + 1
  BY DEF Exec_pusha
<1>2. d + 16 <= Word
  BY DEF Exec_pusha, Opens, Room
<1>3. Stacked(Stack, b, d) /\ Stack.mem = mem /\ d \in Nat /\ Even(d)
  BY Present
<1>4. /\ d + 6 \in Nat /\ Even(d + 6) /\ d + 6 <= Word
      /\ d + 8 \in Nat /\ Even(d + 8) /\ d + 8 <= Word /\ (d + 6) + 2 = d + 8
      /\ d + 10 \in Nat /\ Even(d + 10) /\ d + 10 <= Word /\ (d + 8) + 2 = d + 10
      /\ (d + 10) + 2 = d + 12 /\ (d + 10) + 4 = d + 14 /\ (d + 10) + 6 = d + 16
  <2> HIDE DEF d
  <2> QED BY <1>2, <1>3, WordFacts DEF Even
<1>5. \A x \in Regs : reg[x] \in Words
  BY Present
<1>6. /\ reg["ax"] \in Words /\ reg["cx"] \in Words /\ reg["dx"] \in Words /\ reg["bx"] \in Words
      /\ reg["bp"] \in Words /\ reg["si"] \in Words /\ reg["di"] \in Words /\ reg["sp"] \in Words
  BY <1>5 DEF Regs, General
<1>7. Saved(e) = <<reg["ax"], reg["cx"], reg["dx"], reg["bx"], sp, reg["bp"], reg["si"], reg["di"]>>
  BY DEF Opened, Saved
<1> HIDE DEF d, e
<1>8. /\ Stacked(p, b, d + 6) /\ Keeps(mem, p.mem, b, d)
      /\ WordIn(p.mem, At(b, d + 2)) = reg["ax"] /\ WordIn(p.mem, At(b, d + 4)) = reg["cx"]
      /\ WordIn(p.mem, At(b, d + 6)) = reg["dx"]
  <2>1. /\ Stacked(p, b, d + 6) /\ Keeps(Stack.mem, p.mem, b, d)
        /\ WordIn(p.mem, At(b, d + 2)) = reg["ax"] /\ WordIn(p.mem, At(b, d + 4)) = reg["cx"]
        /\ WordIn(p.mem, At(b, d + 6)) = reg["dx"]
    <3>1. ASSUME NEW u \in Words, NEW v \in Words, NEW w \in Words
          PROVE  /\ Stacked(pushw3(Stack, u, v, w), b, d + 6)
                 /\ Keeps(Stack.mem, pushw3(Stack, u, v, w).mem, b, d)
                 /\ WordIn(pushw3(Stack, u, v, w).mem, At(b, d + 2)) = u
                 /\ WordIn(pushw3(Stack, u, v, w).mem, At(b, d + 4)) = v
                 /\ WordIn(pushw3(Stack, u, v, w).mem, At(b, d + 6)) = w
      BY <1>3, <1>4, Pushw3Stores
    <3>2. reg["ax"] \in Words /\ reg["cx"] \in Words /\ reg["dx"] \in Words
      BY <1>6
    <3> HIDE DEF q, sp, r, s
    <3>3. Stacked(p, b, d + 6)
       BY <3>1, <3>2
    <3>4. Keeps(Stack.mem, p.mem, b, d)
       BY <3>1, <3>2
    <3>5. WordIn(p.mem, At(b, d + 2)) = reg["ax"]
       BY <3>1, <3>2
    <3>6. WordIn(p.mem, At(b, d + 4)) = reg["cx"]
       BY <3>1, <3>2
    <3>7. WordIn(p.mem, At(b, d + 6)) = reg["dx"]
       BY <3>1, <3>2
    <3> QED BY <3>3, <3>4, <3>5, <3>6, <3>7
  <2> QED BY <1>3, <2>1
<1> HIDE DEF p
<1>9. /\ Stacked(q, b, d + 8) /\ Keeps(p.mem, q.mem, b, d + 6)
      /\ WordIn(q.mem, At(b, d + 8)) = reg["bx"]
  BY <1>4, <1>6, <1>8, PushwStores
<1> HIDE DEF q
<1>10. sp \in Words
  <2>1. q.sp \in Words
    BY <1>4, <1>9, AtType DEF Stacked
  <2> QED BY <1>6, <2>1
<1> HIDE DEF sp
<1>11. /\ Stacked(r, b, d + 10) /\ Keeps(q.mem, r.mem, b, d + 8)
       /\ WordIn(r.mem, At(b, d + 10)) = sp
  BY <1>4, <1>9, <1>10, PushwStores
<1> HIDE DEF r
<1>12. /\ Stacked(s, b, d + 16) /\ Keeps(r.mem, s.mem, b, d + 10)
       /\ WordIn(s.mem, At(b, d + 12)) = reg["bp"] /\ WordIn(s.mem, At(b, d + 14)) = reg["si"]
       /\ WordIn(s.mem, At(b, d + 16)) = reg["di"]
  <2>1. /\ d + 10 \in Nat /\ Even(d + 10) /\ (d + 10) + 6 <= Word
        /\ reg["bp"] \in Words /\ reg["si"] \in Words /\ reg["di"] \in Words
    BY <1>2, <1>4, <1>6
  <2>2. /\ Stacked(s, b, (d + 10) + 6) /\ Keeps(r.mem, s.mem, b, d + 10)
        /\ WordIn(s.mem, At(b, (d + 10) + 2)) = reg["bp"]
        /\ WordIn(s.mem, At(b, (d + 10) + 4)) = reg["si"]
        /\ WordIn(s.mem, At(b, (d + 10) + 6)) = reg["di"]
    <3>1. ASSUME NEW u \in Words, NEW v \in Words, NEW w \in Words
          PROVE  /\ Stacked(pushw3(r, u, v, w), b, (d + 10) + 6)
                 /\ Keeps(r.mem, pushw3(r, u, v, w).mem, b, d + 10)
                 /\ WordIn(pushw3(r, u, v, w).mem, At(b, (d + 10) + 2)) = u
                 /\ WordIn(pushw3(r, u, v, w).mem, At(b, (d + 10) + 4)) = v
                 /\ WordIn(pushw3(r, u, v, w).mem, At(b, (d + 10) + 6)) = w
      BY <1>11, <2>1, Pushw3Stores
    <3> QED BY <2>1, <3>1
  <2> QED BY <1>4, <2>2
<1> HIDE DEF s
<1>13. Keeps(q.mem, s.mem, b, d + 8)
  <2>1. d + 8 <= d + 10
    BY <1>3
  <2> QED BY <1>4, <1>11, <1>12, <2>1, KeepsBoth
<1>14. Keeps(p.mem, s.mem, b, d + 6)
  <2>1. d + 6 <= d + 8
    BY <1>3
  <2> QED BY <1>4, <1>9, <1>13, <2>1, KeepsBoth
<1>15. Keeps(mem, s.mem, b, d)
  <2>1. d <= d + 6
    BY <1>3
  <2> QED BY <1>3, <1>4, <1>8, <1>14, <2>1, KeepsBoth
<1>16. /\ WordIn(s.mem, At(b, d + 2)) = reg["ax"] /\ WordIn(s.mem, At(b, d + 4)) = reg["cx"]
       /\ WordIn(s.mem, At(b, d + 6)) = reg["dx"] /\ WordIn(s.mem, At(b, d + 8)) = reg["bx"]
       /\ WordIn(s.mem, At(b, d + 10)) = sp
  <2>1. /\ d + 2 \in 2..d + 6 /\ d + 4 \in 2..d + 6 /\ d + 6 \in 2..d + 6
        /\ d + 8 \in 2..d + 8 /\ d + 10 \in 2..d + 10 /\ Even(d + 2) /\ Even(d + 4)
    BY <1>3 DEF Even
  <2>2. /\ WordIn(s.mem, At(b, d + 2)) = reg["ax"] /\ WordIn(s.mem, At(b, d + 4)) = reg["cx"]
        /\ WordIn(s.mem, At(b, d + 6)) = reg["dx"]
    BY <1>4, <1>8, <1>14, <2>1 DEF Keeps
  <2>3. WordIn(s.mem, At(b, d + 8)) = reg["bx"]
    BY <1>4, <1>9, <1>13, <2>1 DEF Keeps
  <2>4. WordIn(s.mem, At(b, d + 10)) = sp
    BY <1>4, <1>11, <1>12, <2>1 DEF Keeps
  <2> QED BY <2>2, <2>3, <2>4
<1>17. Len(Saved(e)) = 8
  BY <1>7
<1>18. \A i \in 1..8 : WordIn(s.mem, At(b, d + 2 * i)) = Saved(e)[i]
  <2>1. /\ Saved(e)[1] = reg["ax"] /\ Saved(e)[2] = reg["cx"] /\ Saved(e)[3] = reg["dx"]
        /\ Saved(e)[4] = reg["bx"] /\ Saved(e)[5] = sp /\ Saved(e)[6] = reg["bp"]
        /\ Saved(e)[7] = reg["si"] /\ Saved(e)[8] = reg["di"]
    BY <1>7
  <2>2. \A i \in 1..8 : i = 1 \/ i = 2 \/ i = 3 \/ i = 4 \/ i = 5 \/ i = 6 \/ i = 7 \/ i = 8
    OBVIOUS
  <2>3. /\ 2 * 1 = 2 /\ 2 * 2 = 4 /\ 2 * 3 = 6 /\ 2 * 4 = 8 /\ 2 * 5 = 10 /\ 2 * 6 = 12
        /\ 2 * 7 = 14 /\ 2 * 8 = 16
    OBVIOUS
  <2>4. /\ WordIn(s.mem, At(b, d + 2 * 1)) = Saved(e)[1] /\ WordIn(s.mem, At(b, d + 2 * 2)) = Saved(e)[2]
        /\ WordIn(s.mem, At(b, d + 2 * 3)) = Saved(e)[3] /\ WordIn(s.mem, At(b, d + 2 * 4)) = Saved(e)[4]
        /\ WordIn(s.mem, At(b, d + 2 * 5)) = Saved(e)[5] /\ WordIn(s.mem, At(b, d + 2 * 6)) = Saved(e)[6]
        /\ WordIn(s.mem, At(b, d + 2 * 7)) = Saved(e)[7] /\ WordIn(s.mem, At(b, d + 2 * 8)) = Saved(e)[8]
    BY <1>12, <1>16, <2>1, <2>3
  <2> QED BY <2>2, <2>4
<1>19. Stores(s.mem, b, e) /\ 16 = 2 * Len(Saved(e))
  BY <1>12, <1>15, <1>17, <1>18 DEF Stores, Stacked, d
<1>20. "all" \in Kinds \ {"frame"} /\ ip \in Nat /\ ip' \in Nat /\ flags' \in 0..1 /\ cs' \in Words
  BY <1>1, Present DEF Kinds
<1> QED BY <1>1, <1>10, <1>12, <1>19, <1>20, StoreInv DEF e, d

\* States of the stack that pushw takes and gives.
Stacks == [sp : Words, mem : Mem]

\* pushw of a word gives a state of the stack.
LEMMA PushwType == ASSUME NEW s \in Stacks, NEW w \in Words PROVE pushw(s, w) \in Stacks
<1> DEFINE a == (s.sp - 2) % Word
           lo == w % Byte
           hi == (w \div Byte) % Byte
<1>1. a \in Words
  <2>1. s.sp - 2 \in Int
    BY WordFacts DEF Stacks, Words
  <2> QED BY <2>1, ModWord
<1>2. lo \in 0..Byte - 1 /\ hi \in 0..Byte - 1
  BY WordSplit
<1>3. pushw(s, w) = [sp |-> a, mem |-> [s.mem EXCEPT ![a] = lo, ![a + 1] = hi]]
  BY Zenon DEF pushw
<1>4. s.mem \in Mem
  BY DEF Stacks
<1> HIDE DEF a, lo, hi
<1>5. [s.mem EXCEPT ![a] = lo, ![a + 1] = hi] \in Mem
  BY <1>2, <1>4 DEF Mem
<1> QED BY <1>1, <1>3, <1>5 DEF Stacks

\* The loop of ENTER pushes l - 1 words.
LEMMA DisplayStores ==
    ASSUME NEW b \in Words, NEW d \in Nat, Even(d), NEW s \in Stacks, Stacked(s, b, d),
           NEW l \in Nat \ {0}, d + 2 * (l - 1) <= Word, reg["bp"] \in Words
    PROVE  /\ Stacked(Display(s, l), b, d + 2 * (l - 1))
           /\ Keeps(s.mem, Display(s, l).mem, b, d)
<1> DEFINE W(i) == (reg["bp"] - 2 * i) % Word
           IsLoop(f) == f = [i \in Nat |-> IF i = 0 THEN s ELSE pushw(f[i - 1], W(i))]
           D == CHOOSE f : IsLoop(f)
<1>1. Display(s, l) = D[l - 1]
  BY DEF Display
<1>2. ASSUME NEW i \in Nat PROVE W(i) \in Words
  <2>1. reg["bp"] - 2 * i \in Int
    BY WordFacts DEF Words
  <2> QED BY <2>1, ModWord
<1> HIDE DEF W
<1>3. \E f : IsLoop(f)
  <2> DEFINE G == [p \in Stacks \X Nat |-> pushw(p[1], W(p[2] + 1))]
  <2>1. G \in [Stacks \X Nat -> Stacks]
    <3>1. ASSUME NEW p \in Stacks \X Nat PROVE pushw(p[1], W(p[2] + 1)) \in Stacks
      BY <1>2, PushwType
    <3> QED BY <3>1
  <2>2. \A x \in Stacks, n \in Nat : G[<<x, n>>] = pushw(x, W(n + 1))
    OBVIOUS
  <2> HIDE DEF G
  <2>3. PICK f \in [Nat -> Stacks] : f[0] = s /\ \A n \in Nat : f[n + 1] = G[<<f[n], n>>]
    <3>1. IsRecursion(Stacks, s, G)
      BY <2>1 DEF IsRecursion
    <3> QED BY <3>1, RecursiveSequence
  <2>4. ASSUME NEW i \in Nat PROVE f[i] = IF i = 0 THEN s ELSE pushw(f[i - 1], W(i))
    <3>1. CASE i = 0
      BY <2>3, <3>1
    <3>2. CASE i # 0
      <4>1. i - 1 \in Nat /\ (i - 1) + 1 = i
        BY <3>2
      <4>2. f[(i - 1) + 1] = G[<<f[i - 1], i - 1>>] /\ f[i - 1] \in Stacks
        BY <2>3, <4>1
      <4>3. G[<<f[i - 1], i - 1>>] = pushw(f[i - 1], W((i - 1) + 1))
        BY <2>2, <4>1, <4>2
      <4> QED BY <3>2, <4>1, <4>2, <4>3
    <3> QED BY <3>1, <3>2
  <2>5. IsLoop(f)
    BY <2>3, <2>4
  <2> QED BY <2>5
<1>4. IsLoop(D)
  BY <1>3
<1>5. D[0] = s /\ \A i \in Nat : D[i + 1] = pushw(D[i], W(i + 1))
  <2>1. \A i \in Nat : D[i] = IF i = 0 THEN s ELSE pushw(D[i - 1], W(i))
    BY <1>4
  <2> HIDE DEF D
  <2>2. D[0] = s
    BY <2>1
  <2>3. ASSUME NEW i \in Nat PROVE D[i + 1] = pushw(D[i], W(i + 1))
    <3>1. i + 1 \in Nat /\ i + 1 # 0 /\ (i + 1) - 1 = i
      OBVIOUS
    <3> QED BY <2>1, <3>1
  <2> QED BY <2>2, <2>3
<1> HIDE DEF D
<1> DEFINE Good(i) == d + 2 * i <= Word
                      => Stacked(D[i], b, d + 2 * i) /\ Keeps(s.mem, D[i].mem, b, d)
           S == {i \in Nat : Good(i)}
<1>6. 0 \in S
  BY <1>5 DEF Keeps
<1>7. ASSUME NEW i \in Nat, i \in S PROVE i + 1 \in S
  <2>1. SUFFICES ASSUME d + 2 * (i + 1) <= Word
                 PROVE  Stacked(D[i + 1], b, d + 2 * (i + 1)) /\ Keeps(s.mem, D[i + 1].mem, b, d)
    OBVIOUS
  <2> DEFINE c == d + 2 * i
  <2>2. c \in Nat /\ Even(c) /\ c + 2 <= Word /\ c + 2 = d + 2 * (i + 1) /\ d <= c
    BY <2>1 DEF Even
  <2>3. Stacked(D[i], b, c) /\ Keeps(s.mem, D[i].mem, b, d)
    <3>1. d + 2 * i <= Word
      BY <2>1, WordFacts
    <3>2. Good(i)
      BY <1>7
    <3> HIDE DEF c
    <3> QED BY <3>1, <3>2 DEF c
  <2> HIDE DEF c
  <2>4. W(i + 1) \in Words /\ D[i + 1] = pushw(D[i], W(i + 1))
    BY <1>2, <1>5
  <2>5. Stacked(D[i + 1], b, c + 2) /\ Keeps(D[i].mem, D[i + 1].mem, b, c)
    BY <2>2, <2>3, <2>4, PushwStores
  <2>6. Keeps(s.mem, D[i + 1].mem, b, d)
    BY <2>2, <2>3, <2>5, KeepsBoth
  <2> QED BY <2>2, <2>5, <2>6
<1>8. l - 1 \in S
  <2>1. S = Nat
    <3> HIDE DEF Good
    <3>1. S \subseteq Nat
      OBVIOUS
    <3> HIDE DEF S
    <3> QED BY <1>6, <1>7, <3>1, NatSetInduction
  <2> QED BY <2>1
<1> QED BY <1>1, <1>8

\* ENTER: the frame has the word it pushed first, and BP points to it.
LEMMA EnterInv ==
    ASSUME NEW b \in Words, StackInv(b), NEW size \in Sizes, NEW l \in Levels, Enter(size, l)
    PROVE  StackInv(b)'
<1> DEFINE s == pushw(Stack, reg["bp"])
           t == IF l > 0 THEN pushw(Display(s, l), s.sp) ELSE s
           e == Opened("frame", ip, 0)
           d == depth
<1>1. /\ Fetch /\ Opens("frame", 2 + size, ip, 0) /\ mem' = t.mem /\ ip' = ip + 4
      /\ reg' = [reg EXCEPT !["bp"] = s.sp, !["sp"] = (s.sp - size) % Word]
      /\ flags' = flags /\ cs' = cs /\ d + (2 + 2 * l) <= Word
  BY DEF Enter, Room
<1>2. size \in Nat /\ size % 2 = 0 /\ l \in Nat
  BY OperandAssumption
<1>3. /\ Stacked(Stack, b, d) /\ Stack.mem = mem /\ d \in Nat /\ Even(d) /\ mem \in Mem
      /\ reg \in [Regs -> Words] /\ reg["bp"] \in Words /\ reg["sp"] \in Words
      /\ ip \in Nat /\ flags \in 0..1 /\ cs \in Words
  BY Present DEF Regs
<1> HIDE DEF d
<1>4. d + 2 <= Word /\ d + 2 \in Nat /\ Even(d + 2)
  BY <1>1, <1>2, <1>3, WordFacts DEF Even
<1>5. /\ Stacked(s, b, d + 2) /\ Keeps(mem, s.mem, b, d)
      /\ WordIn(s.mem, At(b, d + 2)) = reg["bp"]
  <2>1. /\ Stacked(s, b, d + 2) /\ Keeps(Stack.mem, s.mem, b, d)
        /\ WordIn(s.mem, At(b, d + 2)) = reg["bp"]
    BY <1>3, <1>4, PushwStores
  <2> QED BY <1>3, <2>1
<1>6. s \in Stacks
  <2>1. Stack \in Stacks
    BY <1>3 DEF Stack, Stacks
  <2> QED BY <1>3, <2>1, PushwType
<1> HIDE DEF s
<1>7. t.mem \in Mem /\ Keeps(s.mem, t.mem, b, d + 2)
  <2>1. CASE l = 0
    <3>1. t = s
      BY <2>1
    <3> HIDE DEF t
    <3>2. Keeps(s.mem, s.mem, b, d + 2) /\ s.mem \in Mem
      BY <1>5 DEF Keeps, Stacked
    <3> QED BY <3>1, <3>2
  <2>2. CASE l # 0
    <3> DEFINE u == Display(s, l)
               c == (d + 2) + 2 * (l - 1)
    <3>1. /\ l \in Nat \ {0} /\ c <= Word /\ c \in Nat /\ Even(c) /\ c + 2 <= Word /\ d + 2 <= c
      BY <1>1, <1>2, <1>3, <2>2, WordFacts DEF Even
    <3>2. Stacked(u, b, c) /\ Keeps(s.mem, u.mem, b, d + 2)
      BY <1>3, <1>4, <1>5, <1>6, <3>1, DisplayStores
    <3>3. t = pushw(u, s.sp)
      BY <1>2, <2>2
    <3> HIDE DEF u, c, t
    <3>4. s.sp \in Words
      BY <1>6 DEF Stacks
    <3>5. Stacked(t, b, c + 2) /\ Keeps(u.mem, t.mem, b, c)
      BY <3>1, <3>2, <3>3, <3>4, PushwStores
    <3>6. Keeps(s.mem, t.mem, b, d + 2)
      BY <1>4, <3>1, <3>2, <3>5, KeepsBoth
    <3> QED BY <3>5, <3>6 DEF Stacked
  <2> QED BY <2>1, <2>2
<1> HIDE DEF t
<1>8. Keeps(mem, t.mem, b, d)
  <2>1. d <= d + 2
    BY <1>3
  <2> QED BY <1>3, <1>4, <1>5, <1>7, <2>1, KeepsBoth
<1>9. WordIn(t.mem, At(b, d + 2)) = reg["bp"]
  <2>1. d + 2 \in 2..d + 2
    BY <1>3
  <2> QED BY <1>4, <1>5, <1>7, <2>1 DEF Keeps
<1>10. Saved(e) = <<reg["bp"]>> /\ e.kind = "frame"
  BY DEF Opened, Saved
<1> HIDE DEF e
<1>11. Len(Saved(e)) = 1 /\ Saved(e)[1] = reg["bp"]
  BY <1>10
<1>12. Fits(2 + size, e)
  BY <1>2, <1>10, <1>11 DEF Fits
<1>13. Stores(mem', b, e)
  BY <1>1, <1>7, <1>8, <1>9, <1>11 DEF Stores, d
<1>14. s.sp = At(b, d + 2) /\ s.sp \in Words
  BY <1>5, <1>6 DEF Stacked, Stacks
<1>15. (s.sp - size) % Word = At(b, d + (2 + size)) /\ (s.sp - size) % Word \in Words
  <2>1. (At(b, d + 2) - size) % Word = At(b, (d + 2) + size)
    <3>1. size \in Int /\ d + 2 \in Int
      BY <1>2, <1>4
    <3> QED BY <3>1, AtMoves
  <2>2. (d + 2) + size = d + (2 + size) /\ d + (2 + size) \in Int
    BY <1>2, <1>3
  <2>3. At(b, d + (2 + size)) \in Words
    BY <2>2, AtType
  <2> QED BY <1>14, <2>1, <2>2, <2>3
<1>16. /\ reg' \in [Regs -> Words] /\ reg'["sp"] = At(b, depth + (2 + size))
       /\ reg'["bp"] = IF "frame" = "frame" THEN At(b, depth + 2) ELSE reg["bp"]
  BY <1>1, <1>3, <1>14, <1>15 DEF Regs, d
<1>17. /\ "frame" \in Kinds /\ 2 + size \in Nat /\ 0 \in Words /\ Even(2 + size)
       /\ cs' \in Words /\ flags' \in 0..1 /\ ip' \in Nat
  BY <1>1, <1>2, <1>3, WordFacts DEF Kinds, Words, Even
<1> QED BY <1>1, <1>3, <1>12, <1>13, <1>16, <1>17, OpensInv DEF e

-----------------------------------------------------------------------------
(***************************************************************************)
(* What popw finds.                                                        *)
(***************************************************************************)
\* The k-th word from the top is k words further up.
LEMMA PoppedFound ==
    ASSUME NEW b \in Words, StackInv(b), NEW k \in Nat
    PROVE  Popped(k) = WordIn(mem, At(b, depth - 2 * k))
<1>1. reg["sp"] = At(b, depth) /\ depth \in Int /\ 2 * k \in Int
  BY Present
<1>2. (At(b, depth) + 2 * k) % Word = At(b, depth - 2 * k)
  BY <1>1, AtMoves
<1> QED BY <1>1, <1>2 DEF Popped, WordAt, WordIn

\* SP after n bytes.
LEMMA AboveMoves ==
    ASSUME NEW b \in Words, StackInv(b), NEW n \in Nat
    PROVE  Above(n) = At(b, depth - n) /\ Above(n) \in Words
<1>1. reg["sp"] = At(b, depth) /\ depth \in Int /\ n \in Int /\ depth - n \in Int
  BY Present
<1>2. (At(b, depth) + n) % Word = At(b, depth - n) /\ At(b, depth - n) \in Words
  BY <1>1, AtMoves, AtType
<1> QED BY <1>1, <1>2 DEF Above

\* The words of the innermost opening are those on top, its last word first, and
\* SP above them is the SP it found.
LEMMA InnermostFound ==
    ASSUME NEW b \in Words, StackInv(b), NEW kind \in Kinds \ {"frame"}, Innermost(kind),
           NEW e, e = open[1]
    PROVE  /\ 1 \in 1..Len(open) /\ Head(open) = e /\ e \in Opening /\ e.kind = kind
           /\ Len(Saved(e)) \in Nat /\ e.depth \in Nat
           /\ \A k \in 0..Len(Saved(e)) - 1 :
                 Popped(k) = Saved(e)[Len(Saved(e)) - k] /\ Popped(k) \in Words
           /\ depth = e.depth + 2 * Len(Saved(e)) /\ e.reg["sp"] = At(b, e.depth)
           /\ e.reg["bp"] = reg["bp"]
<1>1. /\ open \in Seq(Opening) /\ Nested(open, depth) /\ Imaged(open, mem, b)
      /\ FramesLinked(open, reg["bp"], b)
  BY DEF StackInv, TypeOK
<1>2. 1 \in 1..Len(open) /\ Head(open) = e /\ e \in Opening /\ e.kind = kind
  BY <1>1 DEF Innermost
<1>3. Len(Saved(e)) \in Nat /\ \A i \in 1..Len(Saved(e)) : Saved(e)[i] \in Words
  BY <1>2, SavedFacts
<1>4. e.depth \in Nat
  BY <1>2, WordFacts DEF Opening
<1>5. depth = e.depth + 2 * Len(Saved(e))
  <2>1. DepthAt(open, depth, 1 - 1) = open[1].depth + 2 * Len(Saved(open[1]))
    BY <1>1, <1>2 DEF Nested
  <2> QED BY <2>1 DEF DepthAt
<1>6. /\ e.reg["sp"] = At(b, e.depth)
      /\ \A i \in 1..Len(Saved(e)) : WordIn(mem, At(b, e.depth + 2 * i)) = Saved(e)[i]
  BY <1>1, <1>2 DEF Imaged
<1>7. ASSUME NEW k \in 0..Len(Saved(e)) - 1
      PROVE  Popped(k) = Saved(e)[Len(Saved(e)) - k] /\ Popped(k) \in Words
  <2> DEFINE i == Len(Saved(e)) - k
  <2>1. k \in Nat /\ i \in 1..Len(Saved(e)) /\ depth - 2 * k = e.depth + 2 * i
    BY <1>3, <1>4, <1>5
  <2> HIDE DEF i
  <2>2. Popped(k) = WordIn(mem, At(b, e.depth + 2 * i))
    BY <2>1, PoppedFound
  <2> QED BY <1>3, <1>6, <2>1, <2>2 DEF i
<1>8. e.reg["bp"] = reg["bp"]
  <2>1. 0 \in 0..1 - 1 /\ \A i \in 0 + 1..1 - 1 : open[i].kind # "frame"
    OBVIOUS
  <2>2. BPAt(open, reg["bp"], 0) = open[1].reg["bp"]
    BY <1>1, <1>2, <2>1 DEF FramesLinked
  <2> QED BY <2>2 DEF BPAt
<1> QED BY <1>2, <1>3, <1>4, <1>5, <1>6, <1>7, <1>8

\* Argument words below a call lie side by side, so dropping n bytes of them
\* drops whole openings, none of which moved BP.
LEMMA ArgumentsDropped ==
    ASSUME NEW b \in Words, StackInv(b), NEW kind \in Kinds \ {"frame"}, Innermost(kind),
           NEW n \in Nat, Even(n), Arguments(n), Closes(1, n)
    PROVE  \E j \in 1..Len(open) :
              /\ open' = SubSeq(open, j + 1, Len(open)) /\ depth' = open[j].depth
              /\ open[j].depth = open[1].depth - n /\ open[j].reg["bp"] = reg["bp"]
              /\ \A i \in 2..j : open[i].kind = "word"
<1> DEFINE h == n \div 2
           j == 1 + h
<1>1. h \in Nat /\ n = 2 * h
  BY DEF Even
<1>2. open' = SubSeq(open, 1 + 1 + h, Len(open)) /\ depth' = open[1].depth - n
  BY DEF Closes
<1>3. \A i \in 2..h + 1 : i <= Len(open) /\ open[i].kind = "word"
  BY DEF Arguments
<1> HIDE DEF h
<1>4. 1 \in 1..Len(open) /\ open[1] \in Opening /\ open[1].kind = kind /\ open[1].depth \in Nat
  BY InnermostFound
<1>5. /\ open \in Seq(Opening) /\ Nested(open, depth) /\ FramesLinked(open, reg["bp"], b)
  BY DEF StackInv, TypeOK
<1>6. j \in 1..Len(open) /\ 1 + 1 + h = j + 1 /\ h + 1 = j
  <2>1. CASE h = 0
    BY <1>4, <2>1
  <2>2. CASE h # 0
    <3>1. h + 1 \in 2..h + 1
      BY <1>1, <2>2
    <3>2. h + 1 <= Len(open)
      BY <1>3, <3>1
    <3> QED BY <1>1, <3>2
  <2> QED BY <2>1, <2>2
<1> HIDE DEF j
<1>7. open[j] \in Opening /\ open[j].depth \in Nat
  <2>1. open[j] \in Opening
    BY <1>5, <1>6
  <2> QED BY <2>1, WordFacts DEF Opening
<1>8. open[j].depth = open[1].depth - n
  <2>1. CASE j = 1
    BY <1>1, <1>4, <1>6, <2>1
  <2>2. CASE j # 1
    <3>1. 1 \in 0..j - 1 /\ \A i \in 1 + 1..j : open[i].kind = "word"
      BY <1>3, <1>6, <2>2
    <3>2. DepthAt(open, depth, 1) = open[j].depth + 2 * (j - 1)
      BY <1>5, <1>6, <3>1 DEF Nested
    <3> QED BY <1>1, <1>4, <1>6, <1>7, <3>2 DEF DepthAt
  <2> QED BY <2>1, <2>2
<1>9. \A i \in 1..j : open[i].kind # "frame"
  <2>1. ASSUME NEW i \in 1..j PROVE open[i].kind # "frame"
    <3>1. CASE i = 1
      BY <1>4, <3>1
    <3>2. CASE i # 1
      BY <1>3, <1>6, <3>2
    <3> QED BY <3>1, <3>2
  <2> QED BY <2>1
<1>10. open[j].reg["bp"] = reg["bp"]
  <2>1. 0 \in 0..j - 1 /\ (\A i \in 0 + 1..j - 1 : open[i].kind # "frame") /\ open[j].kind # "frame"
    BY <1>6, <1>9
  <2>2. BPAt(open, reg["bp"], 0) = open[j].reg["bp"]
    BY <1>5, <1>6, <2>1 DEF FramesLinked
  <2> QED BY <2>2 DEF BPAt
<1>11. \A i \in 2..j : open[i].kind = "word"
  BY <1>3, <1>6
<1>12. open' = SubSeq(open, j + 1, Len(open)) /\ depth' = open[j].depth
  BY <1>2, <1>6, <1>8
<1> QED BY <1>6, <1>8, <1>10, <1>11, <1>12

\* An instruction that closes the innermost opening, with n bytes of arguments.
LEMMA ReturnInv ==
    ASSUME NEW b \in Words, StackInv(b), Fetch,
           NEW kind \in Kinds \ {"frame"}, Innermost(kind),
           NEW n \in Nat, Even(n), Arguments(n), Closes(1, n), mem' = mem,
           reg' \in [Regs -> Words], reg'["sp"] = At(b, open[1].depth - n), reg'["bp"] = reg["bp"],
           cs' = IF kind \in {"far", "int"} THEN open[1].cs ELSE cs,
           flags' \in 0..1, ip' \in Nat
    PROVE  StackInv(b)'
<1>1. PICK j \in 1..Len(open) :
              /\ open' = SubSeq(open, j + 1, Len(open)) /\ depth' = open[j].depth
              /\ open[j].depth = open[1].depth - n /\ open[j].reg["bp"] = reg["bp"]
              /\ \A i \in 2..j : open[i].kind = "word"
  BY ArgumentsDropped
<1>2. open[1].kind = kind
  BY InnermostFound
<1>3. \E m \in 0..j : /\ \A i \in m + 1..j : open[i].kind \notin {"far", "int"}
                      /\ cs' = CSAt(open, cs, m)
  <2>1. CASE kind \in {"far", "int"}
    <3>1. \A i \in 1 + 1..j : open[i].kind \notin {"far", "int"}
      BY <1>1
    <3>2. cs' = CSAt(open, cs, 1) /\ 1 \in 0..j
      BY <2>1 DEF CSAt
    <3> QED BY <3>1, <3>2
  <2>2. CASE kind \notin {"far", "int"}
    <3>1. ASSUME NEW i \in 0 + 1..j PROVE open[i].kind \notin {"far", "int"}
      <4>1. i = 1 \/ i \in 2..j
        OBVIOUS
      <4> QED BY <1>1, <1>2, <2>2, <4>1
    <3>2. cs' = CSAt(open, cs, 0) /\ 0 \in 0..j
      BY <2>2 DEF CSAt
    <3> QED BY <3>1, <3>2
  <2> QED BY <2>1, <2>2
<1>4. PICK m \in 0..j : /\ \A i \in m + 1..j : open[i].kind \notin {"far", "int"}
                        /\ cs' = CSAt(open, cs, m)
  BY <1>3
<1>5. reg'["sp"] = At(b, open[j].depth) /\ reg'["bp"] = open[j].reg["bp"]
  BY <1>1
<1> QED BY <1>1, <1>4, <1>5, ClosesInv

\* Closing with nothing below to discard.
LEMMA NoArguments == Arguments(0) /\ Even(0)
  BY DEF Arguments, Even

\* SP above the words of the innermost opening and n bytes of arguments.
LEMMA ReturnSP ==
    ASSUME NEW b \in Words, StackInv(b), NEW kind \in Kinds \ {"frame"}, Innermost(kind), NEW n \in Nat,
           NEW k \in Nat, k = (2 * Len(Saved(open[1]))) + n
    PROVE  Above(k) = At(b, open[1].depth - n) /\ Above(k) \in Words
<1> DEFINE e == open[1]
<1>1. e.depth \in Nat /\ Len(Saved(e)) \in Nat /\ depth = e.depth + 2 * Len(Saved(e))
  BY InnermostFound
<1>2. depth - k = e.depth - n
  BY <1>1
<1>3. Above(k) = At(b, depth - k) /\ Above(k) \in Words
  BY AboveMoves
<1> QED BY <1>2, <1>3

\* POP of a general register.
LEMMA PopInv ==
    ASSUME NEW b \in Words, StackInv(b), NEW r \in Pushed \cap General, Exec_pop(r)
    PROVE  StackInv(b)'
<1>1. /\ Fetch /\ ip' = ip + 1 /\ Innermost("word") /\ Closes(1, 0)
      /\ reg' = [reg EXCEPT !["sp"] = Above(2), ![r] = Popped(0)]
      /\ mem' = mem /\ flags' = flags /\ cs' = cs
  BY DEF Exec_pop
<1>2. "word" \in Kinds \ {"frame"}
  BY DEF Kinds
<1>3. /\ open[1] \in Opening /\ open[1].kind = "word"
      /\ \A k \in 0..Len(Saved(open[1])) - 1 : Popped(k) \in Words
  BY <1>1, <1>2, InnermostFound
<1>4. Len(Saved(open[1])) = 1
  BY <1>3, SavedFacts
<1>5. Popped(0) \in Words /\ 2 = (2 * Len(Saved(open[1]))) + 0
  BY <1>3, <1>4
<1>6. Above(2) = At(b, open[1].depth - 0) /\ Above(2) \in Words
  BY <1>1, <1>2, <1>5, ReturnSP
<1>7. reg \in [Regs -> Words] /\ ip \in Nat /\ flags \in 0..1
  BY Present
<1>8. r \in Regs /\ r # "sp" /\ r # "bp"
  BY DEF General, Regs
<1>9. reg' \in [Regs -> Words] /\ reg'["sp"] = At(b, open[1].depth - 0) /\ reg'["bp"] = reg["bp"]
  BY <1>1, <1>5, <1>6, <1>7, <1>8 DEF Regs
<1>10. /\ cs' = (IF "word" \in {"far", "int"} THEN open[1].cs ELSE cs)
       /\ flags' \in 0..1 /\ ip' \in Nat
  BY <1>1, <1>7
<1> QED BY <1>1, <1>2, <1>9, <1>10, NoArguments, ReturnInv

\* POPF.
LEMMA PopfInv ==
    ASSUME NEW b \in Words, StackInv(b), Exec_popf
    PROVE  StackInv(b)'
<1>1. /\ Fetch /\ ip' = ip + 1 /\ Innermost("flags") /\ Closes(1, 0)
      /\ reg' = [reg EXCEPT !["sp"] = Above(2)] /\ flags' = Popped(0)
      /\ mem' = mem /\ cs' = cs
  BY DEF Exec_popf
<1>2. "flags" \in Kinds \ {"frame"}
  BY DEF Kinds
<1>3. /\ open[1] \in Opening /\ open[1].kind = "flags"
      /\ \A k \in 0..Len(Saved(open[1])) - 1 : Popped(k) = Saved(open[1])[Len(Saved(open[1])) - k]
  BY <1>1, <1>2, InnermostFound
<1>4. Len(Saved(open[1])) = 1 /\ Saved(open[1])[1] = open[1].flags
  BY <1>3 DEF Saved
<1>5. Popped(0) \in 0..1 /\ 2 = (2 * Len(Saved(open[1]))) + 0
  <2>1. Popped(0) = open[1].flags
    BY <1>3, <1>4
  <2>2. open[1].flags \in 0..1
    BY <1>3 DEF Opening
  <2> QED BY <1>4, <2>1, <2>2
<1>6. Above(2) = At(b, open[1].depth - 0) /\ Above(2) \in Words
  BY <1>1, <1>2, <1>5, ReturnSP
<1>7. reg \in [Regs -> Words] /\ ip \in Nat
  BY Present
<1>8. reg' \in [Regs -> Words] /\ reg'["sp"] = At(b, open[1].depth - 0) /\ reg'["bp"] = reg["bp"]
  BY <1>1, <1>6, <1>7 DEF Regs
<1>9. /\ cs' = (IF "flags" \in {"far", "int"} THEN open[1].cs ELSE cs)
      /\ flags' \in 0..1 /\ ip' \in Nat
  BY <1>1, <1>5, <1>7
<1> QED BY <1>1, <1>2, <1>8, <1>9, NoArguments, ReturnInv

\* What POPA finds is what PUSHA saved.
LEMMA AllFound ==
    ASSUME NEW b \in Words, StackInv(b), Innermost("all"), NEW e, e = open[1]
    PROVE  /\ e \in Opening /\ Len(Saved(e)) = 8
           /\ Popped(0) = e.reg["di"] /\ Popped(1) = e.reg["si"] /\ Popped(2) = e.reg["bp"]
           /\ Popped(4) = e.reg["bx"] /\ Popped(5) = e.reg["dx"] /\ Popped(6) = e.reg["cx"]
           /\ Popped(7) = e.reg["ax"] /\ Above(16) = At(b, e.depth - 0) /\ Above(16) = e.reg["sp"]
           /\ e.reg["bp"] = reg["bp"]
<1>1. "all" \in Kinds \ {"frame"}
  BY DEF Kinds
<1>2. /\ e \in Opening /\ e.kind = "all" /\ e.depth \in Nat
      /\ \A k \in 0..Len(Saved(e)) - 1 : Popped(k) = Saved(e)[Len(Saved(e)) - k]
      /\ e.reg["sp"] = At(b, e.depth) /\ e.reg["bp"] = reg["bp"]
  BY <1>1, InnermostFound
<1>3. Saved(e) = <<e.reg["ax"], e.reg["cx"], e.reg["dx"], e.reg["bx"],
                   e.word, e.reg["bp"], e.reg["si"], e.reg["di"]>>
  BY <1>2 DEF Saved
<1>4. /\ Len(Saved(e)) = 8 /\ Saved(e)[8] = e.reg["di"] /\ Saved(e)[7] = e.reg["si"]
      /\ Saved(e)[6] = e.reg["bp"] /\ Saved(e)[4] = e.reg["bx"] /\ Saved(e)[3] = e.reg["dx"]
      /\ Saved(e)[2] = e.reg["cx"] /\ Saved(e)[1] = e.reg["ax"]
  BY <1>3
<1>5. \A k \in 0..7 : Popped(k) = Saved(e)[8 - k]
  BY <1>2, <1>4
<1>6. /\ Popped(0) = Saved(e)[8] /\ Popped(1) = Saved(e)[7] /\ Popped(2) = Saved(e)[6]
      /\ Popped(4) = Saved(e)[4] /\ Popped(5) = Saved(e)[3] /\ Popped(6) = Saved(e)[2]
      /\ Popped(7) = Saved(e)[1]
  BY <1>5
<1>7. Above(16) = At(b, e.depth - 0)
  <2>1. 16 = (2 * Len(Saved(open[1]))) + 0
    BY <1>4
  <2> QED BY <1>1, <2>1, ReturnSP
<1>8. e.depth - 0 = e.depth
  BY <1>2
<1> QED BY <1>2, <1>4, <1>6, <1>7, <1>8

\* POPA.
LEMMA PopaInv ==
    ASSUME NEW b \in Words, StackInv(b), Exec_popa
    PROVE  StackInv(b)' /\ reg' = open[1].reg
<1> DEFINE e == open[1]
<1>1. /\ Fetch /\ ip' = ip + 1 /\ Innermost("all") /\ Closes(1, 0)
      /\ reg' = [reg EXCEPT !["di"] = Popped(0), !["si"] = Popped(1), !["bp"] = Popped(2),
                            !["bx"] = Popped(4), !["dx"] = Popped(5), !["cx"] = Popped(6),
                            !["ax"] = Popped(7), !["sp"] = Above(16)]
      /\ mem' = mem /\ flags' = flags /\ cs' = cs
  BY DEF Exec_popa
<1>2. "all" \in Kinds \ {"frame"}
  BY DEF Kinds
<1>3. /\ e \in Opening /\ Len(Saved(e)) = 8
      /\ Popped(0) = e.reg["di"] /\ Popped(1) = e.reg["si"] /\ Popped(2) = e.reg["bp"]
      /\ Popped(4) = e.reg["bx"] /\ Popped(5) = e.reg["dx"] /\ Popped(6) = e.reg["cx"]
      /\ Popped(7) = e.reg["ax"] /\ Above(16) = At(b, e.depth - 0) /\ Above(16) = e.reg["sp"]
      /\ e.reg["bp"] = reg["bp"]
  BY <1>1, AllFound
<1>4. reg \in [Regs -> Words] /\ ip \in Nat /\ flags \in 0..1
  BY Present
<1>5. e.reg \in [Regs -> Words]
  BY <1>3 DEF Opening
<1> HIDE DEF e
<1>6. reg' = e.reg
  <2>1. \A r \in Regs : reg'[r] = e.reg[r]
    BY <1>1, <1>3, <1>4 DEF Regs, General
  <2>2. reg' \in [Regs -> Words]
    BY <1>1, <1>3, <1>4, <1>5 DEF Regs, General
  <2> QED BY <1>5, <2>1, <2>2
<1>7. reg' \in [Regs -> Words] /\ reg'["sp"] = At(b, open[1].depth - 0) /\ reg'["bp"] = reg["bp"]
  BY <1>3, <1>5, <1>6 DEF e
<1>8. /\ cs' = (IF "all" \in {"far", "int"} THEN open[1].cs ELSE cs)
      /\ flags' \in 0..1 /\ ip' \in Nat
  BY <1>1, <1>4
<1>9. StackInv(b)'
  BY <1>1, <1>2, <1>7, <1>8, NoArguments, ReturnInv
<1> QED BY <1>6, <1>9 DEF e

\* The last words of the innermost opening are its return address.
LEMMA ReturnFound ==
    ASSUME NEW b \in Words, StackInv(b), NEW kind \in {"near", "far", "int"}, Innermost(kind),
           NEW e, e = open[1]
    PROVE  /\ kind \in Kinds \ {"frame"} /\ e \in Opening /\ Head(open) = e
           /\ Popped(0) = e.ip % Word /\ Popped(0) \in Nat /\ e.reg["bp"] = reg["bp"]
           /\ kind = "near" => Len(Saved(e)) = 1 /\ cs = e.cs
           /\ kind = "far" => Len(Saved(e)) = 2 /\ Popped(1) = e.cs
           /\ kind = "int" => Len(Saved(e)) = 3 /\ Popped(1) = e.cs /\ Popped(2) = e.flags
<1>1. kind \in Kinds \ {"frame"}
  BY DEF Kinds
<1>2. /\ 1 \in 1..Len(open) /\ e \in Opening /\ Head(open) = e /\ e.kind = kind
      /\ Len(Saved(e)) \in Nat /\ e.reg["bp"] = reg["bp"]
      /\ \A k \in 0..Len(Saved(e)) - 1 :
            Popped(k) = Saved(e)[Len(Saved(e)) - k] /\ Popped(k) \in Words
  BY <1>1, InnermostFound
<1>3. ASSUME 0 \in 0..Len(Saved(e)) - 1 PROVE Popped(0) \in Nat
  BY <1>2, <1>3, WordFacts DEF Words
<1>4. CASE kind = "near"
  <2>1. Saved(e) = <<e.ip % Word>>
    BY <1>2, <1>4 DEF Saved
  <2>2. Len(Saved(e)) = 1 /\ Saved(e)[1] = e.ip % Word
    BY <2>1
  <2>3. Popped(0) = e.ip % Word /\ Popped(0) \in Nat
    BY <1>2, <1>3, <2>2
  <2>4. cs = e.cs
    <3>1. SegmentsKept(open, cs)
      BY DEF StackInv
    <3>2. 0 \in 0..1 - 1 /\ \A i \in 0 + 1..1 - 1 : open[i].kind \notin {"far", "int"}
      OBVIOUS
    <3>3. CSAt(open, cs, 0) = open[1].cs
      BY <1>2, <1>4, <3>1, <3>2 DEF SegmentsKept
    <3> QED BY <3>3 DEF CSAt
  <2> QED BY <1>1, <1>2, <1>4, <2>2, <2>3, <2>4
<1>5. CASE kind = "far"
  <2>1. Saved(e) = <<e.cs, e.ip % Word>>
    BY <1>2, <1>5 DEF Saved
  <2>2. Len(Saved(e)) = 2 /\ Saved(e)[1] = e.cs /\ Saved(e)[2] = e.ip % Word
    BY <2>1
  <2>3. Popped(0) = e.ip % Word /\ Popped(0) \in Nat /\ Popped(1) = e.cs
    BY <1>2, <1>3, <2>2
  <2> QED BY <1>1, <1>2, <1>5, <2>2, <2>3
<1>6. CASE kind = "int"
  <2>1. Saved(e) = <<e.flags, e.cs, e.ip % Word>>
    BY <1>2, <1>6 DEF Saved
  <2>2. /\ Len(Saved(e)) = 3 /\ Saved(e)[1] = e.flags /\ Saved(e)[2] = e.cs
        /\ Saved(e)[3] = e.ip % Word
    BY <2>1
  <2>3. /\ Popped(0) = e.ip % Word /\ Popped(0) \in Nat /\ Popped(1) = e.cs /\ Popped(2) = e.flags
    BY <1>2, <1>3, <2>2
  <2> QED BY <1>1, <1>2, <1>6, <2>2, <2>3
<1> QED BY <1>4, <1>5, <1>6

\* What a return gives back of the program that opened e, n bytes of arguments gone.
Returns(e, n) ==
    /\ cs' = e.cs /\ ip' = e.ip % Word
    /\ reg'["sp"] = (e.reg["sp"] + n) % Word /\ reg'["bp"] = e.reg["bp"]

\* SP of the caller is as far above as the arguments are long.
LEMMA CallerSP ==
    ASSUME NEW b \in Words, StackInv(b), NEW kind \in Kinds \ {"frame"}, Innermost(kind), NEW n \in Nat
    PROVE  At(b, open[1].depth - n) = (open[1].reg["sp"] + n) % Word
<1>1. open[1].depth \in Nat /\ open[1].reg["sp"] = At(b, open[1].depth)
  BY InnermostFound
<1>2. open[1].depth \in Int /\ n \in Int
  BY <1>1
<1>3. (At(b, open[1].depth) + n) % Word = At(b, open[1].depth - n)
  BY <1>2, AtMoves
<1> QED BY <1>1, <1>3

\* RET and RETF of n bytes.
LEMMA RetInv ==
    ASSUME NEW b \in Words, StackInv(b), NEW n \in Args, Ret(n) \/ Retf(n)
    PROVE  StackInv(b)' /\ Returns(open[1], n)
<1> DEFINE e == open[1]
<1>0. n \in Nat /\ Even(n)
  BY OperandAssumption DEF Even
<1>1. reg \in [Regs -> Words] /\ flags \in 0..1
  BY Present
<1>2. CASE Ret(n)
  <2>1. /\ Fetch /\ Innermost("near") /\ Arguments(n) /\ Closes(1, n)
        /\ ip' = Popped(0) /\ reg' = [reg EXCEPT !["sp"] = Above(2 + n)]
        /\ mem' = mem /\ flags' = flags /\ cs' = cs
    BY <1>2 DEF Ret
  <2>2. /\ "near" \in Kinds \ {"frame"} /\ Popped(0) = e.ip % Word /\ Popped(0) \in Nat
        /\ e.reg["bp"] = reg["bp"] /\ Len(Saved(e)) = 1 /\ cs = e.cs
    BY <2>1, ReturnFound
  <2>3. 2 + n \in Nat /\ 2 + n = (2 * Len(Saved(open[1]))) + n
    BY <1>0, <2>2
  <2>4. Above(2 + n) = At(b, open[1].depth - n) /\ Above(2 + n) \in Words
    BY <1>0, <2>1, <2>2, <2>3, ReturnSP
  <2>5. reg' \in [Regs -> Words] /\ reg'["sp"] = At(b, open[1].depth - n) /\ reg'["bp"] = reg["bp"]
    BY <1>1, <2>1, <2>4 DEF Regs
  <2>6. /\ cs' = (IF "near" \in {"far", "int"} THEN open[1].cs ELSE cs)
        /\ flags' \in 0..1 /\ ip' \in Nat
    BY <1>1, <2>1, <2>2
  <2>7. StackInv(b)'
    BY <1>0, <2>1, <2>2, <2>5, <2>6, ReturnInv
  <2>8. reg'["sp"] = (open[1].reg["sp"] + n) % Word
    BY <1>0, <2>1, <2>2, <2>5, CallerSP
  <2> QED BY <2>1, <2>2, <2>5, <2>7, <2>8 DEF Returns
<1>3. CASE Retf(n)
  <2>1. /\ Fetch /\ Innermost("far") /\ Arguments(n) /\ Closes(1, n)
        /\ ip' = Popped(0) /\ cs' = Popped(1) /\ reg' = [reg EXCEPT !["sp"] = Above(4 + n)]
        /\ mem' = mem /\ flags' = flags
    BY <1>3 DEF Retf
  <2>2. /\ "far" \in Kinds \ {"frame"} /\ Popped(0) = e.ip % Word /\ Popped(0) \in Nat
        /\ e.reg["bp"] = reg["bp"] /\ Len(Saved(e)) = 2 /\ Popped(1) = e.cs
    BY <2>1, ReturnFound
  <2>3. 4 + n \in Nat /\ 4 + n = (2 * Len(Saved(open[1]))) + n
    BY <1>0, <2>2
  <2>4. Above(4 + n) = At(b, open[1].depth - n) /\ Above(4 + n) \in Words
    BY <1>0, <2>1, <2>2, <2>3, ReturnSP
  <2>5. reg' \in [Regs -> Words] /\ reg'["sp"] = At(b, open[1].depth - n) /\ reg'["bp"] = reg["bp"]
    BY <1>1, <2>1, <2>4 DEF Regs
  <2>6. /\ cs' = (IF "far" \in {"far", "int"} THEN open[1].cs ELSE cs)
        /\ flags' \in 0..1 /\ ip' \in Nat
    BY <1>1, <2>1, <2>2
  <2>7. StackInv(b)'
    BY <1>0, <2>1, <2>2, <2>5, <2>6, ReturnInv
  <2>8. reg'["sp"] = (open[1].reg["sp"] + n) % Word
    BY <1>0, <2>1, <2>2, <2>5, CallerSP
  <2> QED BY <2>1, <2>2, <2>5, <2>7, <2>8 DEF Returns
<1> QED BY <1>2, <1>3

\* IRET, which gives back the flags and both stack registers too.
LEMMA IretInv ==
    ASSUME NEW b \in Words, StackInv(b), Iret
    PROVE  StackInv(b)' /\ Returns(open[1], 0) /\ flags' = open[1].flags
           /\ reg'["sp"] = open[1].reg["sp"]
<1> DEFINE e == open[1]
<1>1. /\ Fetch /\ Innermost("int") /\ Closes(1, 0)
      /\ ip' = Popped(0) /\ cs' = Popped(1) /\ flags' = Popped(2)
      /\ reg' = [reg EXCEPT !["sp"] = Above(6)] /\ mem' = mem
  BY DEF Iret
<1>2. /\ "int" \in Kinds \ {"frame"} /\ e \in Opening
      /\ Popped(0) = e.ip % Word /\ Popped(0) \in Nat /\ e.reg["bp"] = reg["bp"]
      /\ Len(Saved(e)) = 3 /\ Popped(1) = e.cs /\ Popped(2) = e.flags
  BY <1>1, ReturnFound
<1>3. 6 = (2 * Len(Saved(open[1]))) + 0
  BY <1>2
<1>4. Above(6) = At(b, open[1].depth - 0) /\ Above(6) \in Words
  BY <1>1, <1>2, <1>3, ReturnSP
<1>5. reg' \in [Regs -> Words] /\ reg'["sp"] = At(b, open[1].depth - 0) /\ reg'["bp"] = reg["bp"]
  <2>1. reg \in [Regs -> Words]
    BY Present
  <2> QED BY <1>1, <1>4, <2>1 DEF Regs
<1>6. /\ cs' = (IF "int" \in {"far", "int"} THEN open[1].cs ELSE cs)
      /\ flags' \in 0..1 /\ ip' \in Nat
  <2>1. e.flags \in 0..1
    BY <1>2 DEF Opening
  <2> QED BY <1>1, <1>2, <2>1
<1>7. StackInv(b)'
  BY <1>1, <1>2, <1>5, <1>6, NoArguments, ReturnInv
<1>8. reg'["sp"] = (open[1].reg["sp"] + 0) % Word
  BY <1>1, <1>2, <1>5, CallerSP
<1>9. reg'["sp"] = open[1].reg["sp"]
  <2>1. e.depth - 0 = e.depth /\ e.reg["sp"] = At(b, e.depth)
    BY <1>1, <1>2, InnermostFound
  <2> QED BY <1>5, <2>1
<1> QED BY <1>1, <1>2, <1>5, <1>7, <1>8, <1>9 DEF Returns

\* LEAVE: BP leads to the word of the innermost frame, whatever was pushed inside.
LEMMA LeaveInv ==
    ASSUME NEW b \in Words, StackInv(b), Leave
    PROVE  /\ StackInv(b)'
           /\ \E k \in 1..Len(open) :
                 /\ open[k].kind = "frame" /\ open' = SubSeq(open, k + 1, Len(open))
                 /\ reg'["sp"] = open[k].reg["sp"] /\ reg'["bp"] = open[k].reg["bp"]
<1>1. /\ Fetch /\ ip' = ip + 1 /\ mem' = mem /\ flags' = flags /\ cs' = cs
      /\ reg' = [reg EXCEPT !["bp"] = WordAt(reg["bp"]), !["sp"] = (reg["bp"] + 2) % Word]
  BY DEF Leave
<1>2. PICK k \in 1..Len(open) :
         /\ open[k].kind = "frame" /\ \A j \in 1..k - 1 : open[j].kind \in {"word", "flags"}
         /\ Closes(k, 0)
  BY DEF Leave
<1> DEFINE e == open[k]
<1>3. /\ open \in Seq(Opening) /\ Imaged(open, mem, b) /\ FramesLinked(open, reg["bp"], b)
      /\ reg \in [Regs -> Words] /\ ip \in Nat /\ flags \in 0..1
  BY DEF StackInv, TypeOK
<1>4. e \in Opening
  BY <1>3
<1>5. e.depth \in Nat /\ e.reg \in [Regs -> Words]
  BY <1>4, WordFacts DEF Opening
<1>6. open' = SubSeq(open, k + 1, Len(open)) /\ depth' = e.depth
  <2>1. 0 \div 2 = 0
    OBVIOUS
  <2>2. open' = SubSeq(open, k + 1 + 0, Len(open)) /\ depth' = e.depth - 0
    BY <1>2, <2>1 DEF Closes
  <2>3. k + 1 + 0 = k + 1 /\ e.depth - 0 = e.depth
    BY <1>5
  <2> QED BY <2>2, <2>3
<1>7. reg["bp"] = At(b, e.depth + 2)
  <2>1. 0 \in 0..k - 1 /\ \A i \in 0 + 1..k - 1 : open[i].kind # "frame"
    BY <1>2
  <2>2. BPAt(open, reg["bp"], 0) = At(b, open[k].depth + 2)
    BY <1>2, <1>3, <2>1 DEF FramesLinked
  <2> QED BY <2>2 DEF BPAt
<1>8. Len(Saved(e)) = 1 /\ Saved(e)[1] = e.reg["bp"] /\ e.reg["sp"] = At(b, e.depth)
  <2>1. Saved(e) = <<e.reg["bp"]>>
    BY <1>2 DEF Saved
  <2> QED BY <1>3, <2>1 DEF Imaged
<1>9. WordAt(reg["bp"]) = e.reg["bp"]
  <2>1. WordIn(mem, At(b, e.depth + 2 * 1)) = Saved(e)[1]
    <3>1. \A i \in 1..Len(Saved(e)) : WordIn(mem, At(b, e.depth + 2 * i)) = Saved(e)[i]
      BY <1>3 DEF Imaged
    <3>2. 1 \in 1..Len(Saved(e))
      BY <1>8
    <3> QED BY <3>1, <3>2
  <2>2. 2 * 1 = 2
    OBVIOUS
  <2> QED BY <1>7, <1>8, <2>1, <2>2 DEF WordAt, WordIn
<1>10. (reg["bp"] + 2) % Word = At(b, e.depth)
  <2>1. e.depth + 2 \in Int /\ 2 \in Int /\ (e.depth + 2) - 2 = e.depth
    BY <1>5
  <2>2. (At(b, e.depth + 2) + 2) % Word = At(b, (e.depth + 2) - 2)
    BY <2>1, AtMoves
  <2> QED BY <1>7, <2>1, <2>2
<1>11. e.reg["bp"] \in Words /\ At(b, e.depth) \in Words
  BY <1>5, <1>8 DEF Regs
<1>12. /\ reg' \in [Regs -> Words] /\ reg'["sp"] = At(b, e.depth)
       /\ reg'["bp"] = e.reg["bp"]
  BY <1>1, <1>3, <1>9, <1>10, <1>11 DEF Regs
<1>13. /\ 0 \in 0..k /\ cs' = CSAt(open, cs, 0) /\ flags' \in 0..1 /\ ip' \in Nat
       /\ \A i \in 0 + 1..k : open[i].kind \notin {"far", "int"}
  <2>1. ASSUME NEW i \in 0 + 1..k PROVE open[i].kind \notin {"far", "int"}
    <3>1. i = k \/ i \in 1..k - 1
      OBVIOUS
    <3> QED BY <1>2, <3>1
  <2> QED BY <1>1, <1>3, <2>1 DEF CSAt
<1>14. StackInv(b)'
  BY <1>1, <1>6, <1>12, <1>13, ClosesInv
<1> QED BY <1>2, <1>6, <1>8, <1>12, <1>14

\* An instruction that opens and closes nothing, and moves neither SP nor BP.
LEMMA OtherInv ==
    ASSUME NEW b \in Words, StackInv(b),
           mem' = mem, open' = open, depth' = depth,
           reg' \in [Regs -> Words], reg'["sp"] = reg["sp"], reg'["bp"] = reg["bp"],
           SegmentsKept(open, cs'), cs' \in Words, flags' \in 0..1, ip' \in Nat,
           ops' \in 0..MaxOps, decrement_sp_before_store' \in BOOLEAN
    PROVE  StackInv(b)'
<1>1. TypeOK'
  BY DEF StackInv, TypeOK
<1>2. /\ Even(depth) /\ reg["sp"] = At(b, depth) /\ Nested(open, depth)
      /\ Imaged(open, mem, b) /\ FramesLinked(open, reg["bp"], b)
  BY DEF StackInv
<1> QED BY <1>1, <1>2 DEF StackInv

\* A word in memory where a pointer at BP lies.
LEMMA PointerType ==
    ASSUME NEW b \in Words, StackInv(b), PointerAtBP
    PROVE  WordAt(reg["bp"]) \in Words /\ WordAt(reg["bp"] + 2) \in Words
<1>1. reg["bp"] \in Words /\ mem \in Mem
  BY Present DEF Regs
<1>2. reg["bp"] + 2 \in Words
  BY <1>1, WordFacts DEF PointerAtBP, Words
<1> QED BY <1>1, <1>2, WordInType DEF WordAt, WordIn

\* Targets of calls and jumps through an operand are words.
LEMMA TargetType ==
    ASSUME NEW b \in Words, StackInv(b), NEW t \in NearTargets
    PROVE  t.ofs \in Nat /\ t.len \in Nat
<1>1. t \in {[ofs |-> reg[r], len |-> 2] : r \in Through}
      \/ (PointerAtBP /\ t = [ofs |-> WordAt(reg["bp"]), len |-> 3])
  BY DEF NearTargets
<1>2. CASE t \in {[ofs |-> reg[r], len |-> 2] : r \in Through}
  <2>1. PICK r \in Through : t = [ofs |-> reg[r], len |-> 2]
    BY <1>2
  <2>2. reg[r] \in Words
    BY Present, OperandAssumption
  <2> QED BY <2>1, <2>2, WordFacts DEF Words
<1>3. CASE PointerAtBP /\ t = [ofs |-> WordAt(reg["bp"]), len |-> 3]
  <2>1. WordAt(reg["bp"]) \in Words
    BY <1>3, PointerType
  <2> QED BY <1>3, <2>1, WordFacts DEF Words
<1> QED BY <1>1, <1>2, <1>3

\* A far jump does not leave the segment of a procedure that was called near.
LEMMA JmpFarInv ==
    ASSUME NEW b \in Words, StackInv(b), Jmp_far_rm
    PROVE  StackInv(b)'
<1>1. /\ Fetch /\ PointerAtBP
      /\ \/ WordAt(reg["bp"] + 2) = cs
         \/ \A k \in 1..Len(open) :
               open[k].kind = "near" => \E j \in 1..k - 1 : open[j].kind \in {"far", "int"}
      /\ cs' = WordAt(reg["bp"] + 2) /\ ip' = WordAt(reg["bp"])
      /\ reg' = reg /\ mem' = mem /\ flags' = flags /\ open' = open /\ depth' = depth
  BY DEF Jmp_far_rm
<1>2. TypeOK /\ SegmentsKept(open, cs)
  BY DEF StackInv
<1>3. cs' \in Words /\ ip' \in Nat
  BY <1>1, PointerType, WordFacts DEF Words
<1>4. SegmentsKept(open, cs')
  <2>1. SUFFICES ASSUME NEW k \in 1..Len(open), NEW j \in 0..k - 1, open[k].kind = "near",
                        \A i \in j + 1..k - 1 : open[i].kind \notin {"far", "int"}
                 PROVE  CSAt(open, cs', j) = open[k].cs
    BY DEF SegmentsKept
  <2>2. CSAt(open, cs, j) = open[k].cs
    BY <1>2, <2>1 DEF SegmentsKept
  <2>3. CASE j = 0
    <3>1. ~ \E i \in 1..k - 1 : open[i].kind \in {"far", "int"}
      BY <2>1, <2>3
    <3>2. cs' = cs
      BY <1>1, <2>1, <3>1
    <3> QED BY <2>2, <3>2
  <2>4. CASE j # 0
    BY <2>2, <2>4 DEF CSAt
  <2> QED BY <2>3, <2>4
<1>5. ops' \in 0..MaxOps /\ decrement_sp_before_store' \in BOOLEAN
  BY <1>1, <1>2, OperandAssumption DEF Fetch, TypeOK
<1>6. reg' \in [Regs -> Words] /\ flags' \in 0..1
  BY <1>1, <1>2 DEF TypeOK
<1> QED BY <1>1, <1>3, <1>4, <1>5, <1>6, OtherInv

\* JMP through an operand, the rest of the instruction set, the bug switch.
LEMMA QuietInv ==
    ASSUME NEW b \in Words, StackInv(b),
           setbug \/ Compute \/ \E t \in NearTargets : Jmp_rm(t)
    PROVE  StackInv(b)'
<1>1. TypeOK /\ SegmentsKept(open, cs)
  BY DEF StackInv
<1>2. CASE setbug
  <2>1. /\ mem' = mem /\ open' = open /\ depth' = depth /\ reg' = reg /\ cs' = cs
        /\ flags' = flags /\ ip' = ip /\ ops' = ops
        /\ decrement_sp_before_store' = ~decrement_sp_before_store
    BY <1>2 DEF setbug
  <2>2. ops' \in 0..MaxOps /\ decrement_sp_before_store' \in BOOLEAN
    BY <1>1, <2>1 DEF TypeOK
  <2>3. reg' \in [Regs -> Words] /\ cs' \in Words /\ flags' \in 0..1 /\ ip' \in Nat
    BY <1>1, <2>1 DEF TypeOK
  <2> QED BY <1>1, <2>1, <2>2, <2>3, OtherInv
<1>3. CASE Compute
  <2>1. /\ mem' = mem /\ open' = open /\ depth' = depth /\ cs' = cs /\ flags' = 1
        /\ ip' = ip + 1 /\ Fetch
        /\ reg' = [r \in Regs |-> IF r \in General THEN (reg[r] + 1) % Word ELSE reg[r]]
    BY <1>3 DEF Compute
  <2>2. ops' \in 0..MaxOps /\ decrement_sp_before_store' \in BOOLEAN
    BY <1>1, <2>1, OperandAssumption DEF Fetch, TypeOK
  <2>3. ASSUME NEW r \in Regs PROVE (reg[r] + 1) % Word \in Words /\ reg[r] \in Words
    <3>1. reg[r] \in Words
      BY <1>1 DEF TypeOK
    <3>2. reg[r] + 1 \in Int
      BY <3>1, WordFacts DEF Words
    <3> QED BY <3>1, <3>2, ModWord
  <2>4. reg' \in [Regs -> Words]
    BY <2>1, <2>3
  <2>5. "sp" \notin General /\ "bp" \notin General /\ "sp" \in Regs /\ "bp" \in Regs
    BY DEF General, Regs
  <2>6. reg'["sp"] = reg["sp"] /\ reg'["bp"] = reg["bp"]
    BY <2>1, <2>5
  <2>7. cs' \in Words /\ flags' \in 0..1 /\ ip' \in Nat
    BY <1>1, <2>1 DEF TypeOK
  <2> QED BY <1>1, <2>1, <2>2, <2>4, <2>6, <2>7, OtherInv
<1>4. ASSUME NEW t \in NearTargets, Jmp_rm(t) PROVE StackInv(b)'
  <2>1. /\ mem' = mem /\ open' = open /\ depth' = depth /\ reg' = reg /\ cs' = cs
        /\ flags' = flags /\ ip' = t.ofs /\ Fetch
    BY <1>4 DEF Jmp_rm
  <2>2. ops' \in 0..MaxOps /\ decrement_sp_before_store' \in BOOLEAN
    BY <1>1, <2>1, OperandAssumption DEF Fetch, TypeOK
  <2>3. reg' \in [Regs -> Words] /\ cs' \in Words /\ flags' \in 0..1 /\ ip' \in Nat
    BY <1>1, <2>1, TargetType DEF TypeOK
  <2> QED BY <1>1, <2>1, <2>2, <2>3, OtherInv
<1> QED BY <1>2, <1>3, <1>4

\* Near and far calls, direct and through an operand.
LEMMA CallInv ==
    ASSUME NEW b \in Words, StackInv(b),
           \/ \E t \in Targets : Call_near(t) \/ Call_far(t)
           \/ \E t \in NearTargets : Call_rm(t)
           \/ Call_far_rm
    PROVE  StackInv(b)'
<1>1. ASSUME NEW t \in Targets, Call_near(t) PROVE StackInv(b)'
  <2>1. t.ofs \in Nat
    BY OperandAssumption, WordFacts DEF Words
  <2>2. /\ Fetch /\ Opens("near", 2, ip + 3, 0) /\ Store(pushw(Stack, (ip + 3) % Word))
        /\ ip' = t.ofs /\ flags' = flags /\ cs' = cs
    BY <1>1 DEF Call_near
  <2> QED BY <2>1, <2>2, CallNearInv
<1>2. ASSUME NEW t \in Targets, Call_far(t) PROVE StackInv(b)'
  <2>1. t.ofs \in Nat /\ t.seg \in Words
    BY OperandAssumption, WordFacts DEF Words
  <2>2. /\ Fetch /\ Opens("far", 4, ip + 5, 0) /\ Store(pushw2(Stack, cs, (ip + 5) % Word))
        /\ cs' = t.seg /\ ip' = t.ofs /\ flags' = flags
    BY <1>2 DEF Call_far
  <2> QED BY <2>1, <2>2, CallFarInv
<1>3. ASSUME NEW t \in NearTargets, Call_rm(t) PROVE StackInv(b)'
  <2>1. t.ofs \in Nat /\ t.len \in Nat
    BY TargetType
  <2>2. /\ Fetch /\ Opens("near", 2, ip + t.len, 0)
        /\ Store(pushw(Stack, (ip + t.len) % Word))
        /\ ip' = t.ofs /\ flags' = flags /\ cs' = cs
    BY <1>3 DEF Call_rm
  <2> QED BY <2>1, <2>2, CallNearInv
<1>4. ASSUME Call_far_rm PROVE StackInv(b)'
  <2>1. /\ Fetch /\ Opens("far", 4, ip + 3, 0) /\ Store(pushw2(Stack, cs, (ip + 3) % Word))
        /\ cs' = WordAt(reg["bp"] + 2) /\ ip' = WordAt(reg["bp"]) /\ flags' = flags
        /\ PointerAtBP
    BY <1>4 DEF Call_far_rm
  <2>2. cs' \in Words /\ ip' \in Words
    BY <2>1, PointerType
  <2>3. ip' \in Nat
    BY <2>2, WordFacts DEF Words
  <2> QED BY <2>1, <2>2, <2>3, CallFarInv
<1> QED BY <1>1, <1>2, <1>3, <1>4

\* Every step keeps the invariant of the empty stack it started from.
LEMMA NextInv ==
    ASSUME NEW b \in Words, StackInv(b), [Next]_vars
    PROVE  StackInv(b)'
<1>1. ASSUME NEW r \in Pushed, Exec_push(r) PROVE StackInv(b)'
  BY <1>1, PushInv
<1>2. ASSUME NEW r \in Pushed \cap General, Exec_pop(r) PROVE StackInv(b)'
  BY <1>2, PopInv
<1>3. CASE Exec_pushf
  BY <1>3, PushfInv
<1>4. CASE Exec_popf
  BY <1>4, PopfInv
<1>5. CASE Exec_pusha
  BY <1>5, PushaInv
<1>6. CASE Exec_popa
  BY <1>6, PopaInv
<1>7. ASSUME NEW t \in Targets, NEW n \in {0, 2}, go_int_frame(t, n) PROVE StackInv(b)'
  BY <1>7, InterruptInv
<1>8. ASSUME NEW n \in Args, Ret(n) \/ Retf(n) PROVE StackInv(b)'
  BY <1>8, RetInv
<1>9. CASE Iret
  BY <1>9, IretInv
<1>10. CASE \/ \E t \in Targets : Call_near(t) \/ Call_far(t)
            \/ \E t \in NearTargets : Call_rm(t)
            \/ Call_far_rm
  BY <1>10, CallInv
<1>11. CASE setbug \/ Compute \/ \E t \in NearTargets : Jmp_rm(t)
  BY <1>11, QuietInv
<1>12. CASE Jmp_far_rm
  BY <1>12, JmpFarInv
<1>13. ASSUME NEW size \in Sizes, NEW l \in Levels, Enter(size, l) PROVE StackInv(b)'
  BY <1>13, EnterInv
<1>14. CASE Leave
  BY <1>14, LeaveInv
<1>15. CASE UNCHANGED vars
  BY <1>15 DEF vars, StackInv, TypeOK
<1> QED BY <1>1, <1>2, <1>3, <1>4, <1>5, <1>6, <1>7, <1>8, <1>9, <1>10, <1>11, <1>12, <1>13,
           <1>14, <1>15 DEF Next

-----------------------------------------------------------------------------
(***************************************************************************)
(* Theorems.                                                               *)
(***************************************************************************)
\* The inductive invariant holds in every behaviour.
THEOREM StackInvariant == Spec => []IInv
<1>1. IInv /\ [Next]_vars => IInv'
  BY NextInv DEF IInv
<1> QED BY InitInv, <1>1, PTL DEF Spec

\* Registers and the words of the stack keep their width, for every width, program
\* and CPU level.
THEOREM TypeCorrect == Spec => []TypeOK
<1>1. IInv => TypeOK
  BY DEF IInv, StackInv
<1> QED BY StackInvariant, <1>1, PTL

\* What PUSH, PUSHF, PUSHA, CALL, INT and ENTER stored is in memory until it is taken
\* back, wherever SP starts and however often it wraps.
THEOREM StackCorrect == Spec => []StackImage
<1>1. ASSUME NEW b \in Words, StackInv(b) PROVE StackImage
  <2>1. open \in Seq(Opening) /\ Imaged(open, mem, b)
    BY <1>1 DEF StackInv, TypeOK
  <2>2. SUFFICES ASSUME NEW k \in 1..Len(open)
                 PROVE  /\ \A i \in 1..Len(Saved(open[k])) :
                              WordAt((open[k].reg["sp"] - 2 * i) % Word) = Saved(open[k])[i]
                        /\ (open[k].reg["sp"] + open[k].depth) % Word = (reg["sp"] + depth) % Word
    BY DEF StackImage
  <2>3. /\ open[k].reg["sp"] = At(b, open[k].depth)
        /\ \A i \in 1..Len(Saved(open[k])) :
              WordIn(mem, At(b, open[k].depth + 2 * i)) = Saved(open[k])[i]
    BY <2>1 DEF Imaged
  <2>4. open[k].depth \in Int /\ Len(Saved(open[k])) \in Nat
    <3>1. open[k] \in Opening
      BY <2>1
    <3> QED BY <3>1, SavedFacts, WordFacts DEF Opening
  <2>5. reg["sp"] = At(b, depth) /\ depth \in Int
    BY <1>1, Present
  <2>6. ASSUME NEW i \in 1..Len(Saved(open[k]))
        PROVE  WordAt((open[k].reg["sp"] - 2 * i) % Word) = Saved(open[k])[i]
    <3>1. 2 * i \in Int
      BY <2>4
    <3>2. (At(b, open[k].depth) - 2 * i) % Word = At(b, open[k].depth + 2 * i)
      BY <2>4, <3>1, AtMoves
    <3> QED BY <2>3, <3>2 DEF WordAt, WordIn
  <2>7. \A d \in Int : (At(b, d) + d) % Word = At(b, 0)
    <3>1. ASSUME NEW d \in Int PROVE (At(b, d) + d) % Word = At(b, 0)
      <4>1. (At(b, d) + d) % Word = At(b, d - d) /\ d - d = 0
        BY AtMoves
      <4> QED BY <4>1
    <3> QED BY <3>1
  <2> QED BY <2>3, <2>4, <2>5, <2>6, <2>7
<1>2. IInv => StackImage
  BY <1>1 DEF IInv
<1> QED BY StackInvariant, <1>2, PTL

\* RET and RETF return to their call, across any nesting of calls, frames,
\* interrupts and jumps in between.
THEOREM CallsCorrect == Spec => CallsReturn
<1>1. ASSUME NEW b \in Words, StackInv(b), NEW n \in Args, Ret(n) \/ Retf(n)
      PROVE  LET e == Head(open)
             IN  /\ cs' = e.cs /\ ip' = e.ip % Word
                 /\ reg'["sp"] = (e.reg["sp"] + n) % Word /\ reg'["bp"] = e.reg["bp"]
  <2>1. Returns(open[1], n)
    BY <1>1, RetInv
  <2>2. Head(open) = open[1]
    BY <1>1, Present DEF Ret, Retf, Innermost
  <2> QED BY <2>1, <2>2 DEF Returns
<1>2. IInv => [\A n \in Args : Ret(n) \/ Retf(n) =>
                  LET e == Head(open)
                  IN  /\ cs' = e.cs /\ ip' = e.ip % Word
                      /\ reg'["sp"] = (e.reg["sp"] + n) % Word /\ reg'["bp"] = e.reg["bp"]]_vars
  BY <1>1 DEF IInv
<1> QED BY StackInvariant, <1>2, PTL DEF CallsReturn

\* IRET gives the interrupted program back its registers, flags and place.
THEOREM InterruptsCorrect == Spec => InterruptsTransparent
<1>1. ASSUME NEW b \in Words, StackInv(b), Iret
      PROVE  LET e == Head(open)
             IN  /\ cs' = e.cs /\ ip' = e.ip % Word /\ flags' = e.flags
                 /\ reg'["sp"] = e.reg["sp"] /\ reg'["bp"] = e.reg["bp"]
  <2>1. Returns(open[1], 0) /\ flags' = open[1].flags /\ reg'["sp"] = open[1].reg["sp"]
    BY <1>1, IretInv
  <2>2. Head(open) = open[1]
    BY <1>1, Present DEF Iret, Innermost
  <2> QED BY <2>1, <2>2 DEF Returns
<1>2. IInv => [Iret => LET e == Head(open)
                       IN  /\ cs' = e.cs /\ ip' = e.ip % Word /\ flags' = e.flags
                           /\ reg'["sp"] = e.reg["sp"] /\ reg'["bp"] = e.reg["bp"]]_vars
  BY <1>1 DEF IInv
<1> QED BY StackInvariant, <1>2, PTL DEF InterruptsTransparent

\* LEAVE undoes ENTER, for every nesting level ENTER takes and every size of locals.
THEOREM FramesCorrect == Spec => FramesUnwind
<1>1. IInv => [Leave => \E k \in 1..Len(open) :
                           /\ open[k].kind = "frame" /\ open' = SubSeq(open, k + 1, Len(open))
                           /\ reg'["sp"] = open[k].reg["sp"] /\ reg'["bp"] = open[k].reg["bp"]]_vars
  BY LeaveInv DEF IInv
<1> QED BY StackInvariant, <1>1, PTL DEF FramesUnwind

\* POPA gives back what PUSHA saved, on CPUs that push SP before or after the decrement.
THEOREM RegistersCorrect == Spec => RegistersBack
<1>1. ASSUME NEW b \in Words, StackInv(b), Exec_popa PROVE reg' = Head(open).reg
  <2>1. reg' = open[1].reg
    BY <1>1, PopaInv
  <2>2. Head(open) = open[1]
    BY <1>1, Present DEF Exec_popa, Innermost
  <2> QED BY <2>1, <2>2
<1>2. IInv => [Exec_popa => reg' = Head(open).reg]_vars
  BY <1>1 DEF IInv
<1> QED BY StackInvariant, <1>2, PTL DEF RegistersBack

=============================================================================
