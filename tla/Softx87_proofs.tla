--------------------------- MODULE Softx87_proofs ---------------------------
(***************************************************************************)
(* That the ring of registers of the coprocessor (Softx87) is a stack as      *)
(* long as it is used as one: for every number of registers, every operand   *)
(* and whatever op_fadd makes of two numbers.  Then what it does make of      *)
(* them, for every width of the mantissa: the registers hold numbers, loads   *)
(* are exact and sums are rounded.                                         *)
(***************************************************************************)
EXTENDS Softx87, Recursion_proofs, SequenceTheorems, TLAPS

\* The number of registers, and the registers.
LEMMA Sizes ==
    /\ StackSize \in Nat \ {0}
    /\ \A r : r \in Regs <=> r \in Nat /\ r < StackSize
  BY StackAssumption DEF Regs

\* The register i places from register t, and its place on the number line.
At(t, i) == (t + i) % StackSize

\* Counting goes on at 0.
LEMMA Wraps ==
    ASSUME NEW t \in Nat, t < StackSize, NEW i \in Nat, i <= StackSize
    PROVE  /\ At(t, i) \in Regs
           /\ t + i < StackSize => At(t, i) = t + i
           /\ t + i >= StackSize => At(t, i) = t + i - StackSize
<1>1. StackSize \in Nat \ {0}
  BY Sizes
<1>2. t + i < StackSize => At(t, i) = t + i
  BY <1>1 DEF At
<1>3. t + i >= StackSize => At(t, i) = t + i - StackSize
  BY <1>1 DEF At
<1>. QED
  BY <1>1, <1>2, <1>3, Sizes

\* Different places are different registers.
LEMMA Distinct ==
    ASSUME NEW t \in Regs, NEW i \in Regs, NEW j \in Regs, i # j
    PROVE  At(t, i) # At(t, j) /\ At(t, i) \in Regs /\ At(t, j) \in Regs
<1>1. /\ t \in Nat /\ i \in Nat /\ j \in Nat /\ StackSize \in Nat
      /\ t < StackSize /\ i < StackSize /\ j < StackSize
  BY Sizes
<1>2. /\ At(t, i) = IF t + i < StackSize THEN t + i ELSE t + i - StackSize
      /\ At(t, j) = IF t + j < StackSize THEN t + j ELSE t + j - StackSize
      /\ At(t, i) \in Regs /\ At(t, j) \in Regs
  BY <1>1, Wraps
<1>. QED
  BY <1>1, <1>2

\* The register above the top,
LEMMA Above ==
    ASSUME NEW t \in Regs
    PROVE  /\ At(t, StackSize - 1) \in Regs
           /\ At(At(t, StackSize - 1), 0) = At(t, StackSize - 1)
           /\ \A i \in Regs : i # 0 => At(At(t, StackSize - 1), i) = At(t, i - 1)
<1>1. t \in Nat /\ t < StackSize /\ StackSize \in Nat \ {0}
  BY Sizes
<1>. DEFINE b == At(t, StackSize - 1)
<1>2. b \in Regs /\ b = IF t = 0 THEN StackSize - 1 ELSE t - 1
  BY <1>1, Wraps
<1>3. b \in Nat /\ b < StackSize
  BY <1>2, Sizes
<1>. HIDE DEF b
<1>4. At(b, 0) = b
  BY <1>1, <1>3, Wraps
<1>5. ASSUME NEW i \in Regs, i # 0 PROVE At(b, i) = At(t, i - 1)
  <2>1. i \in Nat /\ i < StackSize /\ i - 1 \in Nat /\ i - 1 < StackSize
    BY <1>5, Sizes
  <2>2. At(b, i) = IF b + i < StackSize THEN b + i ELSE b + i - StackSize
    BY <1>1, <1>3, <2>1, Wraps
  <2>3. At(t, i - 1) = IF t + (i - 1) < StackSize THEN t + (i - 1) ELSE t + (i - 1) - StackSize
    BY <1>1, <2>1, Wraps
  <2>. QED
    BY <1>1, <1>2, <2>1, <2>2, <2>3
<1>. QED
  BY <1>2, <1>4, <1>5 DEF b

\* and the one below it.
LEMMA Below ==
    ASSUME NEW t \in Regs
    PROVE  /\ At(t, 1) \in Regs /\ At(t, 0) = t
           /\ \A i \in Regs : i + 1 \in Regs => At(At(t, 1), i) = At(t, i + 1)
           /\ \A i \in Regs : i + 1 \notin Regs => At(At(t, 1), i) = t
<1>1. t \in Nat /\ t < StackSize /\ StackSize \in Nat \ {0}
  BY Sizes
<1>. DEFINE b == At(t, 1)
<1>2. b \in Regs /\ b = IF t + 1 < StackSize THEN t + 1 ELSE t + 1 - StackSize
  BY <1>1, Wraps
<1>3. b \in Nat /\ b < StackSize
  BY <1>2, Sizes
<1>. HIDE DEF b
<1>4. At(t, 0) = t
  BY <1>1, Wraps
<1>5. ASSUME NEW i \in Regs
      PROVE  /\ i + 1 \in Regs => At(b, i) = At(t, i + 1)
             /\ i + 1 \notin Regs => At(b, i) = t
  <2>1. i \in Nat /\ i < StackSize /\ (i + 1 \in Regs <=> i + 1 < StackSize)
    BY Sizes
  <2>2. At(b, i) = IF b + i < StackSize THEN b + i ELSE b + i - StackSize
    BY <1>1, <1>3, <2>1, Wraps
  <2>3. At(t, i + 1) = IF t + (i + 1) < StackSize THEN t + (i + 1) ELSE t + (i + 1) - StackSize
    BY <1>1, <2>1, Wraps
  <2>. QED
    BY <1>1, <1>2, <2>1, <2>2, <2>3
<1>. QED
  BY <1>2, <1>4, <1>5 DEF b

-----------------------------------------------------------------------------
(***************************************************************************)
(* A ring, as the numbers f and the tags g of its registers and its top t,    *)
(* holds the n numbers of s.                                               *)
(***************************************************************************)
IsRing(f, g, t) == DOMAIN f = Regs /\ DOMAIN g = Regs /\ t \in Regs

Holds(f, g, t, s, n) ==
    /\ n \in Nat /\ n <= StackSize
    /\ \A i \in Regs :
          /\ i < n => f[At(t, i)] = s[i + 1] /\ g[At(t, i)] = "valid"
          /\ ~(i < n) => g[At(t, i)] = "empty"

\* s is a sequence of n values of some set.
IsStack(s, n) == (\E S : s \in Seq(S)) /\ n = Len(s)

\* p has v on top of the n values of s.
OnTop(p, v, s, n) == n \in Nat /\ p[1] = v /\ \A i \in 1..n : p[i + 1] = s[i]

\* What a push makes of a sequence,
LEMMA PushedSequence ==
    ASSUME NEW s, NEW n, IsStack(s, n), NEW v
    PROVE  IsStack(<<v>> \o s, n + 1) /\ OnTop(<<v>> \o s, v, s, n)
<1>1. PICK S : s \in Seq(S)
  BY DEF IsStack
<1>. DEFINE T == S \cup {v}
            r == <<v>>
<1>2. s \in Seq(T) /\ r \in Seq(T) /\ Len(r) = 1 /\ r[1] = v
  BY <1>1
<1>3. Len(s) = n /\ n \in Nat
  BY <1>1, LenProperties DEF IsStack
<1>. HIDE DEF T, r
<1>4. /\ r \o s \in Seq(T) /\ Len(r \o s) = 1 + n
      /\ \A i \in 1..(1 + n) : (r \o s)[i] = IF i <= 1 THEN r[i] ELSE s[i - 1]
  <2>1. /\ r \o s \in Seq(T) /\ Len(r \o s) = Len(r) + Len(s)
        /\ \A i \in 1..(Len(r) + Len(s)) : (r \o s)[i] = IF i <= Len(r) THEN r[i] ELSE s[i - Len(r)]
    BY <1>2, ConcatProperties, Zenon
  <2>. QED
    BY <1>2, <1>3, <2>1, Zenon
<1>5. (r \o s)[1] = v
  BY <1>2, <1>3, <1>4
<1>6. ASSUME NEW i \in 1..n PROVE (r \o s)[i + 1] = s[i]
  <2>1. i + 1 \in 1..(1 + n) /\ ~(i + 1 <= 1) /\ (i + 1) - 1 = i
    BY <1>3
  <2>. QED
    BY <1>4, <2>1
<1>7. Len(r \o s) = n + 1
  BY <1>3, <1>4
<1>. QED
  BY <1>3, <1>4, <1>5, <1>6, <1>7 DEF IsStack, OnTop, r

\* a sum that replaces one number,
LEMMA AddedSequence ==
    ASSUME NEW s, NEW n, IsStack(s, n), NEW k \in Nat, k < n, NEW v
    PROVE  /\ IsStack(StackAdds(s, k, v), n) /\ n \in Nat
           /\ StackAdds(s, k, v)[k + 1] = op_fadd(s[k + 1], v)
           /\ \A i \in 1..n : i # k + 1 => StackAdds(s, k, v)[i] = s[i]
<1>1. PICK S : s \in Seq(S)
  BY DEF IsStack
<1>2. Len(s) = n /\ n \in Nat
  BY <1>1, LenProperties DEF IsStack
<1>. DEFINE u == op_fadd(s[k + 1], v)
            T == S \cup {u}
<1>3. s \in Seq(T) /\ u \in T /\ k + 1 \in 1..n /\ DOMAIN s = 1..n
  BY <1>1, <1>2
<1>4. StackAdds(s, k, v) = [s EXCEPT ![k + 1] = u]
  BY <1>2 DEF StackAdds
<1>. HIDE DEF T, u
<1>5. [s EXCEPT ![k + 1] = u] \in Seq(T) /\ Len([s EXCEPT ![k + 1] = u]) = n
  BY <1>2, <1>3, ExceptSeq
<1>6. /\ [s EXCEPT ![k + 1] = u][k + 1] = u
      /\ \A i \in 1..n : i # k + 1 => [s EXCEPT ![k + 1] = u][i] = s[i]
  BY <1>3
<1>. QED
  BY <1>2, <1>4, <1>5, <1>6 DEF IsStack, u

\* and a pop.
LEMMA PoppedSequence ==
    ASSUME NEW s, NEW n, IsStack(s, n), n > 0
    PROVE  /\ IsStack(Tail(s), n - 1) /\ n \in Nat
           /\ \A i \in 1..(n - 1) : Tail(s)[i] = s[i + 1]
<1>1. PICK S : s \in Seq(S)
  BY DEF IsStack
<1>2. Len(s) = n /\ n \in Nat
  BY <1>1, LenProperties DEF IsStack
<1>3. s # << >>
  BY <1>2
<1>4. Tail(s) \in Seq(S) /\ Len(Tail(s)) = n - 1 /\ \A i \in 1..(n - 1) : Tail(s)[i] = s[i + 1]
  BY <1>1, <1>2, <1>3, HeadTailProperties
<1>. QED
  BY <1>2, <1>4 DEF IsStack

\* A push puts a number on the stack that the ring holds,
LEMMA PushHolds ==
    ASSUME NEW f, NEW g, NEW t, IsRing(f, g, t), NEW s, NEW n, IsStack(s, n),
           Holds(f, g, t, s, n), n < StackSize, NEW v
    PROVE  LET b == At(t, StackSize - 1)
           IN  Holds([f EXCEPT ![b] = v], [g EXCEPT ![b] = "valid"], b, <<v>> \o s, n + 1)
<1>. DEFINE b == At(t, StackSize - 1)
            p == <<v>> \o s
            F == [f EXCEPT ![b] = v]
            G == [g EXCEPT ![b] = "valid"]
<1>1. n \in Nat /\ p[1] = v /\ \A i \in 1..n : p[i + 1] = s[i]
  <2>1. OnTop(p, v, s, n)
    BY PushedSequence
  <2>. HIDE DEF p
  <2>. QED
    BY <2>1 DEF OnTop
<1>2. /\ b \in Regs /\ At(b, 0) = b /\ \A i \in Regs : i # 0 => At(b, i) = At(t, i - 1)
  BY Above DEF IsRing
<1>. HIDE DEF p, b
<1>3. F[b] = v /\ G[b] = "valid" /\ \A r \in Regs : r # b => F[r] = f[r] /\ G[r] = g[r]
  BY <1>2 DEF IsRing
<1>. HIDE DEF F, G
<1>4. ASSUME NEW i \in Regs
      PROVE  /\ i < n + 1 => F[At(b, i)] = p[i + 1] /\ G[At(b, i)] = "valid"
             /\ ~(i < n + 1) => G[At(b, i)] = "empty"
  <2>0. i \in Nat /\ i < StackSize /\ StackSize \in Nat \ {0}
    BY Sizes
  <2>1. CASE i = 0
    BY <1>1, <1>2, <1>3, <2>1
  <2>2. CASE i # 0
    <3>1. i - 1 \in Regs /\ i - 1 \in Nat /\ 0 \in Regs
      BY <2>0, <2>2, Sizes
    <3>2. At(b, i) # b /\ At(b, i) \in Regs
      BY <1>2, <2>2, <3>1, Distinct
    <3>3. F[At(b, i)] = f[At(t, i - 1)] /\ G[At(b, i)] = g[At(t, i - 1)]
      BY <1>2, <1>3, <2>2, <3>2
    <3>4. /\ i - 1 < n => f[At(t, i - 1)] = s[(i - 1) + 1] /\ g[At(t, i - 1)] = "valid"
          /\ ~(i - 1 < n) => g[At(t, i - 1)] = "empty"
      BY <3>1 DEF Holds
    <3>5. (i - 1) + 1 = i /\ (i - 1 < n <=> i < n + 1) /\ (i - 1 < n => i \in 1..n)
      BY <1>1, <2>0, <2>2
    <3>6. i - 1 < n => p[i + 1] = s[(i - 1) + 1]
      BY <1>1, <3>5
    <3>. QED
      BY <3>3, <3>4, <3>5, <3>6
  <2>. QED
    BY <2>1, <2>2
<1>5. n + 1 \in Nat /\ n + 1 <= StackSize
  BY <1>1, Sizes
<1>6. Holds(F, G, b, p, n + 1)
  BY <1>4, <1>5 DEF Holds
<1>. QED
  BY <1>6 DEF F, G, b, p

\* a sum is that of the number it replaces,
LEMMA AddHolds ==
    ASSUME NEW f, NEW g, NEW t, IsRing(f, g, t), NEW s, NEW n, IsStack(s, n),
           Holds(f, g, t, s, n), NEW k \in Regs, k < n, NEW v
    PROVE  Holds([f EXCEPT ![At(t, k)] = op_fadd(f[At(t, k)], v)], g, t, StackAdds(s, k, v), n)
<1>. DEFINE b == At(t, k)
            u == op_fadd(f[b], v)
            F == [f EXCEPT ![b] = u]
            p == StackAdds(s, k, v)
<1>0. t \in Regs /\ k \in Nat
  BY Sizes DEF IsRing
<1>1. /\ n \in Nat /\ p[k + 1] = op_fadd(s[k + 1], v)
      /\ \A i \in 1..n : i # k + 1 => p[i] = s[i]
  BY <1>0, AddedSequence
<1>2. f[b] = s[k + 1] /\ n <= StackSize
  BY DEF Holds
<1>3. b \in Regs
  BY <1>0, Wraps, Sizes
<1>. HIDE DEF p, b
<1>4. F[b] = u /\ \A r \in Regs : r # b => F[r] = f[r]
  BY <1>3 DEF IsRing
<1>5. u = p[k + 1]
  BY <1>1, <1>2
<1>. HIDE DEF F, u
<1>6. ASSUME NEW i \in Regs
      PROVE  /\ i < n => F[At(t, i)] = p[i + 1] /\ g[At(t, i)] = "valid"
             /\ ~(i < n) => g[At(t, i)] = "empty"
  <2>0. i \in Nat /\ At(t, i) \in Regs
    BY <1>0, Wraps, Sizes
  <2>1. /\ i < n => f[At(t, i)] = s[i + 1] /\ g[At(t, i)] = "valid"
        /\ ~(i < n) => g[At(t, i)] = "empty"
    BY DEF Holds
  <2>2. CASE i = k
    BY <1>4, <1>5, <2>1, <2>2 DEF b
  <2>3. CASE i # k
    <3>1. At(t, i) # b
      BY <1>0, <2>3, Distinct DEF b
    <3>2. i < n => i + 1 \in 1..n /\ i + 1 # k + 1
      BY <1>0, <1>1, <2>0, <2>3
    <3>3. F[At(t, i)] = f[At(t, i)] /\ (i < n => p[i + 1] = s[i + 1])
      BY <1>1, <1>4, <2>0, <3>1, <3>2
    <3>. QED
      BY <2>1, <3>3
  <2>. QED
    BY <2>2, <2>3
<1>7. Holds(F, g, t, p, n)
  BY <1>1, <1>2, <1>6 DEF Holds
<1>. QED
  BY <1>7 DEF F, u, b, p

\* and a pop takes one away.
LEMMA PopHolds ==
    ASSUME NEW f, NEW g, NEW t, IsRing(f, g, t), NEW s, NEW n, IsStack(s, n),
           Holds(f, g, t, s, n), n > 0
    PROVE  Holds(f, [g EXCEPT ![t] = "empty"], At(t, 1), Tail(s), n - 1)
<1>. DEFINE b == At(t, 1)
            p == Tail(s)
            G == [g EXCEPT ![t] = "empty"]
<1>0. t \in Regs
  BY DEF IsRing
<1>1. n \in Nat /\ \A i \in 1..(n - 1) : p[i] = s[i + 1]
  BY PoppedSequence
<1>2. /\ b \in Regs /\ At(t, 0) = t
      /\ \A i \in Regs : i + 1 \in Regs => At(b, i) = At(t, i + 1)
      /\ \A i \in Regs : i + 1 \notin Regs => At(b, i) = t
  BY <1>0, Below
<1>. HIDE DEF p, b
<1>3. G[t] = "empty" /\ \A r \in Regs : r # t => G[r] = g[r]
  BY <1>0 DEF IsRing
<1>4. n <= StackSize /\ StackSize \in Nat \ {0}
  BY Sizes DEF Holds
<1>. HIDE DEF G
<1>5. ASSUME NEW i \in Regs
      PROVE  /\ i < n - 1 => f[At(b, i)] = p[i + 1] /\ G[At(b, i)] = "valid"
             /\ ~(i < n - 1) => G[At(b, i)] = "empty"
  <2>0. i \in Nat /\ i < StackSize /\ 0 \in Regs /\ (i + 1 \in Regs <=> i + 1 < StackSize)
    BY <1>4, Sizes
  <2>1. CASE i + 1 \in Regs
    <3>1. At(t, i + 1) # t /\ At(t, i + 1) \in Regs
      BY <1>0, <1>2, <2>0, <2>1, Distinct
    <3>2. At(b, i) = At(t, i + 1) /\ G[At(b, i)] = g[At(t, i + 1)]
      BY <1>2, <1>3, <2>1, <3>1
    <3>3. /\ i + 1 < n => f[At(t, i + 1)] = s[(i + 1) + 1] /\ g[At(t, i + 1)] = "valid"
          /\ ~(i + 1 < n) => g[At(t, i + 1)] = "empty"
      BY <2>1 DEF Holds
    <3>4. (i + 1 < n <=> i < n - 1) /\ (i < n - 1 => i + 1 \in 1..(n - 1))
      BY <1>1, <2>0
    <3>5. i < n - 1 => p[i + 1] = s[(i + 1) + 1]
      BY <1>1, <3>4
    <3>. QED
      BY <3>2, <3>3, <3>4, <3>5
  <2>2. CASE i + 1 \notin Regs
    <3>1. ~(i < n - 1)
      BY <1>1, <1>4, <2>0, <2>2
    <3>2. G[At(b, i)] = "empty"
      BY <1>2, <1>3, <2>2
    <3>. QED
      BY <3>1, <3>2
  <2>. QED
    BY <2>1, <2>2
<1>6. n - 1 \in Nat /\ n - 1 <= StackSize
  BY <1>1, <1>4
<1>7. Holds(f, G, b, p, n - 1)
  BY <1>5, <1>6 DEF Holds
<1>. QED
  BY <1>7 DEF G, b, p

-----------------------------------------------------------------------------
(***************************************************************************)
(* The inductive invariant: used as a stack, the ring holds the numbers that  *)
(* a stack of unlimited depth would hold, and they are not too many for it.   *)
(***************************************************************************)
Ring == IsRing(st, tag, top) /\ loose \in BOOLEAN

Stacked(n) == Holds(st, tag, top, stack, n)

IInv == Ring /\ \E n : IsStack(stack, n) /\ (~loose => Stacked(n))

\* The registers' names, and the history's length.
LEMMA Names ==
    ASSUME Ring, NEW n, IsStack(stack, n)
    PROVE  /\ Len(stack) = n /\ n \in Nat
           /\ \A i \in Regs : ST(i) = At(top, i) /\ ST(i) \in Regs
           /\ Before = At(top, StackSize - 1) /\ Before \in Regs
           /\ Next_ = At(top, 1) /\ Next_ \in Regs
           /\ ST(0) = top /\ 0 \in Regs
<1>1. top \in Regs /\ top \in Nat /\ top < StackSize /\ StackSize \in Nat \ {0}
  BY Sizes DEF Ring, IsRing
<1>2. Len(stack) = n /\ n \in Nat
  BY LenProperties DEF IsStack
<1>3. ASSUME NEW i \in Regs PROVE ST(i) = At(top, i) /\ ST(i) \in Regs
  <2>1. i \in Nat /\ i < StackSize
    BY Sizes
  <2>2. ST(i) = At(top, i)
    BY DEF ST, At
  <2>. QED
    BY <1>1, <2>1, <2>2, Wraps
<1>4. Before = At(top, StackSize - 1)
  <2>1. top + StackSize - 1 = top + (StackSize - 1)
    BY <1>1
  <2>. QED
    BY <2>1 DEF Before, At
<1>5. Next_ = At(top, 1)
  BY DEF Next_, At
<1>6. At(top, StackSize - 1) \in Regs /\ At(top, 1) \in Regs /\ At(top, 0) = top /\ 0 \in Regs
  BY <1>1, Above, Below, Sizes
<1>7. ST(0) = top
  BY <1>3, <1>6
<1>. QED
  BY <1>2, <1>3, <1>4, <1>5, <1>6, <1>7

\* A push.
LEMMA PushKeeps ==
    ASSUME Ring, NEW n, IsStack(stack, n), NEW v, Pushes(v), loose' \in BOOLEAN,
           ~loose' => Stacked(n) /\ n < StackSize
    PROVE  Ring' /\ IsStack(stack', n + 1) /\ (~loose' => Stacked(n + 1)')
<1>1. IsStack(stack', n + 1)
  BY PushedSequence DEF Pushes
<1>. DEFINE b == Before
<1>2. b = At(top, StackSize - 1) /\ b \in Regs /\ ST(0) = top /\ 0 \in Regs /\ n \in Nat
      /\ ST(0) = At(top, 0)
  BY Names
<1>3. /\ top' = b /\ tag' = [tag EXCEPT ![b] = "valid"] /\ st' = [st EXCEPT ![b] = v]
      /\ stack' = <<v>> \o stack
  BY DEF Pushes
<1>. HIDE DEF b
<1>4. Ring'
  BY <1>2, <1>3 DEF Ring, IsRing
<1>5. ASSUME ~loose' PROVE Stacked(n + 1)'
  <2>1. Holds(st, tag, top, stack, n) /\ n < StackSize
    BY <1>5 DEF Stacked
  <2>2. Holds(st', tag', top', stack', n + 1)
    <3>1. Holds([st EXCEPT ![b] = v], [tag EXCEPT ![b] = "valid"], b, <<v>> \o stack, n + 1)
      BY <1>2, <2>1, PushHolds DEF Ring
    <3>. QED
      BY <1>3, <3>1
  <2>. QED
    BY <2>2 DEF Stacked
<1>. QED
  BY <1>1, <1>4, <1>5

\* A sum.
LEMMA AddKeeps ==
    ASSUME Ring, NEW n, IsStack(stack, n), NEW k \in Regs, k < n, NEW v,
           st' = [st EXCEPT ![ST(k)] = op_fadd(@, v)], UNCHANGED <<tag, top>>,
           stack' = StackAdds(stack, k, v), Holds(st, tag, top, stack, n)
    PROVE  Holds(st', tag', top', stack', n)
<1>1. ST(k) = At(top, k)
  BY Names
<1>2. Holds([st EXCEPT ![At(top, k)] = op_fadd(st[At(top, k)], v)], tag, top,
            StackAdds(stack, k, v), n)
  BY AddHolds DEF Ring
<1>. QED
  BY <1>1, <1>2

\* What the ring holds when it is used as a stack.
LEMMA HeldNumbers ==
    ASSUME Ring, NEW n, IsStack(stack, n), Stacked(n), NEW i \in Regs, i < n
    PROVE  /\ st[ST(i)] = stack[i + 1] /\ st[top] = stack[1]
           /\ Holds(st, tag, top, stack, n) /\ 0 < n /\ n <= StackSize
<1>1. /\ ST(i) = At(top, i) /\ ST(0) = At(top, 0) /\ ST(0) = top /\ 0 \in Regs
      /\ n \in Nat /\ i \in Nat /\ 0 < n
  BY Names, Sizes
<1>2. Holds(st, tag, top, stack, n)
  BY DEF Stacked
<1>3. st[At(top, i)] = stack[i + 1] /\ st[At(top, 0)] = stack[0 + 1] /\ n <= StackSize
  BY <1>1, <1>2 DEF Holds
<1>. QED
  BY <1>1, <1>2, <1>3

\* An addition in place.
LEMMA SumKeeps ==
    ASSUME IInv, UNCHANGED <<tag, top>>, loose' \in BOOLEAN,
           NEW k \in Regs, NEW v, NEW w,
           st' = [st EXCEPT ![ST(k)] = op_fadd(@, v)],
           stack' = StackAdds(stack, k, w) \/ stack' = stack,
           \A n : IsStack(stack, n) /\ ~loose' =>
               ~loose /\ k < n /\ stack' = StackAdds(stack, k, w) /\ (Stacked(n) => v = w)
    PROVE  IInv'
<1>1. Ring
  BY DEF IInv
<1>2. PICK n : IsStack(stack, n) /\ (~loose => Stacked(n))
  BY DEF IInv
<1>3. Ring'
  BY <1>1 DEF Ring, IsRing
<1>4. Len(stack) = n /\ n \in Nat /\ k \in Nat
  BY <1>1, <1>2, Names, Sizes
<1>5. IsStack(stack', n)
  <2>1. CASE k < n
    <3>1. IsStack(StackAdds(stack, k, w), n)
      BY <1>2, <1>4, <2>1, AddedSequence
    <3>. QED
      BY <1>2, <3>1
  <2>2. CASE ~(k < n)
    <3>1. StackAdds(stack, k, w) = stack
      BY <1>4, <2>2 DEF StackAdds
    <3>. QED
      BY <1>2, <3>1
  <2>. QED
    BY <2>1, <2>2
<1>6. ASSUME ~loose' PROVE Stacked(n)'
  <2>1. ~loose /\ k < n /\ stack' = StackAdds(stack, k, w) /\ Stacked(n) /\ v = w
    BY <1>2, <1>6
  <2>2. Holds(st, tag, top, stack, n)
    BY <2>1 DEF Stacked
  <2>3. Holds(st', tag', top', stack', n)
    BY <1>1, <1>2, <2>1, <2>2, AddKeeps
  <2>. QED
    BY <2>3 DEF Stacked
<1>. QED
  BY <1>3, <1>5, <1>6 DEF IInv

\* An addition that pops.
LEMMA PopKeeps ==
    ASSUME IInv, NEW i \in Regs, Faddp(i)
    PROVE  IInv'
<1>1. Ring
  BY DEF IInv
<1>2. PICK n : IsStack(stack, n) /\ (~loose => Stacked(n))
  BY DEF IInv
<1>3. /\ Len(stack) = n /\ n \in Nat /\ i \in Nat
      /\ ST(i) = At(top, i) /\ Next_ = At(top, 1) /\ Next_ \in Regs
  BY <1>1, <1>2, Names, Sizes
<1>4. /\ st' = [st EXCEPT ![ST(i)] = op_fadd(st[ST(i)], st[top])]
      /\ loose' = (loose \/ i >= n)
      /\ tag' = [tag EXCEPT ![top] = "empty"] /\ top' = Next_
      /\ stack' = IF i < n THEN Tail(StackAdds(stack, i, stack[1])) ELSE stack
  BY <1>3 DEF Faddp, Adds
<1>5. Ring'
  BY <1>1, <1>3, <1>4 DEF Ring, IsRing
<1>6. CASE i < n
  <2>. DEFINE s == StackAdds(stack, i, stack[1])
  <2>1. IsStack(s, n)
    BY <1>2, <1>3, <1>6, AddedSequence
  <2>2. n > 0 /\ stack' = Tail(s)
    BY <1>3, <1>4, <1>6
  <2>. HIDE DEF s
  <2>3. IsStack(stack', n - 1)
    BY <2>1, <2>2, PoppedSequence
  <2>4. ASSUME ~loose' PROVE Stacked(n - 1)'
    <3>1. Stacked(n)
      BY <1>2, <1>4, <2>4
    <3>2. st[top] = stack[1] /\ Holds(st, tag, top, stack, n)
      BY <1>1, <1>2, <1>6, <3>1, HeldNumbers
    <3>. DEFINE f == [st EXCEPT ![At(top, i)] = op_fadd(st[At(top, i)], stack[1])]
    <3>3. st' = f
      BY <1>3, <1>4, <3>2
    <3>4. Holds(f, tag, top, s, n)
      BY <1>1, <1>2, <1>6, <3>2, AddHolds DEF Ring, s
    <3>5. IsRing(f, tag, top)
      BY <1>1, <1>3 DEF Ring, IsRing
    <3>. HIDE DEF f
    <3>6. Holds(f, [tag EXCEPT ![top] = "empty"], At(top, 1), Tail(s), n - 1)
      BY <2>1, <2>2, <3>4, <3>5, PopHolds
    <3>7. Holds(st', tag', top', stack', n - 1)
      BY <1>3, <1>4, <2>2, <3>3, <3>6
    <3>. QED
      BY <1>4, <3>7 DEF Stacked
  <2>. QED
    BY <1>5, <2>3, <2>4 DEF IInv
<1>7. CASE ~(i < n)
  <2>1. stack' = stack
    BY <1>4, <1>7, Zenon
  <2>2. i >= n
    BY <1>3, <1>7
  <2>3. loose'
    BY <1>4, <2>2, Zenon
  <2>. QED
    BY <1>2, <1>5, <2>1, <2>3 DEF IInv
<1>. QED
  BY <1>6, <1>7

\* Initially the ring is empty.
LEMMA EmptyHolds ==
    ASSUME NEW f, NEW g, DOMAIN f = Regs, g = [r \in Regs |-> "empty"]
    PROVE  IsRing(f, g, 0) /\ IsStack(<< >>, 0) /\ Holds(f, g, 0, << >>, 0)
<1>1. StackSize \in Nat \ {0} /\ 0 \in Regs
  BY Sizes
<1>2. IsStack(<< >>, 0)
  <2>1. << >> \in Seq({}) /\ Len(<< >>) = 0
    OBVIOUS
  <2>. QED
    BY <2>1 DEF IsStack
<1>3. ASSUME NEW i \in Regs PROVE g[At(0, i)] = "empty"
  <2>1. i \in Nat /\ i < StackSize
    BY Sizes
  <2>2. At(0, i) \in Regs
    BY <1>1, <2>1, Wraps
  <2>. QED
    BY <2>2
<1>4. \A i \in Regs : ~(i < 0)
  BY Sizes
<1>. QED
  BY <1>1, <1>2, <1>3, <1>4 DEF IsRing, Holds

\* FINIT, and a reset.
LEMMA InitInv == Init => IInv
<1>. SUFFICES ASSUME Init PROVE IInv
  OBVIOUS
<1>1. /\ DOMAIN st = Regs /\ tag = [r \in Regs |-> "empty"]
      /\ top = 0 /\ loose = FALSE /\ stack = << >>
  BY DEF Init
<1>2. IsRing(st, tag, top) /\ IsStack(stack, 0) /\ Holds(st, tag, top, stack, 0)
  BY <1>1, EmptyHolds
<1>3. Ring
  BY <1>1, <1>2 DEF Ring
<1>. QED
  BY <1>2, <1>3 DEF IInv, Stacked

\* Every instruction keeps the invariant.
LEMMA NextInv ==
    ASSUME IInv, [Next]_vars
    PROVE  IInv'
<1>1. Ring
  BY DEF IInv
<1>2. PICK n : IsStack(stack, n) /\ (~loose => Stacked(n))
  BY DEF IInv
<1>3. /\ Len(stack) = n /\ n \in Nat /\ 0 \in Regs /\ ST(0) = top
      /\ Next_ \in Regs /\ Before \in Regs /\ loose \in BOOLEAN
      /\ \A i \in Regs : ST(i) \in Regs /\ i \in Nat
      /\ StackSize \in Nat
  BY <1>1, <1>2, Names, Sizes DEF Ring
<1>4. \A m : IsStack(stack, m) => m = n
  BY <1>3 DEF IsStack
<1>5. ASSUME NEW v, op_fld(v)
      PROVE  IInv'
  <2>1. Pushes(Float(v)) /\ loose' = (loose \/ n >= StackSize)
    BY <1>3, <1>5 DEF op_fld
  <2>2. ~(n >= StackSize) => n < StackSize
    BY <1>3
  <2>3. loose' \in BOOLEAN /\ (~loose' => Stacked(n) /\ n < StackSize)
    BY <1>2, <2>1, <2>2, Zenon
  <2>4. Ring' /\ IsStack(stack', n + 1) /\ (~loose' => Stacked(n + 1)')
    BY <1>1, <1>2, <2>1, <2>3, PushKeeps
  <2>. QED
    BY <2>4 DEF IInv
<1>6. ASSUME NEW i \in Regs, Fld_st(i)
      PROVE  IInv'
  <2>1. Pushes(st[ST(i)]) /\ loose' = (loose \/ n >= StackSize \/ i >= n)
    BY <1>3, <1>6 DEF Fld_st
  <2>2. ~(n >= StackSize) => n < StackSize
    BY <1>3
  <2>3. loose' \in BOOLEAN /\ (~loose' => Stacked(n) /\ n < StackSize)
    BY <1>2, <2>1, <2>2, Zenon
  <2>4. Ring' /\ IsStack(stack', n + 1) /\ (~loose' => Stacked(n + 1)')
    BY <1>1, <1>2, <2>1, <2>3, PushKeeps
  <2>. QED
    BY <2>4 DEF IInv
<1>7. ASSUME NEW w, Adds(0, w), stack' = StackAdds(stack, 0, w), UNCHANGED <<tag, top>>
      PROVE  IInv'
  <2>1. st' = [st EXCEPT ![ST(0)] = op_fadd(@, w)] /\ loose' = (loose \/ 0 >= n)
    BY <1>3, <1>7 DEF Adds
  <2>2. ~(0 >= n) => 0 < n
    BY <1>3
  <2>3. loose' \in BOOLEAN /\ (~loose' => ~loose /\ 0 < n)
    BY <2>1, <2>2, Zenon
  <2>. QED
    BY <1>3, <1>4, <1>7, <2>1, <2>3, SumKeeps
<1>8. ASSUME NEW v, op_fadd_mem(v)
      PROVE  IInv'
  BY <1>7, <1>8 DEF op_fadd_mem
<1>9. ASSUME NEW v, op_fiadd(v)
      PROVE  IInv'
  BY <1>7, <1>9 DEF op_fiadd
<1>10. ASSUME NEW i \in Regs, Fadd_st0(i)
       PROVE  IInv'
  <2>1. /\ st' = [st EXCEPT ![ST(0)] = op_fadd(@, st[ST(i)])]
        /\ loose' = (loose \/ i >= n) /\ UNCHANGED <<tag, top>>
        /\ stack' = IF i < n THEN StackAdds(stack, 0, stack[i + 1]) ELSE stack
    BY <1>3, <1>10 DEF Fadd_st0
  <2>2. ~(i >= n) => i < n /\ 0 < n
    <3>1. i \in Nat /\ n \in Nat
      BY <1>3
    <3>. QED
      BY <3>1
  <2>3. loose' \in BOOLEAN /\ (~loose' => ~loose /\ i < n /\ 0 < n)
    BY <2>1, <2>2, Zenon
  <2>4. Stacked(n) /\ i < n => st[ST(i)] = stack[i + 1]
    BY <1>1, <1>2, HeldNumbers
  <2>5. \A m : IsStack(stack, m) /\ ~loose' =>
            ~loose /\ 0 < m /\ stack' = StackAdds(stack, 0, stack[i + 1])
            /\ (Stacked(m) => st[ST(i)] = stack[i + 1])
    BY <1>4, <2>1, <2>3, <2>4
  <2>. QED
    BY <1>3, <2>1, <2>3, <2>5, SumKeeps
<1>11. ASSUME NEW i \in Regs, Fadd_sti(i)
       PROVE  IInv'
  <2>1. /\ st' = [st EXCEPT ![ST(i)] = op_fadd(@, st[top])]
        /\ loose' = (loose \/ i >= n) /\ UNCHANGED <<tag, top>>
        /\ stack' = IF i < n THEN StackAdds(stack, i, stack[1]) ELSE stack
    BY <1>3, <1>11 DEF Fadd_sti, Adds
  <2>2. ~(i >= n) => i < n
    BY <1>3
  <2>3. loose' \in BOOLEAN /\ (~loose' => ~loose /\ i < n)
    BY <2>1, <2>2, Zenon
  <2>4. Stacked(n) /\ i < n => st[top] = stack[1]
    BY <1>1, <1>2, HeldNumbers
  <2>5. \A m : IsStack(stack, m) /\ ~loose' =>
            ~loose /\ i < m /\ stack' = StackAdds(stack, i, stack[1])
            /\ (Stacked(m) => st[top] = stack[1])
    BY <1>4, <2>1, <2>3, <2>4
  <2>. QED
    BY <2>1, <2>3, <2>5, SumKeeps
<1>12. ASSUME NEW i \in Regs, Faddp(i)
       PROVE  IInv'
  BY <1>12, PopKeeps
<1>13. ASSUME NEW i \in Regs, Ffree(i)
       PROVE  IInv'
  <2>1. /\ tag' = [tag EXCEPT ![ST(i)] = "empty"] /\ loose' = TRUE
        /\ UNCHANGED <<st, top, stack>>
    BY <1>13 DEF Ffree
  <2>. QED
    BY <1>1, <1>2, <2>1 DEF IInv, Ring, IsRing
<1>14. ASSUME NEW to \in Regs, Turns(to)
       PROVE  IInv'
  BY <1>1, <1>2, <1>14 DEF Turns, IInv, Ring, IsRing
<1>15. CASE Fincstp \/ Fdecstp
  BY <1>3, <1>14, <1>15 DEF Fincstp, Fdecstp
<1>16. CASE Fnop
  <2>1. UNCHANGED <<st, tag, top, stack, loose>>
    BY <1>16 DEF Fnop
  <2>. QED
    BY <1>1, <1>2, <2>1 DEF IInv, Ring, Stacked
<1>17. CASE softx87_finit_setup
  <2>1. /\ DOMAIN st' = Regs /\ tag' = [r \in Regs |-> "empty"]
        /\ top' = 0 /\ loose' = FALSE /\ stack' = << >>
    BY <1>17 DEF softx87_finit_setup
  <2>2. IsRing(st', tag', top') /\ IsStack(stack', 0) /\ Holds(st', tag', top', stack', 0)
    BY <2>1, EmptyHolds
  <2>3. Ring'
    BY <2>1, <2>2 DEF Ring
  <2>. QED
    BY <2>2, <2>3 DEF IInv, Stacked
<1>18. CASE UNCHANGED vars
  BY <1>1, <1>2, <1>18 DEF vars, IInv, Ring, Stacked
<1>. QED
  BY <1>5, <1>6, <1>8, <1>9, <1>10, <1>11, <1>12, <1>13, <1>15, <1>16, <1>17, <1>18 DEF Next

(***************************************************************************)
(* The invariant.                                                          *)
(***************************************************************************)
THEOREM RingInvariant == Spec => []IInv
  BY InitInv, NextInv, PTL DEF Spec

(***************************************************************************)
(* The ring of registers is a stack when it is used as one: for every number  *)
(* of registers and every operand.                                         *)
(***************************************************************************)
THEOREM StackCorrect == Spec => []StackHolds
<1>1. ASSUME IInv, ~loose
      PROVE  /\ Len(stack) <= StackSize
             /\ \A i \in Regs :
                   IF i < Len(stack) THEN st[ST(i)] = stack[i + 1] /\ tag[ST(i)] = "valid"
                   ELSE tag[ST(i)] = "empty"
  <2>1. Ring
    BY <1>1 DEF IInv
  <2>2. PICK n : IsStack(stack, n) /\ Stacked(n)
    BY <1>1 DEF IInv
  <2>3. Len(stack) = n /\ \A i \in Regs : ST(i) = At(top, i)
    BY <2>1, <2>2, Names
  <2>4. Holds(st, tag, top, stack, n)
    BY <2>2 DEF Stacked
  <2>5. /\ n <= StackSize
        /\ \A i \in Regs :
              IF i < n THEN st[ST(i)] = stack[i + 1] /\ tag[ST(i)] = "valid"
              ELSE tag[ST(i)] = "empty"
    BY <2>3, <2>4 DEF Holds
  <2>. QED
    BY <2>3, <2>5
<1>2. IInv => StackHolds
  BY <1>1, Zenon DEF StackHolds
<1>. QED
  BY <1>2, RingInvariant, PTL

-----------------------------------------------------------------------------
(***************************************************************************)
(* Numbers: a mantissa and its half, and the shift that makes one normal.     *)
(***************************************************************************)
\* What the widths come to.
LEMMA Widths ==
    /\ Mant \in Nat /\ Mant > 2 /\ Bias \in Nat /\ Bias >= Mant
    /\ Half \in Nat /\ Half >= 4 /\ Full \in Nat /\ Full = 2 * Half
    /\ Pow2 \in [Nat -> Nat \ {0}]
<1>1. Mant \in Nat /\ Mant > 2 /\ Bias \in Nat /\ Bias >= Mant
  BY NumberAssumption
<1>2. Pow2 \in [Nat -> Nat \ {0}] /\ \A n \in Nat : Pow2[n + 1] = 2 * Pow2[n]
  BY Powers
<1>3. Mant - 1 \in Nat /\ (Mant - 1) + 1 = Mant /\ 2 <= Mant - 1
  BY <1>1
<1>4. Pow2[2] <= Pow2[Mant - 1] /\ Pow2[2] = 4
  BY <1>3, PowersGrow, SmallPowers
<1>5. Pow2[Mant] = 2 * Pow2[Mant - 1]
  BY <1>2, <1>3
<1>. QED
  BY <1>1, <1>2, <1>3, <1>4, <1>5 DEF Half, Full

\* Some shift makes a mantissa that is not 0 normal.
LEMMA ShiftExists ==
    ASSUME NEW m \in Nat, 0 < m, m < Full
    PROVE  \E s \in 0..(Mant - 1) : m * Pow2[s] \in Half..(Full - 1)
<1>0. /\ Half \in Nat /\ Full \in Nat /\ Full = 2 * Half /\ Mant \in Nat /\ Mant > 2
      /\ \A n \in Nat : Pow2[n] \in Nat \ {0}
      /\ Pow2[0] = 1 /\ \A n \in Nat : Pow2[n + 1] = 2 * Pow2[n]
  BY Widths, Powers
<1>. DEFINE N(s) == m * Pow2[s] >= Half /\ m * Pow2[s] < Full
            S == {s \in Nat : m * Pow2[s] < Half \/ \E t \in 0..s : N(t)}
<1>1. 0 \in S
  BY <1>0
<1>2. ASSUME NEW s \in Nat, s \in S PROVE s + 1 \in S
  <2>1. CASE m * Pow2[s] < Half
    <3>1. m * Pow2[s + 1] = 2 * (m * Pow2[s]) /\ m * Pow2[s] \in Nat
      BY <1>0
    <3>2. m * Pow2[s + 1] < Full
      BY <1>0, <2>1, <3>1
    <3>3. m * Pow2[s + 1] < Half \/ N(s + 1)
      BY <1>0, <3>1, <3>2
    <3>. QED
      BY <3>3
  <2>2. CASE \E t \in 0..s : N(t)
    <3>1. PICK t \in 0..s : N(t)
      BY <2>2
    <3>2. t \in 0..(s + 1)
      OBVIOUS
    <3>. QED
      BY <3>1, <3>2
  <2>. QED
    BY <1>2, <2>1, <2>2
<1>3. Nat \subseteq S
  <2>. HIDE DEF S
  <2>. QED
    BY <1>1, <1>2, NatSetInduction
<1>4. Mant - 1 \in S /\ Pow2[Mant - 1] = Half /\ Mant - 1 \in Nat
  BY <1>0, <1>3 DEF Half
<1>5. m * Half >= 1 * Half
  BY <1>0
<1>6. \E t \in 0..(Mant - 1) : N(t)
  BY <1>0, <1>4, <1>5
<1>7. PICK t \in 0..(Mant - 1) : N(t)
  BY <1>6
<1>8. m * Pow2[t] \in Int
  BY <1>0, <1>4
<1>9. m * Pow2[t] \in Half..(Full - 1)
  BY <1>0, <1>7, <1>8
<1>. QED
  BY <1>9

\* A number of sign g, exponent e and mantissa m.
Number(g, e, m) == [sign |-> g, exp |-> e, man |-> m]

\* A normalised number is another form of the same.
LEMMA Normalized ==
    ASSUME NEW g, NEW e \in Int, NEW m \in Nat, m < Full
    PROVE  /\ m = 0 => softx87_normalize(Number(g, e, m)) = Number(g, e, m)
           /\ m # 0 => \E s \in 0..(Mant - 1) :
                 /\ softx87_normalize(Number(g, e, m)) = Number(g, e - s, m * Pow2[s])
                 /\ m * Pow2[s] >= Half /\ m * Pow2[s] < Full /\ m * Pow2[s] \in Nat
<1>. DEFINE v == Number(g, e, m)
            sh == CHOOSE s \in 0..(Mant - 1) : m * Pow2[s] \in Half..(Full - 1)
<1>1. v.man = m /\ v.exp = e /\ v.sign = g
  BY DEF Number
<1>2. CASE m = 0
  BY <1>1, <1>2 DEF softx87_normalize
<1>3. CASE m # 0
  <2>1. sh \in 0..(Mant - 1) /\ m * Pow2[sh] \in Half..(Full - 1)
    <3>1. 0 < m
      BY <1>3
    <3>2. \E s \in 0..(Mant - 1) : m * Pow2[s] \in Half..(Full - 1)
      BY <3>1, ShiftExists
    <3>. QED
      BY <3>2, Zenon
  <2>2. softx87_normalize(v) = [v EXCEPT !.exp = e - sh, !.man = m * Pow2[sh]]
    BY <1>1, <1>3 DEF softx87_normalize
  <2>. HIDE DEF sh
  <2>3. softx87_normalize(v) = Number(g, e - sh, m * Pow2[sh])
    BY <2>2 DEF Number
  <2>4. m * Pow2[sh] >= Half /\ m * Pow2[sh] < Full /\ m * Pow2[sh] \in Nat
    BY <2>1, Widths
  <2>. HIDE DEF v
  <2>. QED
    BY <1>3, <2>1, <2>3, <2>4 DEF v
<1>. QED
  BY <1>2, <1>3

\* A real operand is normal as it is.
LEMMA FloatLoaded ==
    ASSUME NEW v \in Floats
    PROVE  LET m == (Pow2[v.f] + v.frac) * Pow2[Mant - 1 - v.f]
           IN  /\ Float(v) = Number(v.sign, (v.exp - v.bias) + Bias, m)
               /\ m \in Nat /\ m >= Half /\ m < Full
               /\ m * Pow2[v.f] = (Pow2[v.f] + v.frac) * Half
               /\ v.sign \in 0..1 /\ v.exp \in Nat /\ v.bias \in Nat
<1>. DEFINE k == Mant - 1 - v.f
            a == Pow2[v.f]
            b == Pow2[k]
            m == (a + v.frac) * b
            e == (v.exp - v.bias) + Bias
<1>1. /\ v.f \in Nat /\ v.f <= Mant - 1 /\ v.bias \in Nat /\ v.sign \in 0..1
      /\ v.exp \in Nat /\ v.frac \in 0..(Pow2[v.f] - 1)
  BY Widths, StackAssumption
<1>2. k \in Nat /\ v.f + k = Mant - 1
  BY <1>1, Widths
<1>. HIDE DEF k
<1>3. a \in Nat \ {0} /\ b \in Nat \ {0} /\ a * b = Half
  <2>1. Pow2[v.f + k] = Pow2[v.f] * Pow2[k]
    BY <1>1, <1>2, PowerOfSum
  <2>. QED
    BY <1>1, <1>2, <2>1, Widths DEF Half
<1>4. e \in Int
  BY <1>1, Widths
<1>. HIDE DEF a, b
<1>5. v.frac \in Nat /\ v.frac + 1 <= a
  BY <1>1, <1>3 DEF a
<1>6. m = a * b + v.frac * b /\ (v.frac + 1) * b <= a * b /\ (v.frac + 1) * b = v.frac * b + b
      /\ v.frac * b \in Nat
  BY <1>3, <1>5
<1>7. m \in Nat /\ m >= Half /\ m < Full
  BY <1>3, <1>6, Widths
<1>8. m * a = (a + v.frac) * (a * b)
  BY <1>3, <1>5
<1>9. softx87_unpack_raw_fp(v.f, v.bias, v) = Number(v.sign, e, m)
  BY DEF softx87_unpack_raw_fp, Number, a, b, k
<1>. HIDE DEF m, e
<1>10. m # 0
  BY <1>7, Widths
<1>11. PICK s \in 0..(Mant - 1) :
          /\ softx87_normalize(Number(v.sign, e, m)) = Number(v.sign, e - s, m * Pow2[s])
          /\ m * Pow2[s] < Full
  BY <1>4, <1>7, <1>10, Normalized
<1>12. s = 0
  <2>1. CASE s # 0
    <3>1. s \in Nat /\ 1 <= s
      BY <2>1, Widths
    <3>2. Pow2[1] <= Pow2[s] /\ Pow2[1] = 2 /\ Pow2[s] \in Nat
      BY <3>1, PowersGrow, SmallPowers, Widths
    <3>3. m * 2 <= m * Pow2[s]
      BY <1>7, <3>2
    <3>. QED
      BY <1>7, <1>11, <3>2, <3>3, Widths
  <2>. QED
    BY <2>1
<1>13. Pow2[s] = 1 /\ e - s = e /\ m * 1 = m
  BY <1>4, <1>7, <1>12, Powers
<1>14. Float(v) = Number(v.sign, e, m)
  BY <1>9, <1>11, <1>13 DEF Float
<1>. QED
  BY <1>1, <1>3, <1>7, <1>8, <1>14 DEF m, a, b, e, k

\* An integer operand, but the least, is normal or 0, and never small.
LEMMA IntegerLoaded ==
    ASSUME NEW v \in Ints
    PROVE  /\ \E g \in 0..1, e \in Int, m \in 0..(Full - 1) : Integer(v) = Number(g, e, m)
           /\ v.x = 0 => Integer(v) = Number(0, (v.n - 2) + Bias, 0)
           /\ ~Least(v) /\ v.x # 0 =>
                \E s \in 0..(v.n - 2) : \E m \in Half..(Full - 1) :
                   /\ Integer(v) = Number(IF v.x < 0 THEN 1 ELSE 0, ((v.n - 2) + Bias) - s, m)
                   /\ m * Pow2[(v.n - 2) - s] = Abs(v.x) * Half
           /\ v.n \in Nat /\ v.n >= 2 /\ v.x \in Int
<1>. DEFINE k == Mant - v.n + 1
            p == Pow2[v.n - 1]
            b == Pow2[k]
            x == IF v.x < 0 THEN -v.x ELSE v.x
            m == (x * b) % Full
            e == (v.n - 2) + Bias
            g == IF v.x < 0 THEN 1 ELSE 0
<1>1. /\ v.n \in Nat /\ v.n >= 2 /\ v.n <= Mant /\ v.x \in Int
      /\ v.x \in -(Pow2[v.n - 1])..(Pow2[v.n - 1] - 1)
  <2>1. v.n \in 2..Mant /\ v.x \in -(Pow2[v.n - 1])..(Pow2[v.n - 1] - 1)
    BY StackAssumption
  <2>2. v.n \in Nat /\ v.n >= 2 /\ v.n <= Mant
    BY <2>1, Widths
  <2>3. v.n - 1 \in Nat
    BY <2>2
  <2>4. Pow2[v.n - 1] \in Nat
    BY <2>3, Widths
  <2>. QED
    BY <2>1, <2>2, <2>4
<1>2. k \in Nat /\ v.n - 1 \in Nat /\ (v.n - 1) + k = Mant
  BY <1>1, Widths
<1>3. p \in Nat \ {0} /\ b \in Nat \ {0} /\ p * b = Full
  BY <1>2, Widths, PowerOfSum DEF Full
<1>4. e \in Int /\ g \in 0..1
  BY <1>1, Widths
<1>. HIDE DEF p, b
<1>5. x \in Nat /\ x <= p /\ (v.x # -p => x < p) /\ (v.x # 0 => x > 0)
  BY <1>1, <1>3 DEF p
<1>6. x = Abs(v.x)
  BY DEF Abs
<1>7. softx87_unpack_raw_int(v.n, v.x) = Number(g, e, m)
  BY DEF softx87_unpack_raw_int, Number, b
<1>. HIDE DEF x
<1>8. m \in Nat /\ m < Full
  <2>1. x * b \in Int
    BY <1>3, <1>5
  <2>. QED
    BY <2>1, DivMod, Widths
<1>9. ASSUME v.x = 0 PROVE m = 0
  <2>1. x * b = 0
    BY <1>3, <1>9 DEF x
  <2>. QED
    BY <2>1, Widths
<1>10. ASSUME ~Least(v) PROVE m = x * b
  <2>1. x < p
    BY <1>5, <1>10 DEF Least, p
  <2>2. x * b < p * b /\ x * b \in Nat
    BY <1>3, <1>5, <2>1
  <2>. QED
    BY <1>3, <2>2, Widths
<1>. HIDE DEF m, e, g
<1>11. Integer(v) = softx87_normalize(Number(g, e, m))
  BY <1>7 DEF Integer
<1>12. \E h \in 0..1, d \in Int, n \in 0..(Full - 1) : Integer(v) = Number(h, d, n)
  <2>1. CASE m = 0
    <3>1. Integer(v) = Number(g, e, m) /\ m \in 0..(Full - 1)
      BY <1>4, <1>8, <1>11, <2>1, Normalized, Widths
    <3>. QED
      BY <1>4, <3>1
  <2>2. CASE m # 0
    <3>1. PICK s \in 0..(Mant - 1) :
             /\ softx87_normalize(Number(g, e, m)) = Number(g, e - s, m * Pow2[s])
             /\ m * Pow2[s] < Full /\ m * Pow2[s] \in Nat
      BY <1>4, <1>8, <2>2, Normalized
    <3>2. e - s \in Int /\ m * Pow2[s] \in 0..(Full - 1)
      BY <1>4, <3>1, Widths
    <3>. QED
      BY <1>4, <1>11, <3>1, <3>2
  <2>. QED
    BY <2>1, <2>2
<1>13. ASSUME v.x = 0 PROVE Integer(v) = Number(0, e, 0)
  <2>1. g = 0 /\ m = 0
    BY <1>9, <1>13 DEF g
  <2>. QED
    BY <1>4, <1>8, <1>11, <2>1, Normalized
<1>14. ASSUME ~Least(v), v.x # 0
       PROVE  \E s \in 0..(v.n - 2) : \E n \in Half..(Full - 1) :
                 Integer(v) = Number(g, e - s, n) /\ n * Pow2[(v.n - 2) - s] = Abs(v.x) * Half
  <2>1. m = x * b /\ x > 0 /\ m # 0
    <3>1. m = x * b /\ x > 0
      BY <1>5, <1>10, <1>14
    <3>. QED
      BY <1>3, <1>5, <3>1
  <2>2. PICK s \in 0..(Mant - 1) :
           /\ softx87_normalize(Number(g, e, m)) = Number(g, e - s, m * Pow2[s])
           /\ m * Pow2[s] >= Half /\ m * Pow2[s] < Full /\ m * Pow2[s] \in Nat
    BY <1>4, <1>8, <2>1, Normalized
  <2>. DEFINE w == Pow2[s]
  <2>3. s \in Nat /\ w \in Nat \ {0}
    BY Widths
  <2>4. w < p
    <3>. HIDE DEF w
    <3>1. m * w = (x * w) * b /\ 1 * w <= x * w /\ x * w \in Nat
      BY <1>3, <1>5, <2>1, <2>3
    <3>2. CASE w >= p
      <4>1. (x * w) * b >= p * b
        <5>1. x * w >= p
          BY <1>3, <2>3, <3>1, <3>2
        <5>. QED
          BY <1>3, <3>1, <5>1
      <4>. QED
        BY <1>3, <2>2, <2>3, <3>1, <4>1, Widths DEF w
    <3>. QED
      BY <1>3, <2>3, <3>2
  <2>5. s <= v.n - 2
    <3>1. CASE v.n - 1 <= s
      <4>1. Pow2[v.n - 1] <= Pow2[s]
        BY <1>2, <2>3, <3>1, PowersGrow
      <4>. QED
        BY <1>3, <2>3, <2>4, <4>1 DEF p, w
    <3>. QED
      BY <1>1, <2>3, <3>1
  <2>. DEFINE j == (v.n - 2) - s
              c == Pow2[j]
  <2>6. j \in Nat /\ s + j = v.n - 2 /\ k + (v.n - 2) = Mant - 1 /\ v.n - 2 \in Nat
    BY <1>1, <2>3, <2>5, Widths
  <2>7. w * c = Pow2[v.n - 2] /\ b * Pow2[v.n - 2] = Half /\ c \in Nat
    <3>1. v.n - 2 \in Nat
      BY <2>6
    <3>. HIDE DEF j, k
    <3>2. Pow2[s + j] = Pow2[s] * Pow2[j] /\ Pow2[k + (v.n - 2)] = Pow2[k] * Pow2[v.n - 2]
      BY <1>2, <2>3, <2>6, <3>1, PowerOfSum
    <3>. QED
      BY <2>6, <3>2, Widths DEF Half, b
  <2>8. (m * w) * c = x * Half
    <3>. HIDE DEF w, c
    <3>1. (m * w) * c = x * (b * (w * c))
      BY <1>3, <1>5, <2>1, <2>3, <2>7
    <3>. QED
      BY <2>7, <3>1
  <2>9. m * w \in Half..(Full - 1) /\ s \in 0..(v.n - 2)
    BY <1>1, <2>2, <2>3, <2>5, Widths
  <2>. QED
    BY <1>6, <1>11, <2>2, <2>8, <2>9
<1>. QED
  BY <1>1, <1>12, <1>13, <1>14 DEF e, g

-----------------------------------------------------------------------------
(***************************************************************************)
(* Sums are numbers, whatever the operands.                                 *)
(***************************************************************************)
\* A mantissa shifted right.
LEMMA ScaledNat ==
    ASSUME NEW m \in Nat, NEW s \in Nat
    PROVE  Scaled(m, s) \in Nat
<1>1. Pow2[s] \in Nat \ {0}
  BY Widths
<1>2. m \div Pow2[s] \in Nat
  BY <1>1
<1>. QED
  BY <1>2 DEF Scaled

\* The bits beside the mantissa.
LEMMA ExtraBitsBound ==
    ASSUME NEW a, NEW b, Numbers(a), Numbers(b)
    PROVE  ExtraBits(a, b) \in 0..2
<1>1. /\ a.man \in Nat /\ a.man < 2 * Half /\ b.man \in Nat /\ b.man < 2 * Half
      /\ Half \in Nat \ {0}
  BY Widths DEF Numbers
<1>2. a.man \div Half \in 0..1 /\ b.man \div Half \in 0..1
  BY <1>1
<1>3. ((b.man \div Half) + (a.man \div Half)) \div 2 \in 0..1
  BY <1>2
<1>. QED
  BY <1>3 DEF ExtraBits

\* op_fadd of two numbers is a number.
LEMMA SumIsNumber ==
    ASSUME NEW a, NEW b, Numbers(a), Numbers(b)
    PROVE  Numbers(op_fadd(a, b))
<1>. DEFINE exb   == ExtraBits(a, b)
            major == IF a.exp >= b.exp THEN a ELSE b
            minor == IF a.exp >= b.exp THEN b ELSE a
            large == Scaled(major.man, exb)
            small == Scaled(minor.man, major.exp - minor.exp + exb)
            total == ((IF major.sign = 0 THEN large ELSE -large)
                      + (IF minor.sign = 0 THEN small ELSE -small)) % Full
            same  == [sign |-> major.sign, exp |-> major.exp + exb, man |-> (large + small) % Full]
            diff  == [sign |-> total \div Half, exp |-> major.exp + exb,
                      man |-> IF total >= Half THEN Full - total ELSE total]
<1>1. \/ op_fadd(a, b) = a \/ op_fadd(a, b) = b
      \/ op_fadd(a, b) = same \/ op_fadd(a, b) = diff
  <2>. HIDE DEF same, diff
  <2>. QED
    BY Zenon DEF op_fadd, same, diff
<1>2. exb \in 0..2
  BY ExtraBitsBound
<1>3. /\ major.sign \in 0..1 /\ major.exp \in Int /\ major.man \in Nat
      /\ minor.exp \in Int /\ minor.man \in Nat /\ major.exp >= minor.exp
  BY Widths DEF Numbers
<1>. HIDE DEF exb, major, minor
<1>4. large \in Nat /\ small \in Nat
  <2>1. major.exp - minor.exp + exb \in Nat /\ exb \in Nat
    BY <1>2, <1>3
  <2>. QED
    BY <1>3, <2>1, ScaledNat
<1>. HIDE DEF large, small
<1>5. total \in Int /\ total >= 0 /\ total < 2 * Half /\ (large + small) % Full \in 0..(Full - 1)
  <2>1. Full \in Nat \ {0} /\ Full = 2 * Half
    BY Widths
  <2>2. /\ (IF major.sign = 0 THEN large ELSE -large) + (IF minor.sign = 0 THEN small ELSE -small) \in Int
        /\ large + small \in Int
    BY <1>4
  <2>. QED
    BY <2>1, <2>2
<1>. HIDE DEF total
<1>6. Numbers(same)
  BY <1>2, <1>3, <1>5 DEF Numbers
<1>7. Numbers(diff)
  <2>1. total \div Half \in 0..1
    BY <1>5, Widths
  <2>2. (IF total >= Half THEN Full - total ELSE total) \in 0..(Full - 1)
    BY <1>5, Widths
  <2>. QED
    BY <1>2, <1>3, <2>1, <2>2 DEF Numbers
<1>. HIDE DEF same, diff
<1>. QED
  BY <1>1, <1>6, <1>7

\* Operands are numbers.
LEMMA OperandNumbers ==
    /\ \A v \in Floats : Numbers(Float(v))
    /\ \A v \in Ints : Numbers(Integer(v))
    /\ Numbers(Zero)
<1>1. ASSUME NEW v \in Floats PROVE Numbers(Float(v))
  <2>. DEFINE m == (Pow2[v.f] + v.frac) * Pow2[Mant - 1 - v.f]
              e == (v.exp - v.bias) + Bias
  <2>1. /\ Float(v) = Number(v.sign, e, m) /\ m \in Nat /\ m < Full
        /\ v.sign \in 0..1 /\ v.exp \in Nat /\ v.bias \in Nat
    BY FloatLoaded
  <2>2. e \in Int
    BY <2>1, Widths
  <2>. HIDE DEF m, e
  <2>3. m \in 0..(Full - 1)
    BY <2>1, Widths
  <2>. QED
    BY <2>1, <2>2, <2>3 DEF Numbers, Number
<1>2. ASSUME NEW v \in Ints PROVE Numbers(Integer(v))
  <2>1. PICK g \in 0..1, e \in Int, m \in 0..(Full - 1) : Integer(v) = Number(g, e, m)
    BY IntegerLoaded
  <2>. QED
    BY <2>1 DEF Numbers, Number
<1>3. Numbers(Zero)
  BY Widths DEF Numbers, Zero
<1>. QED
  BY <1>1, <1>2, <1>3

\* What the registers hold.
IsTyped(f, g) == \A r \in Regs : Numbers(f[r]) /\ g[r] \in {"valid", "empty"}

\* A register that is changed.
LEMMA TypedKept ==
    ASSUME NEW f, NEW g, DOMAIN f = Regs, DOMAIN g = Regs, IsTyped(f, g), NEW r \in Regs
    PROVE  /\ \A v : Numbers(v) => IsTyped([f EXCEPT ![r] = v], g)
           /\ \A t \in {"valid", "empty"} : IsTyped(f, [g EXCEPT ![r] = t])
           /\ \A v : Numbers(v) => IsTyped([f EXCEPT ![r] = v], [g EXCEPT ![r] = "valid"])
           /\ \A q \in Regs : Numbers(f[q])
           /\ \A v : Numbers(v) => Numbers(op_fadd(f[r], v))
<1>1. \A q \in Regs : Numbers(f[q]) /\ g[q] \in {"valid", "empty"}
  BY DEF IsTyped
<1>2. \A v : Numbers(v) => Numbers(op_fadd(f[r], v))
  BY <1>1, SumIsNumber
<1>3. ASSUME NEW v, Numbers(v)
      PROVE  \A q \in Regs : Numbers([f EXCEPT ![r] = v][q])
  BY <1>1, <1>3
<1>4. ASSUME NEW t \in {"valid", "empty"}
      PROVE  \A q \in Regs : [g EXCEPT ![r] = t][q] \in {"valid", "empty"}
  BY <1>1, <1>4
<1>. QED
  BY <1>1, <1>2, <1>3, <1>4 DEF IsTyped

\* The type invariant needs that the registers form a ring.
Typed == Ring /\ TypeOK

\* Initially every register is zero.
LEMMA InitTyped == Init => Typed
<1>. SUFFICES ASSUME Init PROVE Typed
  OBVIOUS
<1>1. Ring
  BY InitInv DEF IInv
<1>2. /\ st = [r \in Regs |-> Zero] /\ tag = [r \in Regs |-> "empty"]
      /\ c1 = FALSE /\ steps = 0
  BY DEF Init
<1>3. Numbers(Zero) /\ steps \in 0..MaxSteps
  BY <1>2, OperandNumbers, StackAssumption
<1>4. TypeOK
  BY <1>1, <1>2, <1>3 DEF TypeOK, Ring, IsRing
<1>. QED
  BY <1>1, <1>4 DEF Typed

\* Every instruction leaves numbers in the registers.
LEMMA NextTyped ==
    ASSUME Ring, Ring', TypeOK, [Next]_vars
    PROVE  TypeOK'
<1>1. /\ DOMAIN st = Regs /\ DOMAIN tag = Regs /\ top \in Regs /\ IsTyped(st, tag)
      /\ c1 \in BOOLEAN /\ steps \in 0..MaxSteps
      /\ top' \in Regs /\ loose' \in BOOLEAN
  BY DEF Ring, IsRing, TypeOK, IsTyped
<1>2. \A i \in Regs : ST(i) \in Regs
  <2>1. \A t \in Nat, i \in Nat, n \in Nat \ {0} : (t + i) % n \in 0..(n - 1)
    OBVIOUS
  <2>2. \A r : r \in Regs => r \in Nat
    BY Sizes
  <2>. QED
    BY <1>1, <2>1, <2>2, Sizes DEF ST, Regs
<1>3. ST(0) \in Regs /\ Before \in Regs /\ Next_ \in Regs /\ ST(0) = top
  <2>1. top \in Nat /\ top < StackSize /\ StackSize \in Nat \ {0} /\ 0 \in Regs
    BY <1>1, Sizes
  <2>2. top % StackSize = top /\ top + 0 = top
    BY <2>1
  <2>3. (top + StackSize - 1) % StackSize \in 0..(StackSize - 1)
        /\ (top + 1) % StackSize \in 0..(StackSize - 1)
    BY <2>1
  <2>. QED
    BY <1>2, <2>1, <2>2, <2>3 DEF ST, Before, Next_, Regs
<1>4. ASSUME IsTyped(st', tag'), c1' \in BOOLEAN, steps' \in 0..MaxSteps PROVE TypeOK'
  BY <1>1, <1>4 DEF TypeOK, IsTyped
<1>5. ASSUME NEW i, Executes(i) PROVE steps' \in 0..MaxSteps
  BY <1>1, <1>5, StackAssumption DEF Executes
<1>6. ASSUME NEW v, Numbers(v), Pushes(v), steps' \in 0..MaxSteps PROVE TypeOK'
  <2>1. c1' = (tag[top] # "empty") /\ tag' = [tag EXCEPT ![Before] = "valid"]
        /\ st' = [st EXCEPT ![Before] = v]
    BY <1>6 DEF Pushes
  <2>2. IsTyped(st', tag') /\ c1' \in BOOLEAN
    BY <1>1, <1>3, <1>6, <2>1, TypedKept
  <2>. QED
    BY <1>4, <1>6, <2>2
<1>7. ASSUME NEW i \in Regs, NEW v, Numbers(v), st' = [st EXCEPT ![ST(i)] = op_fadd(@, v)],
             tag' = tag \/ tag' = [tag EXCEPT ![top] = "empty"], c1' = c1, steps' \in 0..MaxSteps
      PROVE  TypeOK'
  <2>1. Numbers(op_fadd(st[ST(i)], v))
    BY <1>1, <1>2, <1>7, TypedKept
  <2>2. IsTyped(st', tag) /\ DOMAIN st' = Regs
    BY <1>1, <1>2, <1>7, <2>1, TypedKept
  <2>3. IsTyped(st', tag')
    <3>1. "empty" \in {"valid", "empty"}
      OBVIOUS
    <3>2. IsTyped(st', [tag EXCEPT ![top] = "empty"])
      BY <1>1, <2>2, <3>1, TypedKept
    <3>. QED
      BY <1>7, <2>2, <3>2
  <2>. QED
    BY <1>1, <1>4, <1>7, <2>3
<1>8. \A r \in Regs : Numbers(st[r])
  BY <1>1 DEF IsTyped
<1>9. ASSUME NEW v \in Floats, op_fld(v) \/ op_fadd_mem(v) PROVE TypeOK'
  <2>1. Numbers(Float(v))
    BY OperandNumbers
  <2>2. CASE op_fld(v)
    BY <1>5, <1>6, <2>1, <2>2 DEF op_fld
  <2>3. CASE op_fadd_mem(v)
    <3>1. steps' \in 0..MaxSteps /\ 0 \in Regs
      BY <1>5, <2>3, Sizes DEF op_fadd_mem
    <3>. QED
      BY <1>7, <2>1, <2>3, <3>1 DEF op_fadd_mem, Adds
  <2>. QED
    BY <1>9, <2>2, <2>3
<1>10. ASSUME NEW v \in Ints, op_fiadd(v) PROVE TypeOK'
  <2>1. Numbers(Integer(v)) /\ 0 \in Regs
    BY OperandNumbers, Sizes
  <2>2. steps' \in 0..MaxSteps
    BY <1>5, <1>10 DEF op_fiadd
  <2>. QED
    BY <1>7, <1>10, <2>1, <2>2 DEF op_fiadd, Adds
<1>11. ASSUME NEW i \in Regs, Fld_st(i) PROVE TypeOK'
  BY <1>2, <1>5, <1>6, <1>8, <1>11 DEF Fld_st
<1>12. ASSUME NEW i \in Regs, Fadd_st0(i) PROVE TypeOK'
  <2>1. steps' \in 0..MaxSteps /\ 0 \in Regs /\ Numbers(st[ST(i)])
    BY <1>2, <1>5, <1>8, <1>12, Sizes DEF Fadd_st0
  <2>2. st' = [st EXCEPT ![ST(0)] = op_fadd(@, st[ST(i)])] /\ tag' = tag /\ c1' = c1
    BY <1>3, <1>12 DEF Fadd_st0
  <2>. QED
    BY <1>7, <2>1, <2>2
<1>13. ASSUME NEW i \in Regs, Fadd_sti(i) PROVE TypeOK'
  <2>1. steps' \in 0..MaxSteps /\ Numbers(st[top])
    BY <1>1, <1>5, <1>8, <1>13 DEF Fadd_sti
  <2>. QED
    BY <1>7, <1>13, <2>1 DEF Fadd_sti, Adds
<1>14. ASSUME NEW i \in Regs, Faddp(i) PROVE TypeOK'
  <2>1. steps' \in 0..MaxSteps /\ Numbers(st[top])
    BY <1>1, <1>5, <1>8, <1>14 DEF Faddp
  <2>. QED
    BY <1>7, <1>14, <2>1 DEF Faddp, Adds
<1>15. ASSUME NEW i \in Regs, Ffree(i) PROVE TypeOK'
  <2>1. steps' \in 0..MaxSteps /\ "empty" \in {"valid", "empty"}
    BY <1>5, <1>15 DEF Ffree
  <2>2. tag' = [tag EXCEPT ![ST(i)] = "empty"] /\ st' = st /\ c1' = c1
    BY <1>15 DEF Ffree
  <2>3. IsTyped(st', tag')
    BY <1>1, <1>2, <2>1, <2>2, TypedKept
  <2>. QED
    BY <1>1, <1>4, <2>1, <2>2, <2>3
<1>16. CASE Fincstp \/ Fdecstp
  <2>1. st' = st /\ tag' = tag /\ c1' = FALSE
    BY <1>16 DEF Fincstp, Fdecstp, Turns
  <2>2. steps' \in 0..MaxSteps
    BY <1>5, <1>16 DEF Fincstp, Fdecstp
  <2>. QED
    BY <1>1, <1>4, <2>1, <2>2
<1>17. CASE Fnop
  <2>1. st' = st /\ tag' = tag /\ c1' = c1 /\ steps' \in 0..MaxSteps
    BY <1>5, <1>17 DEF Fnop
  <2>. QED
    BY <1>1, <1>4, <2>1
<1>18. CASE softx87_finit_setup
  <2>1. /\ st' = [r \in Regs |-> Zero] /\ tag' = [r \in Regs |-> "empty"]
        /\ c1' = FALSE /\ steps' \in 0..MaxSteps
    BY <1>5, <1>18 DEF softx87_finit_setup
  <2>2. IsTyped(st', tag')
    BY <2>1, OperandNumbers DEF IsTyped
  <2>. QED
    BY <1>4, <2>1, <2>2
<1>19. CASE UNCHANGED vars
  BY <1>19 DEF vars, TypeOK
<1>. QED
  BY <1>9, <1>10, <1>11, <1>12, <1>13, <1>14, <1>15, <1>16, <1>17, <1>18, <1>19 DEF Next

(***************************************************************************)
(* The registers hold numbers: a sign, an exponent and a mantissa that fits   *)
(* its bits, whatever is loaded and added.                                  *)
(***************************************************************************)
THEOREM TypeCorrect == Spec => []TypeOK
<1>1. IInv /\ [Next]_vars => IInv'
  BY NextInv
<1>2. IInv /\ IInv' /\ TypeOK /\ [Next]_vars => TypeOK'
  BY NextTyped DEF IInv
<1>3. Init => IInv /\ TypeOK
  BY InitInv, InitTyped DEF Typed
<1>. QED
  BY <1>1, <1>2, <1>3, PTL DEF Spec

-----------------------------------------------------------------------------
(***************************************************************************)
(* What a load leaves on top.                                              *)
(***************************************************************************)
\* The instruction a step has executed, and what it has added to what.
LEMMA WhichInstruction ==
    ASSUME Ring, Next
    PROVE  /\ last'.op = "fld" => \E v \in Floats : op_fld(v) /\ last'.mem = v
           /\ last'.op = "fadd" => \E v \in Floats : op_fadd_mem(v) /\ last'.mem = v
           /\ last'.op = "fiadd" => \E v \in Ints : op_fiadd(v) /\ last'.mem = v
           /\ last'.op \in {"fadd_st", "faddp"} =>
                 \E k \in Regs, j \in Regs :
                    /\ last'.i = k /\ last'.with = j
                    /\ st' = [st EXCEPT ![ST(k)] = op_fadd(st[ST(k)], st[ST(j)])]
           /\ 0 \in Regs /\ ST(0) = top /\ top \in Regs /\ \A i \in Regs : ST(i) \in Regs
<1>1. /\ 0 \in Regs /\ ST(0) = top /\ top \in Regs /\ \A i \in Regs : ST(i) \in Regs
  <2>1. top \in Nat /\ top < StackSize /\ StackSize \in Nat \ {0} /\ top \in Regs
    BY Sizes DEF Ring, IsRing
  <2>2. ASSUME NEW i \in Regs PROVE ST(i) = At(top, i) /\ ST(i) \in Regs
    <3>1. i \in Nat /\ i < StackSize
      BY Sizes
    <3>2. ST(i) = At(top, i)
      BY DEF ST, At
    <3>. QED
      BY <2>1, <3>1, <3>2, Wraps
  <2>3. 0 \in Regs
    BY <2>1, Sizes
  <2>4. At(top, 0) = top
    BY <2>1, Wraps
  <2>. QED
    BY <2>1, <2>2, <2>3, <2>4
<1>2. ASSUME NEW v \in Floats, op_fld(v)
      PROVE  last'.op = "fld" /\ last'.mem = v
  BY <1>2 DEF op_fld, Executes
<1>3. ASSUME NEW v \in Floats, op_fadd_mem(v)
      PROVE  last'.op = "fadd" /\ last'.mem = v
  BY <1>3 DEF op_fadd_mem, Executes
<1>4. ASSUME NEW v \in Ints, op_fiadd(v)
      PROVE  last'.op = "fiadd" /\ last'.mem = v
  BY <1>4 DEF op_fiadd, Executes
<1>5. ASSUME NEW i \in Regs, Fld_st(i) \/ Ffree(i)
      PROVE  last'.op \in {"fld_st", "ffree"}
  BY <1>5 DEF Fld_st, Ffree, Executes
<1>6. ASSUME NEW i \in Regs, Fadd_st0(i)
      PROVE  /\ last'.op = "fadd_st" /\ last'.i = 0 /\ last'.with = i
             /\ st' = [st EXCEPT ![ST(0)] = op_fadd(st[ST(0)], st[ST(i)])]
  BY <1>1, <1>6 DEF Fadd_st0, Executes
<1>7. ASSUME NEW i \in Regs, Fadd_sti(i)
      PROVE  /\ last'.op = "fadd_st" /\ last'.i = i /\ last'.with = 0
             /\ st' = [st EXCEPT ![ST(i)] = op_fadd(st[ST(i)], st[ST(0)])]
  BY <1>1, <1>7 DEF Fadd_sti, Adds, Executes
<1>8. ASSUME NEW i \in Regs, Faddp(i)
      PROVE  /\ last'.op = "faddp" /\ last'.i = i /\ last'.with = 0
             /\ st' = [st EXCEPT ![ST(i)] = op_fadd(st[ST(i)], st[ST(0)])]
  BY <1>1, <1>8 DEF Faddp, Adds, Executes
<1>9. CASE Fincstp \/ Fdecstp \/ Fnop \/ softx87_finit_setup
  <2>1. last'.op \in {"fincstp", "fdecstp", "fnop", "finit"}
    BY <1>9 DEF Fincstp, Fdecstp, Fnop, softx87_finit_setup, Executes
  <2>. QED
    BY <1>1, <2>1
<1>10. CASE \E v \in Floats : op_fld(v) \/ op_fadd_mem(v)
  BY <1>1, <1>2, <1>3, <1>10
<1>11. CASE \E v \in Ints : op_fiadd(v)
  BY <1>1, <1>4, <1>11
<1>12. CASE \E i \in Regs : Fld_st(i) \/ Fadd_st0(i) \/ Fadd_sti(i) \/ Faddp(i) \/ Ffree(i)
  BY <1>1, <1>5, <1>6, <1>7, <1>8, <1>12
<1>. QED
  BY <1>9, <1>10, <1>11, <1>12 DEF Next

\* Added to the zero of FINIT, a number that is not small stays as it is.
LEMMA ZeroPlus ==
    ASSUME NEW v, Numbers(v), v.exp >= Mant
    PROVE  op_fadd(Zero, v) = v
<1>1. ExtraBits(Zero, v) \in 0..1
  <2>1. v.man \in Nat /\ v.man < 2 * Half /\ Half \in Nat \ {0}
    BY Widths DEF Numbers
  <2>2. v.man \div Half \in 0..1 /\ 0 \div Half = 0
    BY <2>1
  <2>3. ((v.man \div Half) + 0) \div 2 = 0
    BY <2>2
  <2>. QED
    BY <2>2, <2>3 DEF ExtraBits, Zero
<1>. DEFINE e == ExtraBits(Zero, v)
<1>2. /\ ~(0 >= v.exp + (Mant - e)) /\ 0 <= v.exp - (Mant - e)
  <2>1. e \in 0..1 /\ v.exp \in Int
    BY <1>1 DEF Numbers
  <2>. HIDE DEF e
  <2>. QED
    BY <2>1, Widths
<1>3. Zero.exp = 0
  BY DEF Zero
<1>. QED
  BY <1>2, <1>3 DEF op_fadd

\* A real that is loaded.
LEMMA FloatIsExact ==
    ASSUME Ring, NEW v \in Floats, op_fld(v)
    PROVE  LET r == st'[top']
           IN  /\ Normal(r) /\ r.sign = v.sign
               /\ r.man * Pow2[v.f] = (Pow2[v.f] + v.frac) * Half /\ r.exp - Bias = v.exp - v.bias
<1>1. Before \in Regs /\ DOMAIN st = Regs
  <2>1. top \in Nat /\ StackSize \in Nat \ {0}
    BY Sizes DEF Ring, IsRing
  <2>2. (top + StackSize - 1) % StackSize \in 0..(StackSize - 1)
    BY <2>1
  <2>. QED
    BY <2>2 DEF Before, Regs, Ring, IsRing
<1>2. st'[top'] = Float(v)
  BY <1>1 DEF op_fld, Pushes
<1>. DEFINE m == (Pow2[v.f] + v.frac) * Pow2[Mant - 1 - v.f]
<1>3. /\ Float(v) = Number(v.sign, (v.exp - v.bias) + Bias, m)
      /\ m >= Half /\ m * Pow2[v.f] = (Pow2[v.f] + v.frac) * Half
      /\ v.exp \in Nat /\ v.bias \in Nat
  BY FloatLoaded
<1>. HIDE DEF m
<1>4. /\ Float(v).sign = v.sign /\ Float(v).man = m
      /\ Float(v).exp = (v.exp - v.bias) + Bias
  BY <1>3 DEF Number
<1>5. ((v.exp - v.bias) + Bias) - Bias = v.exp - v.bias
  BY <1>3, Widths
<1>. QED
  BY <1>2, <1>3, <1>4, <1>5 DEF Normal

\* An integer that is added to zero.
LEMMA IntegerIsExact ==
    ASSUME Ring, NEW v \in Ints, op_fiadd(v), ~Least(v), st[top] = Zero
    PROVE  LET r == st'[top']
           IN  /\ v.x # 0 => Normal(r) /\ (r.sign = 1) = (v.x < 0)
               /\ r.man * Pow2[r.exp - Bias] = Abs(v.x) * Half
<1>1. st'[top'] = op_fadd(Zero, Integer(v))
  <2>1. DOMAIN st = Regs /\ top \in Regs /\ top \in Nat /\ top < StackSize
        /\ StackSize \in Nat \ {0}
    BY Sizes DEF Ring, IsRing
  <2>2. ST(0) = top
    BY <2>1 DEF ST
  <2>. QED
    BY <2>1, <2>2 DEF op_fiadd, Adds
<1>. DEFINE r == Integer(v)
            n == v.n - 2
<1>2. v.n \in Nat /\ n \in Nat /\ v.x \in Int /\ Numbers(r)
  BY IntegerLoaded, OperandNumbers
<1>3. CASE v.x = 0
  <2>1. r = Number(0, n + Bias, 0)
    BY <1>3, IntegerLoaded
  <2>2. r.exp = n + Bias /\ r.man = 0
    BY <2>1 DEF Number
  <2>. HIDE DEF r, n
  <2>3. op_fadd(Zero, r) = r
    <3>1. r.exp >= Mant
      BY <1>2, <2>2, Widths
    <3>. QED
      BY <1>2, <3>1, ZeroPlus
  <2>4. r.exp - Bias = n
    BY <1>2, <2>2, Widths
  <2>5. Pow2[n] \in Nat
    BY <1>2, Widths
  <2>6. 0 * Pow2[n] = 0 /\ Abs(0) = 0 /\ 0 * Half = 0
    BY <2>5, Widths DEF Abs
  <2>. QED
    BY <1>1, <1>3, <2>2, <2>3, <2>4, <2>6 DEF r
<1>4. CASE v.x # 0
  <2>. DEFINE g == IF v.x < 0 THEN 1 ELSE 0
  <2>1. PICK s \in 0..n : \E m \in Half..(Full - 1) :
           /\ r = Number(g, (n + Bias) - s, m)
           /\ m * Pow2[n - s] = Abs(v.x) * Half
    BY <1>4, IntegerLoaded
  <2>2. PICK m \in Half..(Full - 1) :
           /\ r = Number(g, (n + Bias) - s, m)
           /\ m * Pow2[n - s] = Abs(v.x) * Half
    BY <2>1
  <2>3. r.exp = (n + Bias) - s /\ r.man = m /\ r.sign = g
    BY <2>2 DEF Number
  <2>4. Normal(r)
    BY <2>3, Widths DEF Normal
  <2>. HIDE DEF r, n
  <2>5. r.exp >= Mant /\ r.exp - Bias = n - s
    BY <1>2, <2>3, Widths
  <2>6. op_fadd(Zero, r) = r
    BY <1>2, <2>5, ZeroPlus
  <2>7. (r.sign = 1) = (v.x < 0)
    BY <2>3
  <2>. QED
    BY <1>1, <2>2, <2>3, <2>4, <2>5, <2>6, <2>7 DEF r
<1>. QED
  BY <1>3, <1>4

(***************************************************************************)
(* Loads are exact: for every width of mantissa, fraction and integer, and    *)
(* every operand that is neither of a special encoding nor the least integer. *)
(***************************************************************************)
THEOREM LoadsCorrect == Spec => LoadsExact
<1>1. IInv /\ [Next]_vars =>
         [ LET i == last'
               r == st'[top']
           IN  /\ i.op = "fld" /\ ~Special(i.mem) =>
                     LET v == i.mem
                     IN  /\ Normal(r) /\ r.sign = v.sign
                         /\ r.man * Pow2[v.f] = (Pow2[v.f] + v.frac) * Half /\ r.exp - Bias = v.exp - v.bias
               /\ i.op = "fiadd" /\ ~Least(i.mem) /\ st[top] = Zero =>
                     LET v == i.mem
                     IN  /\ v.x # 0 => Normal(r) /\ (r.sign = 1) = (v.x < 0)
                         /\ r.man * Pow2[r.exp - Bias] = Abs(v.x) * Half ]_vars
  <2>. SUFFICES ASSUME IInv, Next
                PROVE  LET i == last'
                           r == st'[top']
                       IN  /\ i.op = "fld" /\ ~Special(i.mem) =>
                                 LET v == i.mem
                                 IN  /\ Normal(r) /\ r.sign = v.sign
                                     /\ r.man * Pow2[v.f] = (Pow2[v.f] + v.frac) * Half
                                     /\ r.exp - Bias = v.exp - v.bias
                           /\ i.op = "fiadd" /\ ~Least(i.mem) /\ st[top] = Zero =>
                                 LET v == i.mem
                                 IN  /\ v.x # 0 => Normal(r) /\ (r.sign = 1) = (v.x < 0)
                                     /\ r.man * Pow2[r.exp - Bias] = Abs(v.x) * Half
    OBVIOUS
  <2>0. Ring
    BY DEF IInv
  <2>1. ASSUME last'.op = "fld"
        PROVE  LET r == st'[top']
                   v == last'.mem
               IN  /\ Normal(r) /\ r.sign = v.sign
                   /\ r.man * Pow2[v.f] = (Pow2[v.f] + v.frac) * Half /\ r.exp - Bias = v.exp - v.bias
    <3>1. PICK v \in Floats : op_fld(v) /\ last'.mem = v
      BY <2>0, <2>1, WhichInstruction
    <3>. QED
      BY <2>0, <3>1, FloatIsExact
  <2>2. ASSUME last'.op = "fiadd", ~Least(last'.mem), st[top] = Zero
        PROVE  LET r == st'[top']
                   v == last'.mem
               IN  /\ v.x # 0 => Normal(r) /\ (r.sign = 1) = (v.x < 0)
                   /\ r.man * Pow2[r.exp - Bias] = Abs(v.x) * Half
    <3>1. PICK v \in Ints : op_fiadd(v) /\ last'.mem = v
      BY <2>0, <2>2, WhichInstruction
    <3>. QED
      BY <2>0, <2>2, <3>1, IntegerIsExact
  <2>. QED
    BY <2>1, <2>2
<1>. QED
  BY <1>1, RingInvariant, PTL DEF Spec, LoadsExact

-----------------------------------------------------------------------------
(***************************************************************************)
(* What op_fadd makes of two numbers: the larger exponent is kept, both       *)
(* mantissas are rounded to it, and the sum is read back from Mant bits.      *)
(***************************************************************************)
\* n with the sign of v.
With(v, n) == IF v.sign = 0 THEN n ELSE -n

\* L units of U are within half a unit of X.
Near(L, U, X) == 2 * (L * U - X) <= U /\ 2 * (X - L * U) <= U

\* Shifting rounds to nearest.
LEMMA Rounds ==
    ASSUME NEW m \in Nat, NEW s \in Nat
    PROVE  /\ Scaled(m, s) \in Nat /\ Near(Scaled(m, s), Pow2[s], m)
           /\ s = 0 => Scaled(m, s) = m
<1>. DEFINE P == Pow2[s]
            d == m \div P
            t == m % P
            L == Scaled(m, s)
<1>1. P \in Nat \ {0}
  BY Widths
<1>2. d \in Int /\ t \in 0..(P - 1) /\ m = P * d + t
  <2>. HIDE DEF P
  <2>. QED
    BY <1>1, DivMod
<1>3. L \in Nat
  BY ScaledNat
<1>4. CASE s = 0
  <2>1. P = 1
    BY <1>4, Powers
  <2>2. L = d + 0
    BY <1>4 DEF Scaled
  <2>. HIDE DEF P, d, t, L
  <2>3. d = m /\ L = m
    BY <1>1, <1>2, <2>1, <2>2
  <2>. QED
    BY <1>3, <2>1, <2>3 DEF Near, L, P
<1>5. CASE s # 0
  <2>. DEFINE H == Pow2[s - 1]
  <2>1. s > 0 /\ s - 1 \in Nat /\ (s - 1) + 1 = s
    BY <1>5
  <2>2. H \in Nat \ {0} /\ P = 2 * H
    BY <2>1, Powers
  <2>3. L = d + (IF t >= H THEN 1 ELSE 0)
    BY <2>1 DEF Scaled
  <2>. HIDE DEF P, d, t, L, H
  <2>4. CASE t >= H
    <3>1. L * P = P * d + P
      BY <1>1, <1>2, <2>3, <2>4
    <3>. QED
      BY <1>1, <1>2, <1>3, <1>5, <2>2, <2>4, <3>1 DEF Near, L, P
  <2>5. CASE ~(t >= H)
    <3>1. L * P = P * d
      BY <1>1, <1>2, <2>3, <2>5
    <3>. QED
      BY <1>1, <1>2, <1>3, <1>5, <2>2, <2>5, <3>1 DEF Near, L, P
  <2>. QED
    BY <2>4, <2>5
<1>. QED
  BY <1>4, <1>5

\* A bound on the shifted mantissa.
LEMMA ScaledBound ==
    ASSUME NEW m \in Nat, m < Full, NEW s \in Nat, NEW c \in Nat, c * Pow2[s] >= Full
    PROVE  Scaled(m, s) <= c
<1>. DEFINE P == Pow2[s]
            L == Scaled(m, s)
<1>1. P \in Nat \ {0} /\ Full \in Nat
  BY Widths
<1>2. L \in Nat /\ 2 * (L * P - m) <= P
  BY Rounds DEF Near
<1>. HIDE DEF P, L
<1>3. CASE L >= c + 1
  <2>1. L * P >= (c + 1) * P /\ (c + 1) * P = c * P + P /\ c * P \in Nat /\ L * P \in Nat
    BY <1>1, <1>2, <1>3
  <2>2. c * P >= Full
    BY DEF P
  <2>. QED
    BY <1>1, <1>2, <2>1, <2>2
<1>. QED
  BY <1>2, <1>3 DEF L

\* By one place to half, by two to a quarter, and one that is 0 stays so.
LEMMA ScaledSmall ==
    ASSUME NEW m \in Nat, m < Full, NEW s \in Nat
    PROVE  /\ Scaled(m, s) \in Nat /\ Scaled(m, s) < Full
           /\ s >= 1 => Scaled(m, s) <= Half
           /\ s >= 2 => 2 * Scaled(m, s) <= Half
           /\ m = 0 => Scaled(m, s) = 0
<1>1. /\ Half \in Nat /\ Half >= 4 /\ Full = 2 * Half /\ Pow2[s] \in Nat \ {0} /\ Mant \in Nat /\ Mant > 2
  BY Widths
<1>2. Scaled(m, s) \in Nat /\ (s = 0 => Scaled(m, s) = m)
  BY Rounds
<1>3. ASSUME s >= 1 PROVE Scaled(m, s) <= Half
  <2>1. Pow2[1] <= Pow2[s] /\ Pow2[1] = 2
    BY <1>3, PowersGrow, SmallPowers
  <2>2. Half * Pow2[s] >= Half * 2
    BY <1>1, <2>1
  <2>3. Half * Pow2[s] >= Full
    BY <1>1, <2>2
  <2>. QED
    BY <1>1, <2>3, ScaledBound
<1>4. ASSUME s >= 2 PROVE 2 * Scaled(m, s) <= Half
  <2>. DEFINE Q == Pow2[Mant - 2]
  <2>1. Mant - 2 \in Nat /\ (Mant - 2) + 1 = Mant - 1
    BY <1>1
  <2>2. Q \in Nat /\ Half = 2 * Q
    BY <2>1, Powers DEF Half
  <2>3. Pow2[2] <= Pow2[s] /\ Pow2[2] = 4
    BY <1>4, PowersGrow, SmallPowers
  <2>. HIDE DEF Q
  <2>4. Q * Pow2[s] >= Q * 4
    BY <1>1, <2>2, <2>3
  <2>5. Q * Pow2[s] >= Full
    BY <1>1, <2>2, <2>4
  <2>6. Scaled(m, s) <= Q
    BY <2>2, <2>5, ScaledBound
  <2>. QED
    BY <1>2, <2>2, <2>6
<1>5. ASSUME m = 0 PROVE Scaled(m, s) = 0
  <2>1. 0 * Pow2[s] = 0 /\ 0 \div Pow2[s] = 0 /\ 0 % Pow2[s] = 0
    BY <1>1
  <2>2. CASE s = 0
    BY <1>2, <1>5, <2>2
  <2>3. CASE s # 0
    <3>1. s - 1 \in Nat
      BY <2>3
    <3>2. Pow2[s - 1] \in Nat \ {0}
      BY <3>1, Widths
    <3>3. ~(0 >= Pow2[s - 1])
      BY <3>2
    <3>. QED
      BY <1>5, <2>1, <3>3 DEF Scaled
  <2>. QED
    BY <2>2, <2>3
<1>6. Scaled(m, s) < Full
  BY <1>1, <1>2, <1>3
<1>. QED
  BY <1>2, <1>3, <1>4, <1>5, <1>6

\* The bits beside the mantissa: one for a carry, one for a difference.
LEMMA ExtraBitsAre ==
    ASSUME NEW a, NEW b, Numbers(a), Numbers(b)
    PROVE  LET d == IF a.sign # b.sign THEN 1 ELSE 0
           IN  /\ ExtraBits(a, b) = ExtraBits(b, a)
               /\ Normal(a) /\ Normal(b) => ExtraBits(a, b) = 1 + d
               /\ a.man = 0 \/ b.man = 0 => ExtraBits(a, b) = d
<1>. DEFINE x == a.man \div Half
            y == b.man \div Half
            d == IF a.sign # b.sign THEN 1 ELSE 0
<1>1. /\ a.man \in Nat /\ a.man < 2 * Half /\ b.man \in Nat /\ b.man < 2 * Half
      /\ Half \in Nat \ {0}
  BY Widths DEF Numbers
<1>2. x \in 0..1 /\ y \in 0..1
  BY <1>1
<1>3. (Normal(a) => x = 1) /\ (Normal(b) => y = 1) /\ (a.man = 0 => x = 0) /\ (b.man = 0 => y = 0)
  BY <1>1 DEF Normal
<1>4. ExtraBits(a, b) = ((y + x) \div 2) + d /\ ExtraBits(b, a) = ((x + y) \div 2) + d
  BY DEF ExtraBits
<1>. HIDE DEF x, y
<1>5. x + y = y + x /\ (x = 1 /\ y = 1 => (y + x) \div 2 = 1)
      /\ (x = 0 \/ y = 0 => (y + x) \div 2 = 0)
  BY <1>2
<1>. QED
  BY <1>3, <1>4, <1>5

\* A sum does not depend on which number is added to which.
LEMMA SumCommutes ==
    ASSUME NEW a, NEW b, Numbers(a), Numbers(b), a.exp >= b.exp
    PROVE  op_fadd(b, a) = op_fadd(a, b)
<1>. DEFINE e == ExtraBits(a, b)
            Same(x, y) == LET n == Scaled(x.man, e) + Scaled(y.man, x.exp - y.exp + e)
                          IN  [sign |-> x.sign, exp |-> x.exp + e, man |-> n % Full]
            T(x, y) == (With(x, Scaled(x.man, e)) + With(y, Scaled(y.man, x.exp - y.exp + e))) % Full
            Diff(x, y) == [sign |-> T(x, y) \div Half, exp |-> x.exp + e,
                           man |-> IF T(x, y) >= Half THEN Full - T(x, y) ELSE T(x, y)]
<1>1. e = ExtraBits(b, a) /\ e \in 0..2
  BY ExtraBitsAre, ExtraBitsBound
<1>2. a.exp \in Int /\ b.exp \in Int /\ a.man \in Nat /\ b.man \in Nat
  BY Widths DEF Numbers
<1>. HIDE DEF e
<1>3. op_fadd(a, b) = IF a.exp >= b.exp + (Mant - e) THEN a
                      ELSE IF a.exp <= b.exp - (Mant - e) THEN b
                      ELSE IF a.sign = b.sign THEN Same(a, b) ELSE Diff(a, b)
  BY DEF op_fadd, With, e
<1>4. CASE a.exp = b.exp
  <2>1. op_fadd(b, a) = IF b.exp >= a.exp + (Mant - e) THEN b
                        ELSE IF b.exp <= a.exp - (Mant - e) THEN a
                        ELSE IF b.sign = a.sign THEN Same(b, a) ELSE Diff(b, a)
    <3>1. b.exp >= a.exp
      BY <1>2, <1>4
    <3>. QED
      BY <1>1, <3>1, Zenon DEF op_fadd, With
  <2>2. a.exp - b.exp + e = e /\ b.exp - a.exp + e = e
    BY <1>1, <1>2, <1>4
  <2>3. Scaled(a.man, e) \in Nat /\ Scaled(b.man, e) \in Nat
    <3>1. e \in Nat
      BY <1>1
    <3>. QED
      BY <1>2, <3>1, ScaledNat
  <2>4. /\ Scaled(a.man, e) + Scaled(b.man, e) = Scaled(b.man, e) + Scaled(a.man, e)
        /\ With(a, Scaled(a.man, e)) + With(b, Scaled(b.man, e))
           = With(b, Scaled(b.man, e)) + With(a, Scaled(a.man, e))
    BY <2>3 DEF With
  <2>5. Same(a, b) = Same(b, a) \/ a.sign # b.sign
    BY <1>4, <2>2, <2>4
  <2>6. T(a, b) = T(b, a)
    BY <2>2, <2>4
  <2>7. Diff(a, b) = Diff(b, a)
    <3>. HIDE DEF T
    <3>. QED
      BY <1>4, <2>6
  <2>8. /\ ~(a.exp >= b.exp + (Mant - e)) /\ ~(a.exp <= b.exp - (Mant - e))
        /\ ~(b.exp >= a.exp + (Mant - e)) /\ ~(b.exp <= a.exp - (Mant - e))
    BY <1>1, <1>2, <1>4, Widths
  <2>. HIDE DEF Same, Diff
  <2>. QED
    BY <1>3, <2>1, <2>5, <2>7, <2>8
<1>5. CASE a.exp # b.exp
  <2>1. ~(b.exp >= a.exp)
    BY <1>2, <1>5
  <2>2. op_fadd(b, a) = IF b.exp >= a.exp + (Mant - e) THEN b
                        ELSE IF b.exp <= a.exp - (Mant - e) THEN a
                        ELSE IF b.sign = a.sign THEN Same(a, b) ELSE Diff(a, b)
    BY <1>1, <2>1, Zenon DEF op_fadd, With
  <2>3. /\ ~(b.exp >= a.exp + (Mant - e)) /\ ~(a.exp <= b.exp - (Mant - e))
        /\ (b.exp <= a.exp - (Mant - e)) = (a.exp >= b.exp + (Mant - e))
    BY <1>1, <1>2, <2>1, Widths
  <2>. HIDE DEF Same, Diff
  <2>. QED
    BY <1>3, <2>2, <2>3
<1>. QED
  BY <1>4, <1>5

\* When neither number is too small to matter, the sum of the two rounded mantissas is
\* read back, unless there is a carry out of the mantissa.
LEMMA Decodes ==
    ASSUME NEW a, NEW b, Numbers(a), Numbers(b), a.exp >= b.exp,
           a.exp - b.exp < Mant - ExtraBits(a, b)
    PROVE  LET e     == ExtraBits(a, b)
               r     == op_fadd(a, b)
               large == Scaled(a.man, e)
               small == Scaled(b.man, a.exp - b.exp + e)
               S     == With(a, large) + With(b, small)
           IN  /\ r.exp = a.exp + e /\ Numbers(r)
               /\ a.sign = b.sign /\ large + small < Full => With(r, r.man) = S
               /\ a.sign # b.sign /\ -Half <= S /\ S < Half => With(r, r.man) = S
<1>. DEFINE e     == ExtraBits(a, b)
            r     == op_fadd(a, b)
            large == Scaled(a.man, e)
            small == Scaled(b.man, a.exp - b.exp + e)
            S     == With(a, large) + With(b, small)
            T     == S % Full
<1>1. /\ a.exp \in Int /\ b.exp \in Int /\ a.man \in Nat /\ b.man \in Nat
      /\ a.sign \in 0..1 /\ b.sign \in 0..1
      /\ Half \in Nat \ {0} /\ Full = 2 * Half /\ Mant \in Nat
  BY Widths DEF Numbers
<1>2. e \in 0..2
  BY ExtraBitsBound
<1>3. Numbers(r)
  BY SumIsNumber
<1>4. ~(a.exp >= b.exp + (Mant - e)) /\ ~(a.exp <= b.exp - (Mant - e))
  <2>1. a.exp - b.exp < Mant - e
    OBVIOUS
  <2>. HIDE DEF e
  <2>. QED
    BY <1>1, <1>2, <2>1
<1>5. r = IF a.sign = b.sign THEN [sign |-> a.sign, exp |-> a.exp + e, man |-> (large + small) % Full]
          ELSE [sign |-> T \div Half, exp |-> a.exp + e,
                man |-> IF T >= Half THEN Full - T ELSE T]
  BY <1>4, Zenon DEF op_fadd, With
<1>6. large \in Nat /\ small \in Nat
  <2>1. e \in Nat /\ a.exp - b.exp + e \in Nat
    BY <1>1, <1>2
  <2>. QED
    BY <1>1, <2>1, ScaledNat
<1>7. S \in Int
  BY <1>6 DEF With
<1>. HIDE DEF e, r, large, small
<1>8. r.exp = a.exp + e
  BY <1>5
<1>9. ASSUME a.sign = b.sign, large + small < Full PROVE With(r, r.man) = S
  <2>1. r.sign = a.sign /\ r.man = large + small
    BY <1>1, <1>5, <1>6, <1>9
  <2>. QED
    BY <1>6, <1>9, <2>1 DEF With
<1>10. ASSUME a.sign # b.sign, -Half <= S, S < Half PROVE With(r, r.man) = S
  <2>1. r.sign = T \div Half /\ r.man = IF T >= Half THEN Full - T ELSE T
    BY <1>5, <1>10
  <2>. HIDE DEF S
  <2>2. CASE S >= 0
    <3>1. T = S /\ T \div Half = 0
      BY <1>1, <1>7, <1>10, <2>2
    <3>. QED
      BY <1>1, <1>7, <1>10, <2>1, <3>1 DEF With
  <2>3. CASE S < 0
    <3>. DEFINE n == S + Full
                q == -1
    <3>1. S = Full * q + n /\ n \in 0..(Full - 1) /\ q \in Int
      BY <1>1, <1>7, <1>10, <2>3
    <3>. HIDE DEF n, q
    <3>2. T = n
      BY <1>1, <1>7, <3>1, DivModUnique
    <3>3. T \div Half = 1
      BY <1>1, <1>7, <1>10, <2>3, <3>2 DEF n
    <3>. QED
      BY <1>1, <1>7, <1>10, <2>1, <2>3, <3>2, <3>3 DEF With, n
  <2>. QED
    BY <1>7, <2>2, <2>3
<1>. QED
  BY <1>3, <1>8, <1>9, <1>10 DEF r, e, large, small

-----------------------------------------------------------------------------
(***************************************************************************)
(* The rounding error of a sum: half a unit for each number.                *)
(***************************************************************************)
\* What SumOf asks of the amounts X and Y, of their sum R and of the unit U.
Within(X, Y, R, U, near) ==
    \/ Abs(X + Y) > (Full - 2) * U
    \/ Abs(R - (X + Y)) <= (IF ~near THEN 4 ELSE IF X % U = 0 /\ Y % U = 0 THEN 0 ELSE 1) * U

\* A whole number of units within half a unit of another is the other.
LEMMA NearWhole ==
    ASSUME NEW L \in Int, NEW U \in Nat, U > 0, NEW X \in Int, Near(L, U, X), X % U = 0
    PROVE  X = L * U
<1>. DEFINE q == X \div U
<1>1. q \in Int /\ X = U * q
  BY DivMod
<1>. HIDE DEF q
<1>2. L * U - X = (L - q) * U /\ X - L * U = (q - L) * U
  BY <1>1
<1>3. CASE L - q >= 1
  <2>1. (L - q) * U >= 1 * U
    BY <1>1, <1>3
  <2>. QED
    BY <1>1, <1>2, <2>1 DEF Near
<1>4. CASE q - L >= 1
  <2>1. (q - L) * U >= 1 * U
    BY <1>1, <1>4
  <2>. QED
    BY <1>1, <1>2, <2>1 DEF Near
<1>5. CASE L = q
  BY <1>1, <1>5
<1>. QED
  BY <1>1, <1>3, <1>4, <1>5

\* Two numbers that are rounded to a unit make a sum within a unit,
LEMMA NearSum ==
    ASSUME NEW K \in Int, NEW L \in Int, NEW U \in Nat, U > 0, NEW X \in Int, NEW Y \in Int,
           Near(K, U, X), Near(L, U, Y), NEW near \in BOOLEAN
    PROVE  Within(X, Y, (K + L) * U, U, near)
<1>. DEFINE E == (K + L) * U - (X + Y)
<1>1. E = (K * U - X) + (L * U - Y) /\ K * U \in Int /\ L * U \in Int
  OBVIOUS
<1>2. E \in Int /\ E <= U /\ -E <= U
  <2>1. ASSUME NEW k \in Int, NEW l \in Int,
               2 * (k - X) <= U, 2 * (X - k) <= U, 2 * (l - Y) <= U, 2 * (Y - l) <= U
        PROVE  (k - X) + (l - Y) <= U /\ -((k - X) + (l - Y)) <= U
    BY <2>1
  <2>. QED
    BY <1>1, <2>1 DEF Near
<1>3. X % U = 0 /\ Y % U = 0 => E = 0
  <2>1. X % U = 0 /\ Y % U = 0 => X = K * U /\ Y = L * U
    BY NearWhole
  <2>. QED
    BY <1>1, <2>1
<1>4. ASSUME X % U = 0, Y % U = 0 PROVE Abs(E) = 0
  BY <1>3, <1>4 DEF Abs
<1>5. Abs(E) \in Nat /\ Abs(E) <= U
  BY <1>2 DEF Abs
<1>. HIDE DEF E
<1>6. Abs(E) <= (IF ~near THEN 4 ELSE IF X % U = 0 /\ Y % U = 0 THEN 0 ELSE 1) * U
  <2>1. 0 * U = 0 /\ 1 * U = U /\ U <= 4 * U
    OBVIOUS
  <2>2. CASE ~near
    BY <1>5, <2>1, <2>2
  <2>3. CASE near
    <3>1. CASE X % U = 0 /\ Y % U = 0
      <4>1. Abs(E) = 0
        BY <1>4, <3>1
      <4>. QED
        BY <2>1, <2>3, <3>1, <4>1
    <3>2. CASE ~(X % U = 0 /\ Y % U = 0)
      BY <1>5, <2>1, <2>3, <3>2
    <3>. QED
      BY <3>1, <3>2
  <2>. QED
    BY <2>2, <2>3
<1>. QED
  BY <1>6 DEF Within, E

\* and a sum of Full units has an amount that shows the carry.
LEMMA CarrySum ==
    ASSUME NEW K \in Int, NEW L \in Int, NEW U \in Nat, U > 0, NEW X \in Int, NEW Y \in Int,
           Near(K, U, X), Near(L, U, Y), K + L = Full \/ K + L = -Full, NEW R, NEW near
    PROVE  Within(X, Y, R, U, near)
<1>0. Full \in Nat
  BY Widths
<1>1. (K + L) * U = K * U + L * U /\ K * U \in Int /\ L * U \in Int
      /\ Full * U \in Int /\ (-Full) * U = -(Full * U) /\ (Full - 2) * U = Full * U - 2 * U
  BY <1>0
<1>2. K * U + L * U = Full * U \/ K * U + L * U = -(Full * U)
  BY <1>1
<1>3. ASSUME NEW k \in Int, NEW l \in Int, NEW f \in Int, k + l = f \/ k + l = -f,
             2 * (k - X) <= U, 2 * (X - k) <= U, 2 * (l - Y) <= U, 2 * (Y - l) <= U
      PROVE  X + Y > f - 2 * U \/ -(X + Y) > f - 2 * U
  BY <1>3
<1>4. X + Y > Full * U - 2 * U \/ -(X + Y) > Full * U - 2 * U
  BY <1>1, <1>2, <1>3 DEF Near
<1>5. Abs(X + Y) >= X + Y /\ Abs(X + Y) >= -(X + Y) /\ Abs(X + Y) \in Int
  BY DEF Abs
<1>6. Abs(X + Y) > Full * U - 2 * U
  BY <1>1, <1>4, <1>5
<1>. QED
  BY <1>1, <1>6 DEF Within

\* A number that is too small to matter is small beside the other's last place.
LEMMA LostSum ==
    ASSUME NEW X \in Int, NEW Y \in Int, NEW U \in Nat, Abs(Y) <= 4 * U
    PROVE  Within(X, Y, X, U, FALSE)
<1>1. X - (X + Y) = -Y /\ Abs(-Y) = Abs(Y)
  BY DEF Abs
<1>. QED
  BY <1>1 DEF Within

\* Nothing is lost.
LEMMA SameSum ==
    ASSUME NEW Y \in Int, NEW U \in Nat, NEW near \in BOOLEAN
    PROVE  Within(0, Y, Y, U, near)
<1>1. Y - (0 + Y) = 0 /\ Abs(0) = 0
  BY DEF Abs
<1>2. 0 <= (IF ~near THEN 4 ELSE IF 0 % U = 0 /\ Y % U = 0 THEN 0 ELSE 1) * U
  <2>1. 0 <= 4 * U /\ 0 <= 0 * U /\ 0 <= 1 * U
    OBVIOUS
  <2>. QED
    BY <2>1
<1>. QED
  BY <1>1, <1>2 DEF Within

-----------------------------------------------------------------------------
(***************************************************************************)
(* The amounts, counted in units of the lowest exponent.                     *)
(***************************************************************************)
\* v has the lowest exponent of the numbers of s that are not 0.
IsLowest(v, s) == v \in s /\ v.man # 0 /\ \A w \in s : w.man # 0 => v.exp <= w.exp

Apart(a, b) == Abs(a.exp - b.exp) < Mant - 2
BothNear(a, b) == a.man # 0 /\ b.man # 0 /\ Apart(a, b)

\* The number with the lowest exponent gives the unit of the amounts.
LEMMA SumOfIs ==
    ASSUME NEW r, NEW a, NEW b, NEW v, Numbers(r), Numbers(a), Numbers(b),
           IsLowest(v, {r, a, b}), r.exp >= v.exp,
           Within(Amount(a, v.exp), Amount(b, v.exp), Amount(r, v.exp), Pow2[r.exp - v.exp],
                  BothNear(a, b))
    PROVE  SumOf(r, a, b)
<1>. DEFINE parts == {w \in {r, a, b} : w.man # 0}
<1>1. v \in parts /\ \A w \in parts : v.exp <= w.exp /\ w.exp \in Int
  BY DEF IsLowest, Numbers
<1>2. Lowest(parts) = v.exp
  <2>. HIDE DEF parts
  <2>. DEFINE S == {w.exp : w \in parts}
              IsMin(e) == \A w \in parts : e <= w.exp
  <2>1. v.exp \in S /\ IsMin(v.exp)
    BY <1>1
  <2>2. \A e \in S : IsMin(e) => e = v.exp
    <3>1. ASSUME NEW e \in S, IsMin(e) PROVE e = v.exp
      <4>1. PICK w \in parts : e = w.exp
        OBVIOUS
      <4>2. e \in Int /\ v.exp \in Int /\ v.exp <= e /\ e <= v.exp
        BY <1>1, <3>1, <4>1
      <4>. QED
        BY <4>2
    <3>. QED
      BY <3>1
  <2>3. Lowest(parts) = CHOOSE e \in S : IsMin(e)
    BY DEF Lowest
  <2>. HIDE DEF S, IsMin
  <2>. QED
    BY <2>1, <2>2, <2>3
<1>3. parts # {}
  BY <1>1
<1>. DEFINE low == v.exp
            ulp == Pow2[r.exp - low]
            exact == Amount(a, low) + Amount(b, low)
            error == Abs(Amount(r, low) - exact)
            near == a.man # 0 /\ b.man # 0 /\ Abs(a.exp - b.exp) < Mant - 2
            whole == Amount(a, low) % ulp = 0 /\ Amount(b, low) % ulp = 0
<1>4. \/ Abs(exact) > (Full - 2) * ulp
      \/ error <= (IF ~near THEN 4 ELSE IF whole THEN 0 ELSE 1) * ulp
  BY Zenon DEF Within, BothNear, Apart
<1>5. r.exp >= low
  OBVIOUS
<1>6. SumOf(r, a, b) <=>
        LET l == IF parts = {} THEN 0 ELSE Lowest(parts)
            u == Pow2[r.exp - l]
            x == Amount(a, l) + Amount(b, l)
            d == Abs(Amount(r, l) - x)
        IN  parts = {} \/ (r.man = 0 /\ x = 0) \/
            (/\ r.exp >= l
             /\ \/ Abs(x) > (Full - 2) * u
                \/ d <= (IF ~near THEN 4
                         ELSE IF Amount(a, l) % u = 0 /\ Amount(b, l) % u = 0 THEN 0 ELSE 1) * u)
  BY DEF SumOf
<1>. HIDE DEF parts
<1>. QED
  BY <1>2, <1>3, <1>4, <1>5, <1>6, Zenon

\* The order of the numbers does not matter.
LEMMA SumOfBoth ==
    ASSUME NEW r, NEW a, NEW b, NEW v, Numbers(r), Numbers(a), Numbers(b),
           IsLowest(v, {r, a, b}), r.exp >= v.exp,
           Amount(a, v.exp) \in Int, Amount(b, v.exp) \in Int,
           Within(Amount(a, v.exp), Amount(b, v.exp), Amount(r, v.exp), Pow2[r.exp - v.exp],
                  BothNear(a, b))
    PROVE  SumOf(r, a, b) /\ SumOf(r, b, a)
<1>1. SumOf(r, a, b)
  BY SumOfIs
<1>2. BothNear(b, a) <=> BothNear(a, b)
  <2>1. Abs(a.exp - b.exp) = Abs(b.exp - a.exp)
    BY DEF Numbers, Abs
  <2>. QED
    BY <2>1 DEF BothNear, Apart
<1>3. ASSUME NEW X \in Int, NEW Y \in Int, NEW R, NEW U, NEW m, NEW n, m <=> n, Within(X, Y, R, U, m)
      PROVE  Within(Y, X, R, U, n)
  <2>1. X + Y = Y + X
    OBVIOUS
  <2>2. (X % U = 0 /\ Y % U = 0) <=> (Y % U = 0 /\ X % U = 0)
    OBVIOUS
  <2>3. (IF ~m THEN 4 ELSE IF X % U = 0 /\ Y % U = 0 THEN 0 ELSE 1)
        = (IF ~n THEN 4 ELSE IF Y % U = 0 /\ X % U = 0 THEN 0 ELSE 1)
    BY <1>3, <2>2
  <2>. QED
    BY <1>3, <2>1, <2>3, Zenon DEF Within
<1>4. {r, b, a} = {r, a, b}
  OBVIOUS
<1>5. Within(Amount(b, v.exp), Amount(a, v.exp), Amount(r, v.exp), Pow2[r.exp - v.exp], BothNear(b, a))
  BY <1>2, <1>3
<1>6. IsLowest(v, {r, b, a})
  BY <1>4
<1>. QED
  BY <1>1, <1>5, <1>6, SumOfIs

-----------------------------------------------------------------------------
(***************************************************************************)
(* Sums are rounded.                                                       *)
(***************************************************************************)
\* The amount of a number.
LEMMA AmountIs ==
    ASSUME NEW v, Numbers(v), NEW low \in Int, low <= v.exp
    PROVE  /\ v.exp - low \in Nat /\ Pow2[v.exp - low] \in Nat \ {0}
           /\ With(v, v.man) \in Int
           /\ Amount(v, low) = With(v, v.man) * Pow2[v.exp - low] /\ Amount(v, low) \in Int
<1>1. v.exp \in Int /\ v.man \in Nat /\ v.exp - low \in Nat
  BY Widths DEF Numbers
<1>2. Pow2[v.exp - low] \in Nat \ {0}
  BY <1>1, Widths
<1>3. With(v, v.man) \in Int /\ (v.man = 0 => With(v, v.man) = 0)
  BY <1>1 DEF With
<1>4. 0 * Pow2[v.exp - low] = 0 /\ With(v, v.man) * Pow2[v.exp - low] \in Int
  BY <1>2, <1>3
<1>5. Amount(v, low) = With(v, v.man) * Pow2[v.exp - low]
  BY <1>3, <1>4 DEF Amount, With
<1>. QED
  BY <1>1, <1>2, <1>3, <1>4, <1>5

\* A sign, and a common factor, change nothing in how near a number is.
LEMMA NearScaled ==
    ASSUME NEW v, NEW L \in Nat, NEW P \in Nat \ {0}, NEW m \in Nat, NEW Q \in Nat \ {0}, Near(L, P, m)
    PROVE  /\ Near(With(v, L), P * Q, With(v, m) * Q)
           /\ With(v, L) \in Int /\ With(v, m) * Q \in Int /\ P * Q \in Nat /\ P * Q > 0
<1>1. P * Q \in Nat /\ P * Q > 0 /\ L * P \in Int
  BY DEF Near
<1>2. 2 * (L * P - m) <= P /\ 2 * (m - L * P) <= P
  BY DEF Near
<1>3. (2 * (L * P - m)) * Q <= P * Q /\ (2 * (m - L * P)) * Q <= P * Q
  <2>1. \A x \in Int, y \in Nat, q \in Nat : x <= y => x * q <= y * q
    OBVIOUS
  <2>. QED
    BY <1>1, <1>2, <2>1
<1>4. /\ (2 * (L * P - m)) * Q = 2 * (L * (P * Q) - m * Q)
      /\ (2 * (m - L * P)) * Q = 2 * (m * Q - L * (P * Q))
  BY <1>1
<1>5. /\ (-L) * (P * Q) = -(L * (P * Q)) /\ (-m) * Q = -(m * Q)
      /\ L * (P * Q) \in Int /\ m * Q \in Int
  BY <1>1
<1>6. (With(v, L) = L /\ With(v, m) = m) \/ (With(v, L) = -L /\ With(v, m) = -m)
  BY DEF With
<1>7. Near(L, P * Q, m * Q) /\ Near(-L, P * Q, (-m) * Q)
  BY <1>1, <1>3, <1>4, <1>5 DEF Near
<1>8. (-m) * Q \in Int /\ -L \in Int
  BY <1>5
<1>. QED
  BY <1>1, <1>5, <1>6, <1>7, <1>8

\* The sum of two normal numbers,
LEMMA NormalSum ==
    ASSUME NEW a, NEW b, Numbers(a), Numbers(b), Normal(a), Normal(b), a.exp >= b.exp
    PROVE  SumOf(op_fadd(a, b), a, b) /\ SumOf(op_fadd(a, b), b, a)
<1>. DEFINE e == ExtraBits(a, b)
            r == op_fadd(a, b)
            k == a.exp - b.exp
            low == b.exp
<1>1. /\ a.exp \in Int /\ b.exp \in Int /\ a.man \in Nat /\ b.man \in Nat
      /\ a.man < Full /\ b.man < Full /\ a.man # 0 /\ b.man # 0 /\ k \in Nat
      /\ a.sign \in 0..1 /\ b.sign \in 0..1
  BY Widths DEF Numbers, Normal
<1>2. e = IF a.sign # b.sign THEN 2 ELSE 1
  BY ExtraBitsAre
<1>3. Numbers(r)
  BY SumIsNumber
<1>. DEFINE X == Amount(a, low)
            Y == Amount(b, low)
            R == Amount(r, low)
            U == Pow2[r.exp - low]
            Q == Pow2[k]
<1>4. /\ X = With(a, a.man) * Q /\ X \in Int /\ Q \in Nat \ {0}
      /\ Y = With(b, b.man) /\ Y \in Int
  <2>1. X = With(a, a.man) * Pow2[a.exp - low] /\ X \in Int /\ Q \in Nat \ {0}
    BY <1>1, AmountIs
  <2>2. Y = With(b, b.man) * Pow2[b.exp - low] /\ Y \in Int /\ With(b, b.man) \in Int
    BY <1>1, AmountIs
  <2>3. Pow2[b.exp - low] = 1
    <3>1. b.exp - low = 0
      BY <1>1
    <3>. QED
      BY <3>1, Powers
  <2>4. With(b, b.man) * 1 = With(b, b.man)
    BY <2>2
  <2>. QED
    BY <2>1, <2>2, <2>3, <2>4
<1>5. ASSUME r.exp >= a.exp, Within(X, Y, R, U, BothNear(a, b))
      PROVE  SumOf(r, a, b) /\ SumOf(r, b, a)
  <2>1. IsLowest(b, {r, a, b})
    <3>1. r.exp \in Int
      BY <1>3 DEF Numbers
    <3>2. r.exp >= b.exp /\ b.exp <= r.exp /\ b.exp <= a.exp /\ b.exp <= b.exp
      BY <1>1, <1>5, <3>1
    <3>. HIDE DEF r
    <3>. QED
      BY <1>1, <3>2 DEF IsLowest
  <2>2. r.exp >= b.exp
    BY <1>1, <1>3, <1>5 DEF Numbers
  <2>. HIDE DEF r
  <2>. QED
    BY <1>3, <1>4, <1>5, <2>1, <2>2, SumOfBoth
<1>6. CASE k >= Mant - e
  <2>1. r = a
    <3>1. a.exp >= b.exp + (Mant - e)
      <4>. HIDE DEF e
      <4>. QED
        BY <1>1, <1>2, <1>6, Widths
    <3>. QED
      BY <3>1, Zenon DEF op_fadd
  <2>2. k >= Mant - 2 /\ Mant - 2 \in Nat
    <3>. HIDE DEF e, k
    <3>. QED
      BY <1>1, <1>2, <1>6, Widths
  <2>3. ~BothNear(a, b)
    <3>1. Abs(a.exp - b.exp) = k
      BY <1>1 DEF Abs
    <3>2. ~(k < Mant - 2)
      <4>. HIDE DEF k
      <4>. QED
        BY <1>1, <2>2
    <3>. QED
      BY <3>1, <3>2 DEF BothNear, Apart
  <2>4. Full <= 4 * Q
    <3>. DEFINE h == Pow2[Mant - 2]
    <3>1. h <= Q /\ h \in Nat /\ Q \in Nat
      <4>. HIDE DEF k
      <4>. QED
        BY <1>1, <2>2, PowersGrow, Widths
    <3>2. Half = 2 * h
      <4>1. (Mant - 2) + 1 = Mant - 1
        BY Widths
      <4>. QED
        BY <2>2, <4>1, Powers DEF Half
    <3>. HIDE DEF h, Q
    <3>. QED
      BY <3>1, <3>2, Widths
  <2>5. Abs(Y) <= 4 * Q
    <3>1. Abs(With(b, b.man)) = b.man
      BY <1>1 DEF Abs, With
    <3>. HIDE DEF Q, Y
    <3>. QED
      BY <1>1, <1>4, <2>4, <3>1, Widths
  <2>6. U = Q /\ R = X /\ r.exp >= a.exp
    BY <1>1, <2>1
  <2>7. Within(X, Y, X, Q, FALSE)
    <3>. HIDE DEF X, Y, Q
    <3>. QED
      BY <1>4, <2>5, LostSum
  <2>8. BothNear(a, b) = FALSE
    BY <2>3 DEF BothNear, Apart
  <2>. HIDE DEF X, Y, R, U, Q
  <2>9. Within(X, Y, R, U, BothNear(a, b))
    BY <2>6, <2>7, <2>8
  <2>. QED
    BY <1>5, <2>6, <2>9
<1>7. CASE k < Mant - e
  <2>. DEFINE large == Scaled(a.man, e)
              small == Scaled(b.man, k + e)
              K == With(a, large)
              L == With(b, small)
              S == K + L
              P == Pow2[e]
  <2>0. e \in Nat /\ k + e \in Nat /\ e >= 1 /\ k + e >= 1 /\ (a.sign # b.sign => e >= 2 /\ k + e >= 2)
    <3>. HIDE DEF e, k
    <3>. QED
      BY <1>1, <1>2
  <2>1. /\ r.exp = a.exp + e
        /\ a.sign = b.sign /\ large + small < Full => With(r, r.man) = S
        /\ a.sign # b.sign /\ -Half <= S /\ S < Half => With(r, r.man) = S
    BY <1>7, Decodes
  <2>2. /\ large \in Nat /\ large <= Half /\ (a.sign # b.sign => 2 * large <= Half)
        /\ small \in Nat /\ small <= Half /\ (a.sign # b.sign => 2 * small <= Half)
    <3>. HIDE DEF e, k
    <3>. QED
      BY <1>1, <2>0, ScaledSmall
  <2>3. Near(large, P, a.man) /\ Near(small, Pow2[k + e], b.man)
    <3>. HIDE DEF e, k
    <3>. QED
      BY <1>1, <2>0, Rounds
  <2>4. P \in Nat \ {0} /\ Pow2[k + e] = P * Q /\ Pow2[k + e] \in Nat \ {0}
    <3>. HIDE DEF e, k
    <3>1. Pow2[e + k] = Pow2[e] * Pow2[k] /\ e + k = k + e
      BY <1>1, <2>0, PowerOfSum
    <3>. QED
      BY <2>0, <3>1, Widths
  <2>5. r.exp - low = k + e /\ r.exp >= a.exp /\ U = P * Q
    <3>1. r.exp - low = k + e /\ r.exp >= a.exp
      <4>. HIDE DEF e, r
      <4>. QED
        BY <1>1, <2>0, <2>1
    <3>. QED
      BY <2>4, <3>1
  <2>6. R = With(r, r.man) * U
    <3>1. low <= r.exp
      BY <1>1, <1>3, <2>5 DEF Numbers
    <3>. HIDE DEF r
    <3>. QED
      BY <1>1, <1>3, <3>1, AmountIs
  <2>. HIDE DEF large, small, P, Q, U, R, X, Y, e, k, r, S
  <2>7. Near(K, U, X) /\ K \in Int /\ U \in Nat /\ U > 0
    BY <1>1, <1>4, <2>2, <2>3, <2>4, <2>5, NearScaled
  <2>8. Near(L, U, Y) /\ L \in Int
    <3>1. Near(small, U, b.man)
      BY <2>3, <2>4, <2>5
    <3>2. Near(L, U * 1, With(b, b.man) * 1) /\ L \in Int
      <4>1. U \in Nat \ {0} /\ 1 \in Nat \ {0}
        BY <2>7
      <4>. QED
        BY <1>1, <2>2, <3>1, <4>1, NearScaled
    <3>. QED
      BY <1>4, <2>7, <3>2
  <2>9. BothNear(a, b) \in BOOLEAN
    BY DEF BothNear, Apart
  <2>10. CASE With(r, r.man) = S
    <3>1. Within(X, Y, (K + L) * U, U, BothNear(a, b))
      <4>. HIDE DEF K, L
      <4>. QED
        BY <1>4, <2>7, <2>8, <2>9, NearSum
    <3>. QED
      BY <1>5, <2>5, <2>6, <2>10, <3>1 DEF S, r
  <2>11. CASE K + L = Full \/ K + L = -Full
    <3>1. Within(X, Y, R, U, BothNear(a, b))
      <4>. HIDE DEF K, L
      <4>. QED
        BY <1>4, <2>7, <2>8, <2>11, CarrySum
    <3>. QED
      BY <1>5, <2>5, <3>1 DEF r
  <2>12. CASE a.sign = b.sign
    <3>1. K + L = large + small \/ K + L = -(large + small)
      BY <2>2, <2>12 DEF With
    <3>2. large + small < Full \/ large + small = Full
      BY <2>2, Widths
    <3>. QED
      BY <2>1, <2>10, <2>11, <2>12, <3>1, <3>2
  <2>13. CASE a.sign # b.sign
    <3>1. -Half <= S /\ S < Half
      BY <2>2, <2>13, Widths DEF With, S
    <3>. QED
      BY <2>1, <2>10, <2>13, <3>1
  <2>. QED
    BY <2>12, <2>13
<1>8. k \in Int /\ Mant - e \in Int
  <2>. HIDE DEF k, e
  <2>. QED
    BY <1>1, <1>2, Widths
<1>. HIDE DEF k, e, r
<1>. QED
  BY <1>6, <1>7, <1>8 DEF r

\* that of zero and a normal number,
LEMMA ZeroSum ==
    ASSUME NEW b, Numbers(b), Normal(b)
    PROVE  SumOf(op_fadd(Zero, b), Zero, b) /\ SumOf(op_fadd(Zero, b), b, Zero)
<1>. DEFINE e == IF b.sign # 0 THEN 1 ELSE 0
            r == op_fadd(Zero, b)
            low == b.exp
            Y == Amount(b, low)
            R == Amount(r, low)
            U == Pow2[r.exp - low]
            q == b.man
<1>1. /\ b.exp \in Int /\ q \in Nat /\ q < Full /\ q # 0 /\ b.sign \in 0..1
      /\ Numbers(Zero) /\ Zero.man = 0 /\ Zero.sign = 0 /\ Zero.exp = 0
      /\ 0 \in Nat /\ 0 < Full /\ Half \in Nat /\ Half >= 4 /\ Full = 2 * Half
      /\ Mant \in Nat /\ Mant > 2
  BY Widths, OperandNumbers DEF Numbers, Normal, Zero
<1>2. ExtraBits(Zero, b) = e /\ ExtraBits(b, Zero) = e /\ e \in Nat /\ e <= 1
  BY <1>1, ExtraBitsAre
<1>3. Numbers(r)
  BY <1>1, SumIsNumber
<1>4. Amount(Zero, low) = 0 /\ Y = With(b, q) /\ Y \in Int
  <2>1. Y = With(b, q) * Pow2[b.exp - low] /\ Y \in Int /\ With(b, q) \in Int
    BY <1>1, AmountIs
  <2>2. Pow2[b.exp - low] = 1
    <3>1. b.exp - low = 0
      BY <1>1
    <3>. QED
      BY <3>1, Powers
  <2>3. With(b, q) * 1 = With(b, q)
    BY <2>1
  <2>. QED
    BY <1>1, <2>1, <2>2, <2>3 DEF Amount
<1>5. BothNear(Zero, b) = FALSE
  BY <1>1 DEF BothNear
<1>6. ASSUME r.exp >= b.exp, Within(0, Y, R, U, FALSE)
      PROVE  SumOf(r, Zero, b) /\ SumOf(r, b, Zero)
  <2>1. IsLowest(b, {r, Zero, b})
    <3>1. b.exp <= r.exp /\ b.exp <= b.exp
      BY <1>1, <1>3, <1>6 DEF Numbers
    <3>. HIDE DEF r
    <3>. QED
      BY <1>1, <3>1 DEF IsLowest
  <2>2. Amount(Zero, low) \in Int /\ Within(Amount(Zero, low), Y, R, U, BothNear(Zero, b))
    <3>1. 0 \in Int
      OBVIOUS
    <3>. HIDE DEF Y, R, U, r
    <3>. QED
      BY <1>4, <1>5, <1>6, <3>1, Zenon
  <2>. HIDE DEF r
  <2>. QED
    BY <1>1, <1>3, <1>4, <1>6, <2>1, <2>2, SumOfBoth
<1>7. ASSUME r.exp >= b.exp, NEW K \in Int, NEW L \in Int, U \in Nat, U > 0,
             Near(K, U, 0), Near(L, U, Y), With(r, r.man) = K + L
      PROVE  SumOf(r, Zero, b) /\ SumOf(r, b, Zero)
  <2>1. R = With(r, r.man) * U
    <3>1. low <= r.exp
      BY <1>1, <1>3, <1>7 DEF Numbers
    <3>. HIDE DEF r
    <3>. QED
      BY <1>1, <1>3, <3>1, AmountIs
  <2>. HIDE DEF U, R, Y, r
  <2>2. Within(0, Y, (K + L) * U, U, FALSE)
    <3>1. ASSUME NEW X \in Int, NEW n \in BOOLEAN, Near(K, U, X)
          PROVE  Within(X, Y, (K + L) * U, U, n)
      BY <1>4, <1>7, <3>1, NearSum
    <3>2. 0 \in Int /\ FALSE \in BOOLEAN
      OBVIOUS
    <3>. QED
      BY <1>7, <3>1, <3>2, Zenon
  <2>. QED
    BY <1>6, <1>7, <2>1, <2>2 DEF r
<1>8. CASE 0 >= b.exp
  <2>. DEFINE k == 0 - b.exp
  <2>0. k \in Nat /\ k + e \in Nat
    <3>. HIDE DEF e
    <3>. QED
      BY <1>1, <1>2, <1>8
  <2>1. CASE k >= Mant - e
    <3>1. r = Zero
      <4>1. Zero.exp >= b.exp + (Mant - e)
        <5>. HIDE DEF e
        <5>. QED
          BY <1>1, <1>2, <2>1
      <4>. QED
        BY <1>2, <4>1, Zenon DEF op_fadd
    <3>2. R = 0 /\ r.exp - low = k /\ r.exp >= b.exp
      BY <1>1, <1>4, <1>8, <3>1
    <3>3. k >= Mant - 1 /\ Mant - 1 \in Nat
      <4>. HIDE DEF e, k
      <4>. QED
        BY <1>1, <1>2, <2>0, <2>1
    <3>4. Half <= U /\ U \in Nat
      <4>1. Half <= Pow2[k] /\ Pow2[k] \in Nat
        <5>. HIDE DEF k
        <5>. QED
          BY <2>0, <3>3, PowersGrow, Widths DEF Half
      <4>. QED
        BY <3>2, <4>1
    <3>. HIDE DEF U, R, Y, r
    <3>5. Abs(Y) <= 4 * U
      <4>1. Abs(With(b, q)) = q
        BY <1>1 DEF Abs, With
      <4>. QED
        BY <1>1, <1>4, <3>4, <4>1
    <3>6. Within(0, Y, 0, U, FALSE)
      <4>1. \A X \in Int : Within(X, Y, X, U, FALSE)
        BY <1>4, <3>4, <3>5, LostSum
      <4>2. 0 \in Int
        OBVIOUS
      <4>. QED
        BY <4>1, <4>2, Zenon
    <3>. QED
      BY <1>6, <3>2, <3>6 DEF r
  <2>2. CASE k < Mant - e
    <3>. DEFINE large == Scaled(0, e)
                small == Scaled(q, k + e)
                S == With(Zero, large) + With(b, small)
    <3>1. /\ r.exp = e
          /\ Zero.sign = b.sign /\ large + small < Full => With(r, r.man) = S
          /\ Zero.sign # b.sign /\ -Half <= S /\ S < Half => With(r, r.man) = S
      <4>1. 0 + e = e
        BY <1>2
      <4>. QED
        BY <1>1, <1>2, <1>8, <2>2, <4>1, Decodes
    <3>2. /\ large = 0 /\ small \in Nat /\ small < Full /\ (k + e >= 1 => small <= Half)
      <4>. HIDE DEF e, k, q
      <4>. QED
        BY <1>1, <1>2, <2>0, ScaledSmall
    <3>3. With(Zero, large) = 0
      BY <1>1, <3>2 DEF With
    <3>4. S = With(b, small) /\ With(b, small) \in Int
      BY <3>2, <3>3 DEF With
    <3>5. b.sign # 0 => k + e >= 1
      <4>1. b.sign # 0 => e = 1
        OBVIOUS
      <4>. HIDE DEF e, k
      <4>. QED
        BY <2>0, <4>1
    <3>6. r.exp - low = k + e /\ r.exp >= b.exp
      BY <1>1, <1>2, <1>8, <3>1
    <3>7. Near(small, U, q) /\ U \in Nat \ {0}
      <4>1. Near(small, Pow2[k + e], q) /\ Pow2[k + e] \in Nat \ {0}
        <5>. HIDE DEF e, k, q
        <5>. QED
          BY <1>1, <2>0, Rounds, Widths
      <4>. QED
        BY <3>6, <4>1
    <3>. HIDE DEF U, R, Y, S, small, large, r, e, k
    <3>8. Near(With(b, small), U, Y)
      <4>1. Near(With(b, small), U * 1, With(b, q) * 1) /\ With(b, q) \in Int
        <5>1. 1 \in Nat \ {0}
          OBVIOUS
        <5>. QED
          BY <1>1, <1>4, <3>2, <3>7, <5>1, NearScaled
      <4>2. U * 1 = U /\ With(b, q) * 1 = With(b, q)
        BY <3>7, <4>1
      <4>. QED
        BY <1>4, <4>1, <4>2
    <3>9. With(r, r.man) = With(b, small)
      <4>1. CASE b.sign = 0
        BY <1>1, <3>1, <3>2, <3>4, <4>1
      <4>2. CASE b.sign # 0
        <5>1. With(b, small) = -small /\ small <= Half
          BY <3>2, <3>5, <4>2 DEF With
        <5>2. -Half <= S /\ S < Half
          BY <1>1, <3>2, <3>4, <5>1
        <5>. QED
          BY <1>1, <3>1, <3>4, <4>2, <5>2
      <4>. QED
        BY <4>1, <4>2
    <3>10. Near(0, U, 0) /\ With(b, small) = 0 + With(b, small) /\ 0 \in Int
      BY <3>4, <3>7 DEF Near
    <3>. QED
      BY <1>7, <3>4, <3>6, <3>7, <3>8, <3>9, <3>10 DEF r
  <2>3. k \in Int /\ Mant - e \in Int
    BY <1>1, <1>2, <2>0
  <2>. HIDE DEF k, e, r
  <2>. QED
    BY <2>1, <2>2, <2>3 DEF r
<1>9. CASE ~(0 >= b.exp)
  <2>. DEFINE k == b.exp - 0
  <2>0. k \in Nat /\ k + e \in Nat /\ b.exp >= Zero.exp /\ k = b.exp
    <3>. HIDE DEF e
    <3>. QED
      BY <1>1, <1>2, <1>9
  <2>1. op_fadd(b, Zero) = r
    BY <1>1, <2>0, SumCommutes
  <2>2. CASE k >= Mant - e
    <3>1. r = b
      <4>1. b.exp >= Zero.exp + (Mant - e)
        <5>. HIDE DEF e
        <5>. QED
          BY <1>1, <1>2, <2>2
      <4>2. op_fadd(b, Zero) = b
        BY <1>2, <4>1, Zenon DEF op_fadd
      <4>. QED
        BY <2>1, <4>2
    <3>2. R = Y /\ r.exp >= b.exp /\ U \in Nat
      <4>1. b.exp - low = 0
        BY <1>1
      <4>. QED
        BY <1>1, <3>1, <4>1, Powers
    <3>. HIDE DEF R, Y, U, r
    <3>3. Within(0, Y, Y, U, FALSE)
      BY <1>4, <3>2, SameSum
    <3>. QED
      BY <1>6, <3>2, <3>3 DEF r
  <2>3. CASE k < Mant - e
    <3>. DEFINE large == Scaled(q, e)
                small == Scaled(0, k + e)
                S == With(b, large) + With(Zero, small)
    <3>1. /\ r.exp = b.exp + e
          /\ b.sign = Zero.sign /\ large + small < Full => With(r, r.man) = S
          /\ b.sign # Zero.sign /\ -Half <= S /\ S < Half => With(r, r.man) = S
      <4>. HIDE DEF r
      <4>. QED
        BY <1>1, <1>2, <2>0, <2>1, <2>3, Decodes
    <3>2. /\ small = 0 /\ large \in Nat /\ large < Full /\ (e >= 1 => large <= Half)
      <4>. HIDE DEF e, k, q
      <4>. QED
        BY <1>1, <1>2, <2>0, ScaledSmall
    <3>3. With(Zero, small) = 0
      BY <1>1, <3>2 DEF With
    <3>4. S = With(b, large) /\ With(b, large) \in Int
      BY <3>2, <3>3 DEF With
    <3>5. b.sign # 0 => e >= 1
      OBVIOUS
    <3>6. r.exp - low = e /\ r.exp >= b.exp
      <4>. HIDE DEF e, r
      <4>. QED
        BY <1>1, <1>2, <3>1
    <3>7. Near(large, U, q) /\ U \in Nat \ {0}
      <4>1. Near(large, Pow2[e], q) /\ Pow2[e] \in Nat \ {0}
        <5>. HIDE DEF e, k, q
        <5>. QED
          BY <1>1, <1>2, Rounds, Widths
      <4>. QED
        BY <3>6, <4>1
    <3>. HIDE DEF U, R, Y, S, small, large, r, e, k
    <3>8. Near(With(b, large), U, Y)
      <4>1. Near(With(b, large), U * 1, With(b, q) * 1) /\ With(b, q) \in Int
        <5>1. 1 \in Nat \ {0}
          OBVIOUS
        <5>. QED
          BY <1>1, <1>4, <3>2, <3>7, <5>1, NearScaled
      <4>2. U * 1 = U /\ With(b, q) * 1 = With(b, q)
        BY <3>7, <4>1
      <4>. QED
        BY <1>4, <4>1, <4>2
    <3>9. With(r, r.man) = With(b, large)
      <4>1. CASE b.sign = 0
        BY <1>1, <3>1, <3>2, <3>4, <4>1
      <4>2. CASE b.sign # 0
        <5>1. With(b, large) = -large /\ large <= Half
          BY <3>2, <3>5, <4>2 DEF With
        <5>2. -Half <= S /\ S < Half
          BY <1>1, <3>2, <3>4, <5>1
        <5>. QED
          BY <1>1, <3>1, <3>4, <4>2, <5>2
      <4>. QED
        BY <4>1, <4>2
    <3>10. Near(0, U, 0) /\ With(b, large) = 0 + With(b, large) /\ 0 \in Int
      BY <3>4, <3>7 DEF Near
    <3>. QED
      BY <1>7, <3>4, <3>6, <3>7, <3>8, <3>9, <3>10 DEF r
  <2>4. k \in Int /\ Mant - e \in Int
    BY <1>1, <1>2, <2>0
  <2>. HIDE DEF k, e, r
  <2>. QED
    BY <2>2, <2>3, <2>4 DEF r
<1>. QED
  BY <1>8, <1>9

\* and that of zero and zero.
LEMMA ZeroSums == SumOf(op_fadd(Zero, Zero), Zero, Zero)
<1>1. Numbers(Zero) /\ Zero.man = 0 /\ Zero.sign = 0 /\ Zero.exp = 0
  BY OperandNumbers DEF Zero
<1>. DEFINE r == op_fadd(Zero, Zero)
<1>2. ExtraBits(Zero, Zero) = 0
  BY <1>1, ExtraBitsAre
<1>3. 0 - 0 < Mant - 0 /\ 0 >= 0 /\ 0 - 0 + 0 = 0 /\ 0 \in Nat /\ 0 < Full /\ 0 + 0 < Full
  BY Widths
<1>4. Scaled(0, 0) = 0
  BY <1>3, ScaledSmall
<1>5. With(Zero, 0) + With(Zero, 0) = 0
  BY <1>1 DEF With
<1>6. With(r, r.man) = 0 /\ Numbers(r)
  BY <1>1, <1>2, <1>3, <1>4, <1>5, Decodes
<1>. HIDE DEF r
<1>7. r.man = 0
  BY <1>6, Widths DEF With, Numbers
<1>8. {v \in {r, Zero, Zero} : v.man # 0} = {}
  BY <1>1, <1>7
<1>. QED
  BY <1>8, Zenon DEF SumOf, r

\* Every sum of usable numbers.
LEMMA UsableSum ==
    ASSUME NEW a, NEW b, Numbers(a), Numbers(b), Usable(a), Usable(b)
    PROVE  SumOf(op_fadd(a, b), a, b)
<1>1. CASE Normal(a) /\ Normal(b)
  <2>1. CASE a.exp >= b.exp
    BY <1>1, <2>1, NormalSum
  <2>2. CASE ~(a.exp >= b.exp)
    <3>1. b.exp >= a.exp
      BY <2>2 DEF Numbers
    <3>2. op_fadd(a, b) = op_fadd(b, a)
      BY <3>1, SumCommutes
    <3>. QED
      BY <1>1, <3>1, <3>2, NormalSum
  <2>. QED
    BY <2>1, <2>2
<1>2. CASE a = Zero /\ Normal(b)
  BY <1>2, ZeroSum
<1>3. CASE b = Zero /\ Normal(a)
  <2>1. op_fadd(a, Zero) = op_fadd(Zero, a)
    <3>1. Numbers(Zero) /\ a.exp \in Int /\ Zero.exp = 0
      BY OperandNumbers DEF Numbers, Zero
    <3>2. a.exp >= Zero.exp \/ Zero.exp >= a.exp
      BY <3>1
    <3>. QED
      BY <3>1, <3>2, SumCommutes
  <2>. QED
    BY <1>3, <2>1, ZeroSum
<1>4. CASE a = Zero /\ b = Zero
  BY <1>4, ZeroSums
<1>. QED
  BY <1>1, <1>2, <1>3, <1>4 DEF Usable

(***************************************************************************)
(* Sums are rounded: for every width of the mantissa, every operand, and any  *)
(* two numbers in the registers that are normal or the zero of FINIT.        *)
(***************************************************************************)
THEOREM SumCorrect == Spec => SumRounded
<1>1. IInv /\ TypeOK /\ [Next]_vars =>
         [ LET i == last'
           IN  i.op \in {"fadd", "fiadd", "fadd_st", "faddp"} =>
               LET k == IF i.op \in {"fadd", "fiadd"} THEN 0 ELSE i.i
                   a == st[ST(k)]
                   b == Operand(i)
               IN  Usable(a) /\ Usable(b) => SumOf(st'[ST(k)], a, b) ]_vars
  <2>. SUFFICES ASSUME IInv, TypeOK, Next, last'.op \in {"fadd", "fiadd", "fadd_st", "faddp"}
                PROVE  LET i == last'
                           k == IF i.op \in {"fadd", "fiadd"} THEN 0 ELSE i.i
                           a == st[ST(k)]
                           b == Operand(i)
                       IN  Usable(a) /\ Usable(b) => SumOf(st'[ST(k)], a, b)
    OBVIOUS
  <2>0. Ring /\ DOMAIN st = Regs /\ \A r \in Regs : Numbers(st[r])
    BY DEF IInv, Ring, IsRing, TypeOK
  <2>1. 0 \in Regs /\ ST(0) = top /\ \A i \in Regs : ST(i) \in Regs
    BY <2>0, WhichInstruction
  <2>2. CASE last'.op = "fadd"
    <3>1. PICK v \in Floats : op_fadd_mem(v) /\ last'.mem = v
      BY <2>0, <2>2, WhichInstruction
    <3>2. st'[ST(0)] = op_fadd(st[ST(0)], Float(v))
      BY <2>0, <2>1, <3>1 DEF op_fadd_mem, Adds
    <3>3. Operand(last') = Float(v)
      BY <2>2, <3>1 DEF Operand
    <3>4. Numbers(Float(v)) /\ Numbers(st[ST(0)])
      BY <2>0, <2>1, OperandNumbers
    <3>. QED
      BY <2>2, <3>2, <3>3, <3>4, UsableSum
  <2>3. CASE last'.op = "fiadd"
    <3>1. PICK v \in Ints : op_fiadd(v) /\ last'.mem = v
      BY <2>0, <2>3, WhichInstruction
    <3>2. st'[ST(0)] = op_fadd(st[ST(0)], Integer(v))
      BY <2>0, <2>1, <3>1 DEF op_fiadd, Adds
    <3>3. Operand(last') = Integer(v)
      BY <2>3, <3>1 DEF Operand
    <3>4. Numbers(Integer(v)) /\ Numbers(st[ST(0)])
      BY <2>0, <2>1, OperandNumbers
    <3>. QED
      BY <2>3, <3>2, <3>3, <3>4, UsableSum
  <2>4. CASE last'.op \in {"fadd_st", "faddp"}
    <3>1. PICK k \in Regs, j \in Regs :
             /\ last'.i = k /\ last'.with = j
             /\ st' = [st EXCEPT ![ST(k)] = op_fadd(st[ST(k)], st[ST(j)])]
      BY <2>0, <2>4, WhichInstruction
    <3>2. st'[ST(k)] = op_fadd(st[ST(k)], st[ST(j)])
      BY <2>0, <2>1, <3>1
    <3>3. Operand(last') = st[ST(j)]
      BY <2>4, <3>1 DEF Operand
    <3>4. Numbers(st[ST(j)]) /\ Numbers(st[ST(k)])
      BY <2>0, <2>1
    <3>5. ~(last'.op \in {"fadd", "fiadd"})
      BY <2>4
    <3>. QED
      BY <3>1, <3>2, <3>3, <3>4, <3>5, UsableSum
  <2>. QED
    BY <2>2, <2>3, <2>4
<1>. QED
  BY <1>1, RingInvariant, TypeCorrect, PTL DEF Spec, SumRounded

=============================================================================
