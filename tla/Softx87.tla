------------------------------ MODULE Softx87 ------------------------------
(***************************************************************************)
(* The coprocessor behind the FPU hook of softx86: fpu.c hands an opcode to    *)
(* softx87_on_fpu_opcode_exec, which fetches one byte more and dispatches on  *)
(* both; a memory operand comes back through the engine of softx86.          *)
(* The registers form a ring, ST(i) being the i-th from TOP.                  *)
(***************************************************************************)
EXTENDS Softx87Number, Sequences

CONSTANTS
    StackSize,  \* registers: 8
    Floats,     \* real operands in memory: [f, bias, sign, exp, frac]
    Ints,       \* integer operands: [n, x]
    MaxSteps    \* bound on the instructions of a behaviour

ASSUME StackAssumption ==
    /\ StackSize \in Nat \ {0} /\ MaxSteps \in Nat
    /\ \A v \in Floats : /\ v.f \in 0..(Mant - 1) /\ v.bias \in Nat /\ v.sign \in 0..1
                         /\ v.exp \in Nat /\ v.frac \in 0..(Pow2[v.f] - 1)
    /\ \A v \in Ints : v.n \in 2..Mant /\ v.x \in -(Pow2[v.n - 1])..(Pow2[v.n - 1] - 1)

Regs == 0..(StackSize - 1)

VARIABLES
    st,         \* the registers
    tag,        \* "valid" or "empty"
    top,        \* TOP of the status word
    c1,         \* C1 of the status word
    last,       \* history: the instruction executed last
    stack,      \* history: the numbers a stack of unlimited depth would hold
    loose,      \* history: the ring has been used otherwise than as a stack
    steps       \* history: instructions executed

vars == <<st, tag, top, c1, last, stack, loose, steps>>

Numbers(v) == v.sign \in 0..1 /\ v.exp \in Int /\ v.man \in 0..(Full - 1)

TypeOK ==
    /\ \A r \in Regs : Numbers(st[r]) /\ tag[r] \in {"valid", "empty"}
    /\ top \in Regs /\ c1 \in BOOLEAN
    /\ loose \in BOOLEAN /\ steps \in 0..MaxSteps

-----------------------------------------------------------------------------
(***************************************************************************)
(* Instructions.                                                           *)
(***************************************************************************)
ST(i) == (top + i) % StackSize
Next_  == (top + 1) % StackSize

\* Mutant: the ring is left at its lower end.
Before_minus == top - 1

Before == (top + StackSize - 1) % StackSize

Executes(i) == steps < MaxSteps /\ steps' = steps + 1 /\ last' = i

\* C1 tells of the register TOP leaves, not of the one it moves to.
Pushes(v) ==
    /\ c1' = (tag[top] # "empty")
    /\ top' = Before
    /\ tag' = [tag EXCEPT ![Before] = "valid"]
    /\ st'  = [st EXCEPT ![Before] = v]
    /\ stack' = <<v>> \o stack

\* Adds v to ST(i), and shall do so for the number i places down the stack.
Adds(i, v) ==
    /\ st' = [st EXCEPT ![ST(i)] = op_fadd(@, v)]
    /\ loose' = (loose \/ i >= Len(stack))

StackAdds(s, i, v) ==
    IF i < Len(s) THEN [s EXCEPT ![i + 1] = op_fadd(@, v)] ELSE s

Float(v) == softx87_normalize(softx87_unpack_raw_fp(v.f, v.bias, v))
Integer(v) == softx87_normalize(softx87_unpack_raw_int(v.n, v.x))

\* FLD mem32, FLD mem64.
op_fld(v) ==
    /\ Executes([op |-> "fld", mem |-> v])
    /\ Pushes(Float(v)) /\ loose' = (loose \/ Len(stack) >= StackSize)

\* FLD ST(i).
Fld_st(i) ==
    /\ Executes([op |-> "fld_st", i |-> i])
    /\ Pushes(st[ST(i)]) /\ loose' = (loose \/ Len(stack) >= StackSize \/ i >= Len(stack))

\* FADD mem32, FADD mem64; FIADD mem16, FIADD mem32.
op_fadd_mem(v) ==
    /\ Executes([op |-> "fadd", mem |-> v])
    /\ Adds(0, Float(v)) /\ stack' = StackAdds(stack, 0, Float(v))
    /\ UNCHANGED <<tag, top, c1>>

op_fiadd(v) ==
    /\ Executes([op |-> "fiadd", mem |-> v])
    /\ Adds(0, Integer(v)) /\ stack' = StackAdds(stack, 0, Integer(v))
    /\ UNCHANGED <<tag, top, c1>>

\* FADD ST(0),ST(i) and FADD ST(i),ST(0).
Fadd_st0(i) ==
    /\ Executes([op |-> "fadd_st", i |-> 0, with |-> i])
    /\ st' = [st EXCEPT ![top] = op_fadd(@, st[ST(i)])]
    /\ loose' = (loose \/ i >= Len(stack))
    /\ stack' = IF i < Len(stack) THEN StackAdds(stack, 0, stack[i + 1]) ELSE stack
    /\ UNCHANGED <<tag, top, c1>>

Fadd_sti(i) ==
    /\ Executes([op |-> "fadd_st", i |-> i, with |-> 0])
    /\ Adds(i, st[top])
    /\ stack' = IF i < Len(stack) THEN StackAdds(stack, i, stack[1]) ELSE stack
    /\ UNCHANGED <<tag, top, c1>>

\* Mutant: the register that is tagged empty is the new top.
Faddp_after(i) ==
    /\ Executes([op |-> "faddp", i |-> i, with |-> 0])
    /\ Adds(i, st[top])
    /\ tag' = [tag EXCEPT ![Next_] = "empty"] /\ top' = Next_
    /\ stack' = IF i < Len(stack) THEN Tail(StackAdds(stack, i, stack[1])) ELSE stack
    /\ UNCHANGED c1

\* FADDP ST(i),ST(0): adds, then pops.
Faddp(i) ==
    /\ Executes([op |-> "faddp", i |-> i, with |-> 0])
    /\ Adds(i, st[top])
    /\ tag' = [tag EXCEPT ![top] = "empty"] /\ top' = Next_
    /\ stack' = IF i < Len(stack) THEN Tail(StackAdds(stack, i, stack[1])) ELSE stack
    /\ UNCHANGED c1

\* FINCSTP, FDECSTP: the ring turns, the tags stay.
Turns(to) ==
    /\ top' = to /\ c1' = FALSE /\ loose' = TRUE
    /\ UNCHANGED <<st, tag, stack>>

Fincstp == Executes([op |-> "fincstp"]) /\ Turns(Next_)
Fdecstp == Executes([op |-> "fdecstp"]) /\ Turns(Before)

\* FNOP.
Fnop == Executes([op |-> "fnop"]) /\ UNCHANGED <<st, tag, top, c1, stack, loose>>

\* FFREE ST(i).
Ffree(i) ==
    /\ Executes([op |-> "ffree", i |-> i])
    /\ tag' = [tag EXCEPT ![ST(i)] = "empty"] /\ loose' = TRUE
    /\ UNCHANGED <<st, top, c1, stack>>

\* FINIT, and a reset.
softx87_finit_setup ==
    /\ Executes([op |-> "finit"])
    /\ st' = [r \in Regs |-> Zero] /\ tag' = [r \in Regs |-> "empty"]
    /\ top' = 0 /\ c1' = FALSE
    /\ stack' = << >> /\ loose' = FALSE

Init ==
    /\ st = [r \in Regs |-> Zero] /\ tag = [r \in Regs |-> "empty"]
    /\ top = 0 /\ c1 = FALSE
    /\ last = [op |-> "finit"] /\ stack = << >> /\ loose = FALSE /\ steps = 0

Next ==
    \/ \E v \in Floats : op_fld(v) \/ op_fadd_mem(v)
    \/ \E v \in Ints : op_fiadd(v)
    \/ \E i \in Regs : Fld_st(i) \/ Fadd_st0(i) \/ Fadd_sti(i) \/ Faddp(i) \/ Ffree(i)
    \/ Fincstp \/ Fdecstp \/ Fnop \/ softx87_finit_setup

Spec == Init /\ [][Next]_vars

-----------------------------------------------------------------------------
(***************************************************************************)
(* Properties.                                                             *)
(***************************************************************************)
(***************************************************************************)
(* As long as no more numbers are pushed than there are registers, none is    *)
(* taken that is not there and the ring is not turned, it is a stack: ST(i)   *)
(* is the number i places down, tagged valid, and every other register is    *)
(* tagged empty (op_fld32, op_fld64, FLD ST(i), FADDP).                      *)
(***************************************************************************)
StackHolds ==
    ~loose =>
        /\ Len(stack) <= StackSize
        /\ \A i \in Regs :
              IF i < Len(stack) THEN st[ST(i)] = stack[i + 1] /\ tag[ST(i)] = "valid"
              ELSE tag[ST(i)] = "empty"

\* A number in units of 2^(low - Bias - Mant + 1).
Amount(v, low) ==
    IF v.man = 0 THEN 0 ELSE (IF v.sign = 0 THEN v.man ELSE -v.man) * Pow2[v.exp - low]

Abs(n) == IF n < 0 THEN -n ELSE n
Lowest(vs) == CHOOSE e \in {v.exp : v \in vs} : \A v \in vs : e <= v.exp

\* The sum r of two numbers that are normal or zero: within four units of its last
\* place; within one, when neither is too small to matter, and exact when both are
\* multiples of that unit; unless the carry out of the mantissa has been lost.
SumOf(r, a, b) ==
    LET parts == {v \in {r, a, b} : v.man # 0}
        low   == IF parts = {} THEN 0 ELSE Lowest(parts)
        ulp   == Pow2[r.exp - low]
        exact == Amount(a, low) + Amount(b, low)
        error == Abs(Amount(r, low) - exact)
        near  == a.man # 0 /\ b.man # 0 /\ Abs(a.exp - b.exp) < Mant - 2
        whole == Amount(a, low) % ulp = 0 /\ Amount(b, low) % ulp = 0
    IN  parts = {} \/ (r.man = 0 /\ exact = 0) \/
        (/\ r.exp >= low
         /\ \/ Abs(exact) > (Full - 2) * ulp
            \/ error <= (IF ~near THEN 4 ELSE IF whole THEN 0 ELSE 1) * ulp)

Operand(i) ==
    CASE i.op = "fadd" -> Float(i.mem) [] i.op = "fiadd" -> Integer(i.mem)
      [] OTHER -> st[ST(i.with)]
Usable(v) == Normal(v) \/ v = Zero

(***************************************************************************)
(* FADD, FADDP and FIADD leave the sum, to rounding, in the register they     *)
(* name, whatever the signs and however far apart the exponents (op_fadd).   *)
(* Two things op_fadd does not do limit it to numbers that are normal, or the *)
(* zero of FINIT: it leaves its own results unnormalised, and then counts no  *)
(* extra bit for the carry.                                                *)
(***************************************************************************)
SumRounded ==
    [][ LET i == last'
        IN  i.op \in {"fadd", "fiadd", "fadd_st", "faddp"} =>
            LET k == IF i.op \in {"fadd", "fiadd"} THEN 0 ELSE i.i
                a == st[ST(k)]
                b == Operand(i)
            IN  Usable(a) /\ Usable(b) => SumOf(st'[ST(k)], a, b) ]_vars

\* Memory operands with a meaning of their own: zero, denormal, infinite, NaN;
\* the least integer.
Special(v) == v.exp = 0 \/ v.exp = 2 * v.bias + 1
Least(v)   == v.x = -(Pow2[v.n - 1])

(***************************************************************************)
(* A real loaded, or an integer added to a register FINIT has cleared, is    *)
(* exactly the operand, and normal unless it is 0 (softx87_unpack_raw_fp32,   *)
(* _fp64, _int16, _int32 and softx87_normalize).  Left out are the operands   *)
(* of a special encoding, which are taken for ordinary numbers, and the least  *)
(* integer, which loads as 0.                                               *)
(***************************************************************************)
LoadsExact ==
    [][ LET i == last'
            r == st'[top']
        IN  /\ i.op = "fld" /\ ~Special(i.mem) =>
                  LET v == i.mem
                  IN  /\ Normal(r) /\ r.sign = v.sign
                      /\ r.man * Pow2[v.f] = (Pow2[v.f] + v.frac) * Half /\ r.exp - Bias = v.exp - v.bias
            /\ i.op = "fiadd" /\ ~Least(i.mem) /\ st[top] = Zero =>
                  LET v == i.mem
                  IN  /\ v.x # 0 => Normal(r) /\ (r.sign = 1) = (v.x < 0)
                      /\ r.man * Pow2[r.exp - Bias] = Abs(v.x) * Half ]_vars

=============================================================================
