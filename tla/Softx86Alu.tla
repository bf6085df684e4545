----------------------------- MODULE Softx86Alu -----------------------------
(***************************************************************************)
(* Short programs of arithmetic instructions: what one instruction leaves   *)
(* in registers and flags is what the next one reads.  The registers are    *)
(* two pairs of the width the program works at: hi and lo are AH:AL or      *)
(* DX:AX, xhi and xlo another pair.  Operands are fetched elsewhere         *)
(* (Softx86Decode); here an instruction names its registers, or one of a    *)
(* few immediates.                                                         *)
(*                                                                         *)
(* A program is [name, w, and for each register the values it starts with];  *)
(* Listing gives its instructions, and the properties say, program by        *)
(* program, what it was written for.                                       *)
(***************************************************************************)
EXTENDS Softx86Flags, Sequences

CONSTANTS
    Programs,       \* the programs
    Junk            \* values an uninitialised byte may hold

Regs      == {"hi", "lo", "xhi", "xlo"}
Immediate == [zero |-> 0, one |-> 1, three |-> 3, ten |-> 10]
FlagNames == {"cf", "of", "sf", "zf", "af", "pf"}

I(op, dst, src) == [op |-> op, dst |-> dst, src |-> src]

\* Programs of both widths, and those of bytes.
AnyNames  == {"adc", "sbb", "wide add", "wide sub", "wide cmp", "wide neg", "cmp cmc", "cmp",
              "test", "or", "wide shl", "wide shr", "wide sar", "rol ror", "rcl rcr",
              "rcl 3 rcr", "shl shr", "sar by", "swap", "mul div", "imul idiv", "div",
              "cbw idiv", "bound"}
ByteNames == {"saved add", "packed sub", "packed add", "unpacked add", "unpacked sub",
              "aad div", "mul aam", "aam by"}

\* What a loop over limbs does between two of them; and the next byte to AL, where DAS works.
CountUp   == I("inc", "xlo", "one")
CountDown == I("dec", "xlo", "one")
NextByte  == I("xchg", "lo", "hi")

Listing(name) ==
    CASE name = "adc" -> <<I("adc", "lo", "xlo")>>
      [] name = "sbb" -> <<I("sbb", "lo", "xlo")>>
      [] name = "wide add" -> <<I("add", "lo", "xlo"), CountUp, CountDown, I("adc", "hi", "xhi")>>
      [] name = "wide sub" -> <<I("sub", "lo", "xlo"), CountUp, CountDown, I("sbb", "hi", "xhi")>>
      [] name = "wide cmp" -> <<I("cmp", "lo", "xlo"), I("sbb", "hi", "xhi")>>
      [] name = "wide neg" -> <<I("not", "hi", "hi"), I("neg", "lo", "lo"),
                                I("cmp", "lo", "one"), I("adc", "hi", "zero")>>
      [] name = "cmp cmc"  -> <<I("cmp", "lo", "xlo"), I("cmc", "lo", "lo"),
                                I("adc", "hi", "zero"), I("clc", "lo", "lo"),
                                I("rcl", "hi", "one"), I("stc", "lo", "lo"),
                                I("rcl", "hi", "one")>>
      [] name = "cmp"      -> <<I("cmp", "lo", "xlo")>>
      [] name = "test"     -> <<I("test", "lo", "lo")>>
      [] name = "or"       -> <<I("or", "lo", "lo"), I("and", "lo", "lo")>>
      [] name = "wide shl" -> <<I("shl", "lo", "one"), I("rcl", "hi", "one")>>
      [] name = "wide shr" -> <<I("shr", "hi", "one"), I("rcr", "lo", "one")>>
      [] name = "wide sar" -> <<I("sar", "hi", "one"), I("rcr", "lo", "one")>>
      [] name = "rol ror"  -> <<I("rol", "lo", "xlo"), I("ror", "lo", "xlo")>>
      [] name = "rcl rcr"  -> <<I("rcl", "lo", "xlo"), I("rcr", "lo", "xlo")>>
      [] name = "rcl 3 rcr" -> <<I("rcl", "lo", "three"), I("rcr", "lo", "one"),
                                 I("rcr", "lo", "one"), I("rcr", "lo", "one")>>
      [] name = "shl shr"  -> <<I("shl", "lo", "xlo"), I("shr", "lo", "xlo")>>
      [] name = "sar by"   -> <<I("sar", "lo", "xlo")>>
      [] name = "swap"     -> <<I("xor", "lo", "xlo"), I("xor", "xlo", "lo"),
                                I("xor", "lo", "xlo")>>
      [] name = "mul div"  -> <<I("mul", "lo", "xlo"), I("div", "lo", "xlo")>>
      [] name = "imul idiv" -> <<I("imul", "lo", "xlo"), I("idiv", "lo", "xlo")>>
      [] name = "div"      -> <<I("div", "lo", "xlo")>>
      [] name = "cbw idiv" -> <<I("cxex", "hi", "lo"), I("idiv", "lo", "xlo")>>
      [] name = "bound"    -> <<I("bound", "lo", "lo")>>
      [] name = "saved add" -> <<I("add", "lo", "xlo"), I("lahf", "lo", "lo"),
                                 I("or", "xhi", "xhi"), I("sahf", "lo", "lo"),
                                 I("adc", "xhi", "zero")>>
      [] name = "packed sub" -> <<I("sub", "lo", "xlo"), I("das", "lo", "lo"), NextByte,
                                  I("sbb", "lo", "xhi"), I("das", "lo", "lo"), NextByte>>
      [] name = "packed add" -> <<I("add", "lo", "xlo"), I("daa", "lo", "lo")>>
      [] name = "unpacked add" -> <<I("add", "lo", "xlo"), I("aaa", "lo", "lo")>>
      [] name = "unpacked sub" -> <<I("sub", "lo", "xlo"), I("aas", "lo", "lo")>>
      [] name = "aad div"  -> <<I("aad", "lo", "ten"), I("div", "lo", "xlo")>>
      [] name = "mul aam"  -> <<I("mul", "lo", "xlo"), I("aam", "lo", "ten")>>
      [] name = "aam by"   -> <<I("aam", "lo", "xlo")>>

\* Decimal digits, one to a byte or two.
Digit  == 0..9
Packed(b) == 10 * (b \div 16) + Low(b)
PackedBytes == {b \in 0..255 : b \div 16 \in Digit /\ Low(b) \in Digit}

ASSUME ProgramsAssumption ==
    /\ Junk \subseteq 0..255 /\ Junk # {}
    /\ \A p \in Programs :
          /\ p.name \in AnyNames \cup ByteNames
          /\ p.w \in Widths
          /\ p.name \in ByteNames => p.w = "byte"
          /\ \A r \in Regs : p.start[r] \subseteq 0..Ones(p.w)
          /\ p.name = "cmp cmc" => p.start.hi = {0}
          /\ p.name \in {"packed sub", "packed add"} =>
                \A r \in Regs : p.start[r] \subseteq PackedBytes
          /\ p.name \in {"unpacked add", "unpacked sub", "aad div", "mul aam"} =>
                \A r \in Regs : p.start[r] \subseteq Digit

VARIABLES
    reg,                    \* the registers
    fl,                     \* the arithmetic flags of reg_flags
    code,                   \* instructions not yet executed
    trap,                   \* the interrupt an instruction signalled, or "none"
    mask_5bit_shiftcount,   \* bug switch: shift counts are taken modulo 32
    run                     \* the program, and what it started from

vars == <<reg, fl, code, trap, mask_5bit_shiftcount, run>>

TypeOK ==
    /\ run.prog \in Programs
    /\ reg \in [Regs -> 0..Ones(run.prog.w)]
    /\ fl \in [FlagNames -> {0, 1}]
    /\ Len(code) <= Len(Listing(run.prog.name))
    /\ trap \in {"none", "divide", "bound"}
    /\ mask_5bit_shiftcount \in BOOLEAN

-----------------------------------------------------------------------------
w == run.prog.w
i == Head(code)
Dst == reg[i.dst]
Src == IF i.src \in Regs THEN reg[i.src] ELSE Immediate[i.src]

Is(op) ==
    /\ code # << >> /\ i.op = op
    /\ UNCHANGED <<mask_5bit_shiftcount, run>>

Retires == code' = Tail(code) /\ UNCHANGED trap

\* softx86_int_sw_signal: the handler takes over.
Signals(what) == trap' = what /\ code' = << >> /\ UNCHANGED <<reg, fl>>

\* The forms that write the first operand back, and those that do not.
Writes(r) == reg' = [reg EXCEPT ![i.dst] = r.ret] /\ fl' = r.fl /\ Retires
Reads(r)  == fl' = r.fl /\ Retires /\ UNCHANGED reg

\* What works on AH:AL or DX:AX.
WritesPair(r) == reg' = [reg EXCEPT !["hi"] = r.hi, !["lo"] = r.lo] /\ fl' = r.fl /\ Retires

Exec_add == Is("add") /\ Writes(op_add(w, fl, Dst, Src))
Exec_adc == Is("adc") /\ Writes(op_adc(w, fl, Dst, Src))
Exec_sub == Is("sub") /\ Writes(op_sub(w, fl, Dst, Src))
Exec_sbb == Is("sbb") /\ Writes(op_sbb(w, fl, Dst, Src))
Exec_cmp == Is("cmp") /\ Reads(op_sub(w, fl, Dst, Src))
Exec_xor == Is("xor") /\ Writes(op_xor(w, fl, Dst, Src))
Exec_or  == Is("or")  /\ Writes(op_or(w, fl, Dst, Src))
Exec_and == Is("and") /\ Writes(op_and(w, fl, Dst, Src))
Exec_test == Is("test") /\ Reads(op_test(w, fl, Dst, Src))

\* Mutant: INC is ADD with 1.
Exec_inc_carry == Is("inc") /\ Writes(op_add(w, fl, Dst, 1))

Exec_inc == Is("inc") /\ Writes(op_inc(w, fl, Dst))
Exec_dec == Is("dec") /\ Writes(op_dec(w, fl, Dst))

Exec_xchg ==
    /\ Is("xchg")
    /\ reg' = [reg EXCEPT ![i.dst] = Src, ![i.src] = Dst]
    /\ Retires /\ UNCHANGED fl

\* Groups C0 and D0: the count is an immediate, 1, or CL.
Count == IF mask_5bit_shiftcount THEN Src % 32 ELSE Src

Exec_groupC0 ==
    \/ Is("rol") /\ Writes(op_rol(w, fl, Dst, Src))
    \/ Is("ror") /\ Writes(op_ror(w, fl, Dst, Src))
    \/ Is("rcl") /\ Writes(op_rcl(w, fl, Dst, Src))
    \/ Is("rcr") /\ Writes(op_rcr(w, fl, Dst, Src))
    \/ Is("shl") /\ Writes(op_shl(w, fl, Dst, Count))
    \/ Is("shr") /\ Writes(op_shr(w, fl, Dst, Count))
    \/ Is("sar") /\ Writes(op_sar(w, fl, Dst, Count))

\* The most negative number divided by -1 overflows a C division: left out.
Overflows == reg["hi"] = Size(w) \div 2 /\ reg["lo"] = 0 /\ Src = Ones(w) /\ w = "word"

Exec_groupF6 ==
    \/ Is("not")  /\ Writes(op_not(w, fl, Dst))
    \/ Is("neg")  /\ Writes(op_neg(w, fl, Dst))
    \/ Is("mul")  /\ WritesPair(op_mul(w, fl, reg["lo"], Src))
    \/ Is("imul") /\ WritesPair(op_imul(w, fl, reg["lo"], Src))
    \/ /\ Is("div")
       /\ IF DivTraps(w, reg["hi"], reg["lo"], Src) THEN Signals("divide")
          ELSE WritesPair(op_div(w, fl, reg["hi"], reg["lo"], Src))
    \/ /\ Is("idiv") /\ ~Overflows
       /\ IF IdivTraps(w, reg["hi"], reg["lo"], Src) THEN Signals("divide")
          ELSE WritesPair(op_idiv(w, fl, reg["hi"], reg["lo"], Src))

Exec_aaaseries ==
    \/ /\ Is("daa")
       /\ LET r == Daa(fl, reg["lo"]) IN reg' = [reg EXCEPT !["lo"] = r.ret] /\ fl' = r.fl
       /\ Retires
    \/ /\ Is("das")
       /\ LET r == Das(fl, reg["lo"]) IN reg' = [reg EXCEPT !["lo"] = r.ret] /\ fl' = r.fl
       /\ Retires
    \/ Is("aaa") /\ WritesPair(AsciiAdjust(fl, reg["hi"], reg["lo"], 1))
    \/ Is("aas") /\ WritesPair(AsciiAdjust(fl, reg["hi"], reg["lo"], -1))
    \/ Is("aam") /\ \E junk \in Junk : WritesPair(Aam(reg["lo"], Src, junk))
    \/ Is("aad") /\ WritesPair(Aad(reg["hi"], reg["lo"], Src))

\* LAHF and SAHF, of programs on bytes.
Exec_ahf ==
    \/ Is("lahf") /\ reg' = [reg EXCEPT !["hi"] = LowFlags(fl)] /\ Retires /\ UNCHANGED fl
    \/ Is("sahf") /\ fl' = WithLowFlags(fl, reg["hi"]) /\ Retires /\ UNCHANGED reg

\* CMC, CLC and STC.
Exec_clx ==
    \/ Is("cmc") /\ fl' = [fl EXCEPT !.cf = 1 - @] /\ Retires /\ UNCHANGED reg
    \/ Is("clc") /\ fl' = [fl EXCEPT !.cf = 0] /\ Retires /\ UNCHANGED reg
    \/ Is("stc") /\ fl' = [fl EXCEPT !.cf = 1] /\ Retires /\ UNCHANGED reg

\* CBW extends AL into AH, CWD extends AX into DX.
Exec_cxex ==
    /\ Is("cxex")
    /\ reg' = [reg EXCEPT !["hi"] = Msb(w, reg["lo"]) * Ones(w)]
    /\ Retires /\ UNCHANGED fl

\* BOUND: the index in the first operand, the bounds in xlo and xhi.
Exec_bound ==
    /\ Is("bound")
    /\ IF Signed(w, Dst) >= Signed(w, reg["xlo"]) /\ Signed(w, Dst) <= Signed(w, reg["xhi"]) + 2
       THEN Retires /\ UNCHANGED <<reg, fl>>
       ELSE Signals("bound")

-----------------------------------------------------------------------------
Init ==
    /\ \E p \in Programs, carry \in {0, 1} :
       \E hi \in p.start.hi, lo \in p.start.lo, xhi \in p.start.xhi, xlo \in p.start.xlo :
          /\ reg = [hi |-> hi, lo |-> lo, xhi |-> xhi, xlo |-> xlo]
          /\ fl  = [f \in FlagNames |-> carry]
          /\ run = [prog |-> p, reg |-> reg, fl |-> fl]
          /\ code = Listing(p.name)
    /\ trap = "none"
    /\ mask_5bit_shiftcount \in BOOLEAN

Next ==
    \/ Exec_add \/ Exec_adc \/ Exec_sub \/ Exec_sbb \/ Exec_cmp
    \/ Exec_xor \/ Exec_or \/ Exec_and \/ Exec_test
    \/ Exec_inc \/ Exec_dec \/ Exec_xchg
    \/ Exec_groupC0 \/ Exec_groupF6 \/ Exec_aaaseries
    \/ Exec_ahf \/ Exec_clx \/ Exec_cxex \/ Exec_bound

Spec == Init /\ [][Next]_vars

-----------------------------------------------------------------------------
(***************************************************************************)
(* Properties.                                                             *)
(***************************************************************************)
Ended(name) == run.prog.name = name /\ code = << >> /\ trap = "none"

R == run.reg                    \* the registers the program started with
A == Joined(w, R.hi, R.lo)      \* the pairs as numbers, at the start
X == Joined(w, R.xhi, R.xlo)
V == Joined(w, reg["hi"], reg["lo"])    \* the first pair now
Square == Size(w) * Size(w)

SameSign(a, b) == Msb(w, a) = Msb(w, b)

\* The one case of ADC and SBB that the code singles out, and gets wrong.
SpecialCase(carry) == carry /\ R.xhi = Ones(w) /\ R.hi # Ones(w)

(***************************************************************************)
(* Numbers of two words are added, subtracted and negated limb by limb,     *)
(* through CF: the result and the final CF are those of the number as a     *)
(* whole, also when the loop that walks over the limbs increments and       *)
(* decrements its counters in between (add.c, inc.c), or LAHF and SAHF keep *)
(* the flags meanwhile (pushpop.c).  Excluded is the case of a carry into   *)
(* an operand of all ones.                                                 *)
(***************************************************************************)
WideArithmetic ==
    /\ Ended("wide add") /\ ~SpecialCase(R.lo + R.xlo >= Size(w)) =>
          V = (A + X) % Square /\ (fl.cf = 1 <=> A + X >= Square)
    /\ Ended("wide sub") /\ ~SpecialCase(R.lo < R.xlo) =>
          V = (A - X) % Square /\ (fl.cf = 1 <=> A < X)
    /\ Ended("wide neg") => V = (0 - A) % Square
    /\ Ended("saved add") =>
          Joined(w, reg["xhi"], reg["lo"]) = (Joined(w, R.xhi, R.lo) + R.xlo) % Square

(***************************************************************************)
(* After CMP, or CMP and SBB of the higher limbs, the unsigned conditions   *)
(* order the operands; TEST or OR of a number with itself stands for a      *)
(* comparison with 0; CF can be complemented and moved on bit by bit         *)
(* (add.c, binops.c, clc.c, jumpy.c).                                      *)
(***************************************************************************)
UnsignedOrder ==
    /\ Ended("cmp") =>
          /\ Taken("JC", fl)  <=> R.lo < R.xlo
          /\ Taken("JNC", fl) <=> R.lo >= R.xlo
          /\ Taken("JBE", fl) <=> R.lo <= R.xlo
          /\ Taken("JA", fl)  <=> R.lo > R.xlo
          /\ Taken("JZ", fl)  <=> R.lo = R.xlo
    /\ Ended("wide cmp") => (Taken("JC", fl) <=> A < X)
    /\ Ended("cmp cmc") => reg["hi"] = (IF R.lo >= R.xlo THEN 4 ELSE 0) + 1
    /\ Ended("test") \/ Ended("or") =>
          /\ Taken("JZ", fl)  <=> R.lo = 0
          /\ Taken("JS", fl)  <=> Signed(w, R.lo) < 0
          /\ Taken("JLE", fl) <=> Signed(w, R.lo) <= 0
          /\ Taken("JBE", fl) <=> R.lo = 0

(***************************************************************************)
(* After CMP of two numbers of the same sign the signed conditions order    *)
(* them.  Two divergences from the 8086 meet here: OF is CF, so that a       *)
(* smaller operand sets both SF and OF; and JL, JGE, JLE and JG take SF and  *)
(* OF, both set, for different.  To repair the conditions alone would break  *)
(* every signed comparison.                                                *)
(***************************************************************************)
SignedOrder ==
    Ended("cmp") /\ SameSign(R.lo, R.xlo) =>
        /\ Taken("JL", fl)  <=> Signed(w, R.lo) < Signed(w, R.xlo)
        /\ Taken("JGE", fl) <=> Signed(w, R.lo) >= Signed(w, R.xlo)
        /\ Taken("JLE", fl) <=> Signed(w, R.lo) <= Signed(w, R.xlo)
        /\ Taken("JG", fl)  <=> Signed(w, R.lo) > Signed(w, R.xlo)

(***************************************************************************)
(* Shifts and rotations carry bits from one limb to the next and back:      *)
(* SHL;RCL doubles a number of two limbs, SHR;RCR halves it, SAR;RCR halves *)
(* it with its sign (for bytes: the word form of SAR fills with zeros), and *)
(* a shift forth and back clears bits; a rotation is undone by its          *)
(* opposite, in one instruction or three, whatever the count; so is a        *)
(* rotation through CF, CF included.  XOR thrice exchanges two registers      *)
(* (binops.c, groupies.c).                                                 *)
(***************************************************************************)
RotationsUndone ==
    /\ Ended("wide shl") => V = (2 * A) % Square /\ fl.cf = Msb(w, R.hi)
    /\ Ended("wide shr") => V = A \div 2 /\ fl.cf = R.lo % 2
    /\ Ended("wide sar") /\ w = "byte" =>
          V = (SignedJoined(w, R.hi, R.lo) \div 2) % Square
    /\ Ended("rol ror") \/ Ended("rcl rcr") \/ Ended("rcl 3 rcr") => reg = R
    /\ Ended("rcl rcr") \/ Ended("rcl 3 rcr") => fl.cf = run.fl.cf
    /\ Ended("shl shr") /\ R.xlo <= Bits(w) => reg["lo"] = R.lo % Pow2[Bits(w) - R.xlo]
    /\ Ended("swap") => reg = [R EXCEPT !["lo"] = R.xlo, !["xlo"] = R.lo]

(***************************************************************************)
(* A product divided by its factor gives the other factor; a quotient times *)
(* the divisor plus the remainder gives the dividend, the remainder smaller *)
(* than the divisor and of the sign of the dividend.  DIV and IDIV signal   *)
(* interrupt 0 exactly when no such quotient fits, and then leave registers *)
(* and flags alone.  The word forms take the remainder of AX without DX,    *)
(* and are covered where DX holds no more than the sign (binops.c, cbw.c).  *)
(***************************************************************************)
DivisionInverts ==
    LET a == Signed(w, R.lo)
        b == Signed(w, R.xlo)
        q == Signed(w, reg["lo"])
        r == Signed(w, reg["hi"])
    IN  /\ Ended("mul div") \/ Ended("imul idiv") =>
              reg["lo"] = R.lo /\ (w = "byte" => reg["hi"] = 0)
        /\ Ended("div") /\ (w = "word" => R.hi = 0) =>
              A = reg["lo"] * R.xlo + reg["hi"] /\ reg["hi"] < R.xlo
        /\ Ended("cbw idiv") =>
              /\ a = q * b + r /\ AbsInt(r) < AbsInt(b)
              /\ r = 0 \/ (r < 0 <=> a < 0)
        /\ trap = "divide" =>
              CASE run.prog.name = "div" -> R.hi >= R.xlo /\ reg = R /\ fl = run.fl
                [] run.prog.name = "cbw idiv" ->
                      (b = 0 \/ (b = -1 /\ a = 0 - Size(w) \div 2)) /\ fl = run.fl
                [] OTHER -> R.xlo = 0

(***************************************************************************)
(* Decimal numbers: packed subtraction goes from one byte to the next       *)
(* through CF; packed addition is right except where the low digits add up  *)
(* to 10..15, which DAA takes for a carry out of the byte; AAA and AAS keep *)
(* unpacked digits, AAD makes a binary number of them (aaa.c).             *)
(***************************************************************************)
DecimalArithmetic ==
    /\ Ended("packed sub") =>
          LET a == 100 * Packed(R.hi) + Packed(R.lo)
              b == 100 * Packed(R.xhi) + Packed(R.xlo)
          IN  /\ 100 * Packed(reg["hi"]) + Packed(reg["lo"]) = (a - b) % 10000
              /\ fl.cf = 1 <=> a < b
    /\ Ended("packed add") /\ Low(R.lo) + Low(R.xlo) \notin 10..15 =>
          LET sum == Packed(R.lo) + Packed(R.xlo)
          IN  Packed(reg["lo"]) = sum % 100 /\ (fl.cf = 1 <=> sum >= 100)
    /\ Ended("unpacked add") =>
          10 * reg["hi"] + reg["lo"] = 10 * R.hi + R.lo + R.xlo
    /\ Ended("unpacked sub") =>
          /\ 10 * reg["hi"] + reg["lo"] = (10 * R.hi + R.lo) - R.xlo \/ R.hi = 0
          /\ fl.cf = 1 <=> R.lo < R.xlo
    /\ Ended("aad div") => 10 * R.hi + R.lo = R.xlo * reg["lo"] + reg["hi"]
    /\ Ended("mul aam") => reg["lo"] = (R.lo * R.xlo) % 10

(***************************************************************************)
(* "special case: x + 0xFF + (carry=1) == x" and "x - 0xFF - (carry=1) == x"  *)
(* (add.c:171 and add.c:475), which is what ADC and SBB are documented to    *)
(* return there.                                                           *)
(***************************************************************************)
CarryIntoOnes ==
    Ended("adc") \/ Ended("sbb") =>
        (R.xlo = Ones(w) /\ run.fl.cf = 1 => reg["lo"] = R.lo)

=============================================================================
