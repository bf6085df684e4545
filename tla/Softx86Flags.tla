---------------------------- MODULE Softx86Flags ----------------------------
(***************************************************************************)
(* The arithmetic of softx86 (softx86/add.c, inc.c, binops.c, aaa.c): what  *)
(* each op_* function returns and what it leaves in the flags.  A function  *)
(* exists in an 8-bit and a 16-bit form (and a 32-bit one that no opcode of *)
(* this CPU reaches); here the width is a parameter.                       *)
(*                                                                         *)
(* An operator takes the width, the flags before, and the operands in the   *)
(* order of the C function, and yields [ret, fl] or, for what works on      *)
(* AH:AL or DX:AX, [hi, lo, fl].                                           *)
(***************************************************************************)
EXTENDS PowersOfTwo

CONSTANT WordBits       \* width of a word: 16

ByteBits == 8

\* A word is longer than a byte; shift counts modulo 32 reach its width.
ASSUME WordBitsAssumption == WordBits \in Nat /\ WordBits > ByteBits /\ WordBits < 32

Widths   == {"byte", "word"}
Bits(w)  == IF w = "byte" THEN ByteBits ELSE WordBits
Size(w)  == Pow2[Bits(w)]
Ones(w)  == Size(w) - 1

Bit(b)    == IF b THEN 1 ELSE 0
Xor(a, b) == (a + b) % 2
Msb(w, x) == x \div Pow2[Bits(w) - 1]
Low(x)    == x % 16                     \* the low nibble

Signed(w, x) == IF Msb(w, x) = 1 THEN x - Size(w) ELSE x

\* Two registers as one number, unsigned and signed.
Joined(w, hi, lo)       == hi * Size(w) + lo
SignedJoined(w, hi, lo) == Signed(w, hi) * Size(w) + lo

\* softx86_parity8 and its wider forms: 1 iff the number of one bits is even.
Parity[x \in Nat] == IF x = 0 THEN 1 ELSE Xor(Parity[x \div 2], x % 2)

\* Bit k of a number, and the number of given bits.
BitAt(x, k) == (x \div Pow2[k]) % 2
Places(w)   == 0..(Bits(w) - 1)
FromBits(w, bit) ==
    LET low[i \in 0..Bits(w)] == IF i = 0 THEN 0 ELSE low[i - 1] + Pow2[i - 1] * bit[i - 1]
    IN  low[Bits(w)]

\* The flags by the usual rules, given those the operation has a rule of its own for.
Flags(w, ret, cf, of, af) ==
    [cf |-> cf, of |-> of, af |-> af,
     sf |-> Msb(w, ret), zf |-> Bit(ret = 0), pf |-> Parity[ret]]

Outcome(w, ret, cf, of, af) == [ret |-> ret, fl |-> Flags(w, ret, cf, of, af)]

-----------------------------------------------------------------------------
(***************************************************************************)
(* Addition and subtraction.  CF is found by comparing the result with an   *)
(* operand, and OF is CF.                                                  *)
(***************************************************************************)
op_add(w, fl, src, val) ==
    LET ret == (src + val) % Size(w)
        cf  == Bit(ret < src)
    IN  Outcome(w, ret, cf, cf, Bit(Low(val) + Low(src) >= 16))

op_adc(w, fl, src, val) ==
    LET special == fl.cf = 1 /\ val = Ones(w)
        ret == IF special THEN val ELSE (src + val + fl.cf) % Size(w)
        cf  == Bit(special \/ ret < src)
    IN  Outcome(w, ret, cf, cf, Bit(Low(val) + Low(src) >= 16))

\* Mutant: the comparison is that of the addition.
op_sub_below(w, fl, src, val) ==
    LET ret == (src - val) % Size(w)
        cf  == Bit(ret < src)
    IN  Outcome(w, ret, cf, cf, Bit(Low(val) > Low(src)))

op_sub(w, fl, src, val) ==
    LET ret == (src - val) % Size(w)
        cf  == Bit(ret > src)
    IN  Outcome(w, ret, cf, cf, Bit(Low(val) > Low(src)))

op_sbb(w, fl, src, val) ==
    LET special == fl.cf = 1 /\ val = Ones(w)
        ret == IF special THEN val ELSE (src - (val + fl.cf)) % Size(w)
        cf  == Bit(special \/ ret > src)
    IN  Outcome(w, ret, cf, cf, Bit(Low(val) > Low(src)))

\* Mutant: the result is not cut to the width.
op_inc_nowrap(w, fl, src) == Outcome(w, src + 1, fl.cf, fl.of, Bit(1 + Low(src) >= 16))

op_inc(w, fl, src) == Outcome(w, (src + 1) % Size(w), fl.cf, fl.of, Bit(1 + Low(src) >= 16))
op_dec(w, fl, src) == Outcome(w, (src - 1) % Size(w), fl.cf, fl.of, Bit(Low(src) < 1))

\* LAHF and SAHF: the low byte of reg_flags, the reserved bit as reset leaves it.
LowFlags(fl) == (128 * fl.sf) + (64 * fl.zf) + (16 * fl.af) + (4 * fl.pf) + 2 + fl.cf
WithLowFlags(fl, x) ==
    [fl EXCEPT !.sf = BitAt(x, 7), !.zf = BitAt(x, 6), !.af = BitAt(x, 4),
               !.pf = BitAt(x, 2), !.cf = BitAt(x, 0)]

-----------------------------------------------------------------------------
(***************************************************************************)
(* Logic, complement and sign.                                             *)
(***************************************************************************)
AndBits(w, src, val) == [k \in Places(w) |-> BitAt(src, k) * BitAt(val, k)]
OrBits(w, src, val)  == [k \in Places(w) |-> Bit(BitAt(src, k) + BitAt(val, k) > 0)]
XorBits(w, src, val) == [k \in Places(w) |-> Xor(BitAt(src, k), BitAt(val, k))]

op_xor(w, fl, src, val) == Outcome(w, FromBits(w, XorBits(w, src, val)), 0, 0, 0)
op_or(w, fl, src, val)  == Outcome(w, FromBits(w, OrBits(w, src, val)), 0, 0, 0)
op_and(w, fl, src, val) == Outcome(w, FromBits(w, AndBits(w, src, val)), 0, 0, 0)

\* The parity of TEST is that of the low byte, of the others that of the whole.
op_test(w, fl, src, val) ==
    LET r == op_and(w, fl, src, val)
    IN  [r EXCEPT !.fl.pf = Parity[r.ret % Pow2[ByteBits]]]

op_not(w, fl, src) == [ret |-> Ones(w) - src, fl |-> fl]

\* CF and OF say that the operand is zero.
op_neg(w, fl, src) ==
    LET zero == Bit(src = 0)
    IN  Outcome(w, (Size(w) - src) % Size(w), zero, zero, 0)

-----------------------------------------------------------------------------
(***************************************************************************)
(* Shifts, by n once the CPU has masked the count: all but the last bit,    *)
(* then the last one, which goes to CF.                                    *)
(***************************************************************************)
Unchanged(fl, src) == [ret |-> src, fl |-> fl]

\* Powers of two, as far as they do not shift everything out.
ShiftLeft(w, x, n)  == IF n >= Bits(w) THEN 0 ELSE (x * Pow2[n]) % Size(w)
ShiftRight(w, x, n) == IF n >= Bits(w) THEN 0 ELSE x \div Pow2[n]

op_shl(w, fl, src, n) ==
    LET part == ShiftLeft(w, src, n - 1)
        ret  == ShiftLeft(w, part, 1)
        cf   == Msb(w, part)
    IN  IF n = 0 THEN Unchanged(fl, src)
        ELSE Outcome(w, ret, cf, IF n = 1 THEN Xor(Msb(w, ret), cf) ELSE 0, 0)

\* The bits that come in from the left are filled for SAR, and there only for bytes.
ShiftedRight(w, fl, src, n, fill) ==
    LET part == ShiftRight(w, src, n - 1)
    IN  IF n = 0 THEN Unchanged(fl, src)
        ELSE Outcome(w, (part \div 2) + fill, part % 2, IF n = 1 THEN Msb(w, src) ELSE 0, 0)

op_shr(w, fl, src, n) == ShiftedRight(w, fl, src, n, 0)

\* With n > 8 the C code shifts its fill by a negative count; the shift
\* instructions of the CPUs it is built for leave no bit of it in the low byte.
op_sar(w, fl, src, n) ==
    LET fill == IF w = "byte" /\ Msb(w, src) = 1 /\ n <= ByteBits
                THEN Size(w) - Pow2[ByteBits - n] ELSE 0
    IN  ShiftedRight(w, fl, src, n, fill)

-----------------------------------------------------------------------------
(***************************************************************************)
(* Rotations.  RCL and RCR rotate CF and the operand together.             *)
(***************************************************************************)
RotatedLeft(x, n, bits) == ((x * Pow2[n]) % Pow2[bits]) + (x \div Pow2[bits - n])

op_rol(w, fl, src, val) ==
    LET n   == val % Bits(w)
        ret == RotatedLeft(src, n, Bits(w))
    IN  IF n = 0 THEN Unchanged(fl, src)
        ELSE Outcome(w, ret, ret % 2, IF n = 1 THEN Xor(Msb(w, ret), ret % 2) ELSE 0, 0)

op_ror(w, fl, src, val) ==
    LET n   == val % Bits(w)
        ret == RotatedLeft(src, Bits(w) - n, Bits(w))
        top == ret \div Pow2[Bits(w) - 2]
    IN  IF n = 0 THEN Unchanged(fl, src)
        ELSE Outcome(w, ret, Msb(w, ret), IF n = 1 THEN Xor(top \div 2, top % 2) ELSE 0, 0)

op_rcl(w, fl, src, val) ==
    LET n   == val % (Bits(w) + 1)
        all == RotatedLeft(fl.cf * Size(w) + src, n, Bits(w) + 1)
        ret == all % Size(w)
        cf  == all \div Size(w)
    IN  IF n = 0 THEN Unchanged(fl, src)
        ELSE Outcome(w, ret, cf, IF n = 1 THEN Xor(Msb(w, ret), cf) ELSE 0, 0)

\* Mutant: the count is taken modulo the width, without CF.
op_rcr_width(w, fl, src, val) ==
    LET n   == val % Bits(w)
        all == RotatedLeft(fl.cf * Size(w) + src, Bits(w) + 1 - n, Bits(w) + 1)
    IN  IF n = 0 THEN Unchanged(fl, src)
        ELSE Outcome(w, all % Size(w), all \div Size(w), 0, 0)

\* OF comes from the operand before the rotation.
op_rcr(w, fl, src, val) ==
    LET n   == val % (Bits(w) + 1)
        all == RotatedLeft(fl.cf * Size(w) + src, Bits(w) + 1 - n, Bits(w) + 1)
    IN  IF n = 0 THEN Unchanged(fl, src)
        ELSE Outcome(w, all % Size(w), all \div Size(w),
                     IF n = 1 THEN Xor(Msb(w, src), fl.cf) ELSE 0, 0)

-----------------------------------------------------------------------------
(***************************************************************************)
(* Multiplication and division: AX or DX:AX in two registers.              *)
(***************************************************************************)
Product(w, p, cf) ==
    [hi |-> p \div Size(w), lo |-> p % Size(w),
     fl |-> [cf |-> cf, of |-> cf, af |-> 0, sf |-> Msb(w, p \div Size(w)),
             zf |-> Bit(p = 0), pf |-> Parity[p]]]

op_mul(w, fl, lo, src) == LET p == lo * src IN Product(w, p, Bit(p \div Size(w) # 0))

op_imul(w, fl, lo, src) ==
    LET p == (Signed(w, lo) * Signed(w, src)) % (Size(w) * Size(w))
    IN  Product(w, p, Bit(p \div Size(w) \notin {0, Ones(w)}))

\* C division truncates toward zero.
AbsInt(n)    == IF n < 0 THEN 0 - n ELSE n
Quot(a, b)   == IF (a < 0) = (b < 0) THEN AbsInt(a) \div AbsInt(b)
                ELSE 0 - (AbsInt(a) \div AbsInt(b))
Remain(a, b) == a - b * Quot(a, b)

Divided(w, fl, q, r) ==
    [hi |-> r % Size(w), lo |-> q % Size(w),
     fl |-> [fl EXCEPT !.sf = 0, !.zf = 0, !.af = 0, !.pf = 0]]

\* Does DIV signal interrupt 0?
DivTraps(w, hi, lo, src) == src = 0 \/ Joined(w, hi, lo) \div src > Ones(w)

\* The remainder of the word form is that of AX alone.
op_div(w, fl, hi, lo, src) ==
    Divided(w, fl, Joined(w, hi, lo) \div src,
            IF w = "byte" THEN Joined(w, hi, lo) % src ELSE lo % src)

IdivTraps(w, hi, lo, src) ==
    \/ src = 0
    \/ LET q == Quot(SignedJoined(w, hi, lo), Signed(w, src))
       IN  q < 0 - Size(w) \div 2 \/ q >= Size(w) \div 2

\* Mutant: the remainder has the sign of the divisor.
op_idiv_floor(w, fl, hi, lo, src) ==
    LET a == SignedJoined(w, hi, lo)
        b == Signed(w, src)
    IN  Divided(w, fl, Quot(a, b), AbsInt(Remain(a, b)))

op_idiv(w, fl, hi, lo, src) ==
    LET a == SignedJoined(w, hi, lo)
        b == Signed(w, src)
    IN  Divided(w, fl, Quot(a, b),
                Remain(IF w = "byte" THEN a ELSE Signed(w, lo), b))

-----------------------------------------------------------------------------
(***************************************************************************)
(* Decimal adjustment of AL, and of AH:AL.                                 *)
(***************************************************************************)
LowAdjust(fl, al) == Low(al) > 9 \/ fl.af = 1

\* Decimal carry out of the low digit is looked for only after the adjustment.
Daa(fl, al) ==
    LET low == LowAdjust(fl, al)
        a   == IF low THEN (al + 6) % 256 ELSE al
        hi  == a - Low(a) > 144 \/ fl.cf = 1 \/ (low /\ Low(al) + 6 >= 16)
    IN  Outcome("byte", IF hi THEN (a + 96) % 256 ELSE a, Bit(hi), 0, Bit(low))

\* Mutant: CF of the subtraction is not looked at.
Das_nocarry(fl, al) ==
    LET low == LowAdjust(fl, al)
        a   == IF low THEN (al - 6) % 256 ELSE al
        hi  == a > 159 \/ (low /\ Low(al) < 6)
    IN  Outcome("byte", IF hi THEN (a - 96) % 256 ELSE a, Bit(hi), 0, Bit(low))

Das(fl, al) ==
    LET low == LowAdjust(fl, al)
        a   == IF low THEN (al - 6) % 256 ELSE al
        hi  == a > 159 \/ fl.cf = 1 \/ (low /\ Low(al) < 6)
    IN  Outcome("byte", IF hi THEN (a - 96) % 256 ELSE a, Bit(hi), 0, Bit(low))

\* AAA with by = 1, AAS with by = -1.
AsciiAdjust(fl, ah, al, by) ==
    LET n == IF LowAdjust(fl, al) THEN by ELSE 0
    IN  [hi |-> (ah + n) % 256, lo |-> Low(al + 6 * n),
         fl |-> [cf |-> AbsInt(n), af |-> AbsInt(n), of |-> 0, sf |-> 0, zf |-> 0, pf |-> 0]]

\* AH is the quotient of what is already the remainder; with x = 0 it is
\* whatever the uninitialised local holds.
Aam(al, x, junk) ==
    LET a == IF x = 0 THEN al ELSE al % x
    IN  [hi |-> IF x = 0 THEN junk ELSE a \div x, lo |-> a,
         fl |-> Flags("byte", a, 0, 0, 0)]

Aad(ah, al, x) ==
    LET a == (al + ah * x) % 256
    IN  [hi |-> 0, lo |-> a, fl |-> Flags("byte", a, 0, 0, 0)]

-----------------------------------------------------------------------------
(***************************************************************************)
(* The conditions of Jcc.  JL and its relatives compare the masked flags:   *)
(* SF is bit 7 and OF is bit 11, so two set flags differ.                  *)
(***************************************************************************)
\* Mutant: the flags are compared as bits, while OF is still CF.
SignDiffers_bits(fl) == fl.sf # fl.of

SignDiffers(fl) == fl.sf * 128 # fl.of * 2048

Taken(cond, fl) ==
    CASE cond = "JO"  -> fl.of = 1
      [] cond = "JNO" -> fl.of = 0
      [] cond = "JC"  -> fl.cf = 1
      [] cond = "JNC" -> fl.cf = 0
      [] cond = "JZ"  -> fl.zf = 1
      [] cond = "JNZ" -> fl.zf = 0
      [] cond = "JBE" -> fl.zf = 1 \/ fl.cf = 1
      [] cond = "JA"  -> fl.zf = 0 /\ fl.cf = 0
      [] cond = "JS"  -> fl.sf = 1
      [] cond = "JNS" -> fl.sf = 0
      [] cond = "JP"  -> fl.pf = 1
      [] cond = "JNP" -> fl.pf = 0
      [] cond = "JL"  -> SignDiffers(fl)
      [] cond = "JGE" -> ~SignDiffers(fl)
      [] cond = "JLE" -> SignDiffers(fl) \/ fl.zf = 1
      [] cond = "JG"  -> ~SignDiffers(fl) /\ fl.zf = 0

=============================================================================
