--------------------------- MODULE Softx87Number ---------------------------
(***************************************************************************)
(* The numbers of softx87: a sign, an exponent and a mantissa without a       *)
(* hidden bit, worth man * 2^(exp - Bias - Mant + 1); how operands in memory  *)
(* become such numbers, and op_fadd.  The control word is that of FINIT (no   *)
(* instruction changes it), so rounding is to nearest.                       *)
(***************************************************************************)
EXTENDS PowersOfTwo

CONSTANTS
    Mant,   \* bits of a mantissa: 64
    Bias    \* of a register's exponent: 16383

ASSUME NumberAssumption == Mant \in Nat /\ Mant > 2 /\ Bias \in Nat /\ Bias >= Mant

Full == Pow2[Mant]
Half == Pow2[Mant - 1]

Zero == [sign |-> 0, exp |-> 0, man |-> 0]
Normal(v) == v.man >= Half

\* Mutant: the exponent stays.
softx87_normalize_man(v) ==
    IF v.man = 0 THEN v
    ELSE [v EXCEPT !.man = @ * Pow2[CHOOSE s \in 0..(Mant - 1) : @ * Pow2[s] \in Half..(Full - 1)]]

softx87_normalize(v) ==
    IF v.man = 0 THEN v
    ELSE LET sh == CHOOSE s \in 0..(Mant - 1) : v.man * Pow2[s] \in Half..(Full - 1)
         IN  [v EXCEPT !.exp = @ - sh, !.man = @ * Pow2[sh]]

\* An integer of n bits, x: the least one loses its only bit to the shift.
softx87_unpack_raw_int(n, x) ==
    [sign |-> IF x < 0 THEN 1 ELSE 0, exp |-> (n - 2) + Bias,
     man |-> ((IF x < 0 THEN -x ELSE x) * Pow2[Mant - n + 1]) % Full]

\* A real number with f bits of fraction: every exponent has an implied one.
softx87_unpack_raw_fp(f, bias, x) ==
    [sign |-> x.sign, exp |-> (x.exp - bias) + Bias,
     man |-> (Pow2[f] + x.frac) * Pow2[Mant - 1 - f]]

\* Mutant: what is shifted out is dropped.
Scaled_truncate(man, b) == man \div Pow2[b]

\* Shifted right by b bits, to nearest.
Scaled(man, b) ==
    (man \div Pow2[b]) + (IF b > 0 /\ man % Pow2[b] >= Pow2[b - 1] THEN 1 ELSE 0)

\* The bits the sum may need beside those of a mantissa.
ExtraBits(dst, src) ==
    (((src.man \div Half) + (dst.man \div Half)) \div 2)
    + (IF src.sign # dst.sign THEN 1 ELSE 0)

\* The number in dst when src has been added.
op_fadd(dst, src) ==
    LET exb   == ExtraBits(dst, src)
        major == IF dst.exp >= src.exp THEN dst ELSE src
        minor == IF dst.exp >= src.exp THEN src ELSE dst
        large == Scaled(major.man, exb)
        small == Scaled(minor.man, major.exp - minor.exp + exb)
        total == ((IF major.sign = 0 THEN large ELSE -large)
                  + (IF minor.sign = 0 THEN small ELSE -small)) % Full
    IN  IF dst.exp >= src.exp + (Mant - exb) THEN dst
        ELSE IF dst.exp <= src.exp - (Mant - exb) THEN src
        ELSE IF dst.sign = src.sign
        THEN [sign |-> major.sign, exp |-> major.exp + exb, man |-> (large + small) % Full]
        ELSE [sign |-> total \div Half, exp |-> major.exp + exb,
              man |-> IF total >= Half THEN Full - total ELSE total]

=============================================================================
