----------------------------- MODULE MCSoftx87 -----------------------------
(***************************************************************************)
(* Softx87 with three registers of six bits.  The exponents of the operands   *)
(* are up to seven apart, so that one may be too small to matter.            *)
(***************************************************************************)
EXTENDS Softx87

F(f, b, s, e, x) == [f |-> f, bias |-> b, sign |-> s, exp |-> e, frac |-> x]

\* Short reals with one bit of fraction, long ones with five.
MCFloats ==
    { F(1, 3, 0, 3, 0), F(1, 3, 0, 4, 1), F(1, 3, 1, 3, 0), F(1, 3, 0, 0, 0),
      F(5, 7, 0, 8, 31), F(5, 7, 1, 8, 1), F(5, 7, 0, 2, 3), F(5, 7, 1, 1, 31) }

MCInts == { [n |-> n, x |-> x] : n \in {4, 6}, x \in {-8, -1, 0, 3, 7} }

=============================================================================
