----------------------------- MODULE MCOperand -----------------------------
(***************************************************************************)
(* Softx86String on bytes of two bits: words of 16 values, segments of 16    *)
(* bytes a paragraph of 2 apart.                                            *)
(***************************************************************************)
EXTENDS Softx86String

Nothing == [op |-> "", w |-> TRUE, mod |-> 3, reg |-> 0, rm |-> 0, disp |-> 0, imm |-> 0,
            swap |-> FALSE, over |-> "none", rep |-> "none"]

\* Every way to a memory operand: mod, rm, displacement, override.
Form(m, n, d, s) == [Nothing EXCEPT !.mod = m, !.rm = n, !.disp = d, !.over = s]
Forms ==
    { Form(0, n, 0, "none") : n \in 0..7 \ {6} }
    \cup { Form(1, n, 2, "none") : n \in 0..7 }
    \cup { Form(2, n, 14, "none") : n \in 0..7 }
    \cup { Form(0, 6, 3, "none"), Form(1, 6, 1, "none"), Form(2, 0, 5, "none"),
            Form(0, 2, 0, "ES"), Form(0, 7, 0, "SS") }

\* Absolute operands, through each segment.
Absolute == { [Nothing EXCEPT !.op = "moffs", !.disp = d, !.over = s] :
                d \in 0..15, s \in {"none", "ES", "SS"} }

In(n)  == [in |-> "reg", w |-> TRUE, n |-> n]
InB(n) == [in |-> "reg", w |-> FALSE, n |-> n]
InS(s) == [in |-> "seg", w |-> TRUE, n |-> s]
Imm(w, v) == [in |-> "imm", w |-> w, n |-> v]

\* Stores by form f, and what they store.
Stores(f) == {
    <<Imm(FALSE, 2), [f EXCEPT !.op = "groupC6", !.w = FALSE, !.imm = 2]>>,
    <<In(CX),  [f EXCEPT !.op = "mov", !.reg = CX]>>,
    <<InB(CX), [f EXCEPT !.op = "mov", !.w = FALSE, !.reg = CX]>>,
    <<InB(5),  [f EXCEPT !.op = "mov", !.w = FALSE, !.reg = 5]>>,
    <<In(CX),  [f EXCEPT !.op = "xchg", !.reg = CX]>>,
    <<InS(1), [f EXCEPT !.op = "movseg", !.reg = 0]>>,
    <<Imm(TRUE, 9), [f EXCEPT !.op = "groupC6", !.imm = 9]>> }

Loads(f) == {
    <<In(DX),  [f EXCEPT !.op = "mov", !.reg = DX, !.swap = TRUE]>>,
    <<InB(6),  [f EXCEPT !.op = "mov", !.w = FALSE, !.reg = 6, !.swap = TRUE]>>,
    <<InB(6),  [f EXCEPT !.op = "xchg", !.w = FALSE, !.reg = 6]>>,
    <<InS(1), [f EXCEPT !.op = "movseg", !.reg = 0, !.swap = TRUE]>>,
    <<In(DX),  [f EXCEPT !.op = "les", !.reg = DX]>> }

Far(f) == { <<InS(4), [f EXCEPT !.op = "lds", !.reg = DX]>> }

P(src, dst, at, store, load, code) ==
    [kind |-> "pair", src |-> src, dst |-> dst, at |-> at, store |-> store, load |-> load,
     code |-> code]

\* What goes through memory to or from AX: an instruction before or after the absolute one.
Way(src, dst, at, before, after) ==
    [src |-> src, dst |-> dst, at |-> at, before |-> before, after |-> after]

\* An immediate by way of a register, or of its upper half.
ByRegister(f, b) ==
    << [Nothing EXCEPT !.op = "movi", !.w = b, !.reg = IF b THEN CX ELSE 5, !.imm = 2],
       [f EXCEPT !.op = "mov", !.w = b, !.reg = IF b THEN CX ELSE 5] >>

Ways ==
    { Way(x[1], In(AX), 0, <<x[2]>>, << >>) : x \in UNION {Stores(f) : f \in Forms} }
    \cup { Way(In(AX), y[1], 0, << >>, <<y[2]>>) : y \in UNION {Loads(f) : f \in Forms} }
    \cup { Way(In(AX), y[1], 2, << >>, <<y[2]>>) : y \in UNION {Far(f) : f \in Forms} }
    \cup { Way(Imm(b, 2), In(AX), 0, ByRegister(f, b), << >>) : f \in Forms, b \in BOOLEAN }

Pairs ==
    { LET n == IF w.before = << >> THEN 1 ELSE Len(w.before)
      IN  P(w.src, w.dst, w.at, n, n + 1,
            w.before \o <<[a EXCEPT !.swap = (w.after # << >>)]>> \o w.after) :
        w \in Ways, a \in Absolute }

\* LEA into a register the form goes on without.
ByLea ==
    { P(In(CX), In(DX), 0, 2, 3,
        << [f EXCEPT !.op = "lea", !.reg = DX],
           [f EXCEPT !.op = "mov", !.reg = CX], [f EXCEPT !.op = "mov", !.reg = DX, !.swap = TRUE] >>) :
        f \in Forms }

Operands == Forms \cup { [Nothing EXCEPT !.rm = n] : n \in 0..7 }

Twice ==
    { [kind |-> "twice", code |-> <<i, i>>] :
        i \in { [f EXCEPT !.op = "xchg", !.reg = r, !.w = b] :
                   f \in Operands, r \in {AX, CX, DX}, b \in BOOLEAN }
              \cup { [f EXCEPT !.op = "not", !.w = b] : f \in Operands, b \in BOOLEAN } }
    \cup
    { [kind |-> "twice", code |-> <<[f EXCEPT !.op = "push"], [f EXCEPT !.op = "pop"]>>] :
        f \in Operands }

\* Each register and segment register to each other by way of the stack.
Pushes == { <<In(r), [Nothing EXCEPT !.op = "pushr", !.reg = r]>> : r \in 0..7 }
          \cup { <<InS(s), [Nothing EXCEPT !.op = "pushs", !.reg = s - 1]>> : s \in 1..4 }
          \cup { <<In(r), [Nothing EXCEPT !.op = "push", !.rm = r]>> : r \in {AX, SP} }
Pops == { <<In(r), [Nothing EXCEPT !.op = "popr", !.reg = r]>> : r \in 0..7 }
        \cup { <<InS(s), [Nothing EXCEPT !.op = "pops", !.reg = s - 1]>> : s \in 1..4 }
        \cup { <<In(r), [Nothing EXCEPT !.op = "pop", !.rm = r]>> : r \in {AX, SP} }
Copies ==
    { [kind |-> "copy", src |-> x[1], dst |-> y[1], code |-> <<x[2], y[2]>>] :
        x \in Pushes, y \in Pops }

Blocks ==
    { [kind |-> "block",
       code |-> << [Nothing EXCEPT !.op = d],
                   [Nothing EXCEPT !.op = o, !.w = b, !.over = s, !.rep = p] >>] :
        d \in {"cld", "std"}, o \in Strings, b \in BOOLEAN, s \in {"none", "ES", "SS"},
        p \in {"none", "repz", "repnz"} }

MCPrograms == Pairs \cup ByLea \cup Copies \cup Twice \cup Blocks

\* AX, CX, DX, BX, SP, BP, SI, DI.
Regs(ax, cx, bx, bp, si, di) ==
    [k \in 0..7 |-> CASE k = 0 -> ax [] k = 1 -> cx [] k = 2 -> 0 [] k = 3 -> bx
                      [] k = 4 -> 0 [] k = 5 -> bp [] k = 6 -> si [] k = 7 -> di]
MCGenRegs == { Regs(6, 0, 4, 7, 1, 2), Regs(9, 3, 15, 11, 5, 6), Regs(14, 5, 1, 0, 14, 11) }

MCSegRegs == { [ES |-> 2, CS |-> 0, SS |-> 7, DS |-> 3] }

=============================================================================
