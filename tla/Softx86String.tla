--------------------------- MODULE Softx86String ---------------------------
(***************************************************************************)
(* The string instructions of shovel.c on the registers and the memory of    *)
(* Softx86Operand.  One step moves or compares one element; with a repeat    *)
(* prefix the handler asks for another run of the same instruction until CX  *)
(* is used up or a comparison ends it.                                      *)
(***************************************************************************)
EXTENDS Softx86Operand

Strings == {"movs", "cmps", "stos", "lods", "scas"}
Sources == {"movs", "cmps", "lods"}             \* these read DS:SI
Targets == {"movs", "cmps", "stos", "scas"}     \* these read or write ES:DI
Compares == {"cmps", "scas"}

\* A program of kind "block" sets DF and runs one string instruction.
ASSUME BlockAssumption ==
    \A p \in Programs :
        p.kind = "block" =>
            /\ Len(p.code) = 2
            /\ p.code[1].op \in {"cld", "std"} /\ p.code[2].op \in Strings

\* Mutant: the index is not cut to a word.
Advanced_wide(k) == reg[k] + ((IF df THEN -1 ELSE 1) * Width(I.w))

\* Mutant: words are a byte apart.
Advanced_byte(k) == (reg[k] + Word + (IF df THEN -1 ELSE 1)) % Word

Advanced(k) ==
    (reg[k] + Word + ((IF df THEN -1 ELSE 1) * Width(I.w))) % Word

Source == Linear(IF I.over = "none" THEN seg["DS"] ELSE seg[I.over], reg[SI])

\* A segment override is used for the destination as well.
Target == Linear(IF I.over = "none" THEN seg["ES"] ELSE seg[I.over], reg[DI])

\* Mutant: REPZ and REPNZ are taken for each other.
Terminal_swapped(z) ==
    I.op \in Compares /\ ((I.rep = "repz" /\ z) \/ (I.rep = "repnz" /\ ~z))

\* REPNZ ends on a match, REPZ on a difference; only comparisons look at ZF.
Terminal(z) ==
    I.op \in Compares /\ ((I.rep = "repnz" /\ z) \/ (I.rep = "repz" /\ ~z))

\* The element from DS:SI, or from the accumulator.
Element ==
    IF I.op \in Sources THEN Fetch(mem, I.w, Source) ELSE GetReg(reg, I.w, AX)

Exec_shovel ==
    /\ At(Strings) /\ UNCHANGED <<seg, df>>
    /\ IF I.rep # "none" /\ reg[CX] = 0
       THEN Retires /\ UNCHANGED <<reg, mem, zf>>
       ELSE /\ mem' = IF I.op \in {"movs", "stos"} THEN Write(mem, I.w, Target, Element) ELSE mem
            /\ zf' = IF I.op \in Compares THEN Element = Fetch(mem, I.w, Target) ELSE zf
            /\ LET r == IF I.op = "lods" THEN SetReg(reg, I.w, AX, Element) ELSE reg
               IN  reg' = [r EXCEPT
                       ![SI] = IF I.op \in Sources THEN Advanced(SI) ELSE @,
                       ![DI] = IF I.op \in Targets THEN Advanced(DI) ELSE @,
                       ![CX] = IF I.rep = "none" THEN @ ELSE (@ + Word - 1) % Word]
            /\ pc' = IF I.rep = "none" \/ reg'[CX] = 0 \/ Terminal(zf') THEN pc + 1 ELSE pc

Next == Operand \/ Exec_shovel

Spec == Init /\ [][Next]_vars

-----------------------------------------------------------------------------
(***************************************************************************)
(* Properties, of programs that set DF and run one string instruction.       *)
(***************************************************************************)
Block == prog.kind = "block" /\ Done
S     == prog.code[2]
Count == IF S.rep = "none" THEN 1 ELSE start.reg[CX]

\* The register k after n elements, and the cells of element n.
After(k, n) ==
    (start.reg[k] + (Word * Word) + ((IF df THEN -n ELSE n) * Width(S.w))) % Word
SourceCell(n) == Linear(start.seg[IF S.over = "none" THEN "DS" ELSE S.over], After(SI, n))
TargetCell(n) == Linear(start.seg[IF S.over = "none" THEN "ES" ELSE S.over], After(DI, n))

\* Elements of this width at two addresses share a byte.
Meet(a, b) == a - b < Width(S.w) /\ b - a < Width(S.w)

\* Nothing stored is read or overwritten later in the block.
Apart ==
    \A k \in 1..(Count - 1) : \A j \in 0..(k - 1) :
        /\ ~Meet(TargetCell(j), TargetCell(k))
        /\ S.op = "movs" => ~Meet(TargetCell(j), SourceCell(k))

(***************************************************************************)
(* MOVS moves and STOS fills a block of CX elements, in either direction,    *)
(* also onto an overlapping block in the safe direction, and nothing else;   *)
(* LODS ends with the last element; SI, DI and CX end up past the block.      *)
(* An override is for the source and, unlike on the processor, for the       *)
(* destination too (shovel.c).                                             *)
(***************************************************************************)
BlockMoved ==
    Block /\ S.op \in {"movs", "stos", "lods"} =>
        LET r == [start.reg EXCEPT
                ![SI] = IF S.op = "stos" THEN @ ELSE After(SI, Count),
                ![DI] = IF S.op = "lods" THEN @ ELSE After(DI, Count),
                ![CX] = IF S.rep = "none" THEN @ ELSE 0]
            last == Fetch(start.mem, S.w, SourceCell(Count - 1))
            element(n) == IF S.op = "movs" THEN Fetch(start.mem, S.w, SourceCell(n))
                          ELSE GetReg(start.reg, S.w, AX)
            stored == S.op # "lods"
        IN  /\ reg = IF S.op = "lods" /\ Count > 0 THEN SetReg(r, S.w, AX, last) ELSE r
            /\ stored /\ Apart =>
                  \A n \in 0..(Count - 1) : Fetch(mem, S.w, TargetCell(n)) = element(n)
            /\ \A a \in Cells :
                  mem[a] # start.mem[a] =>
                      stored /\ \E n \in 0..(Count - 1) : a - TargetCell(n) \in 0..(Width(S.w) - 1)

(***************************************************************************)
(* A repeated CMPS or SCAS stops just past the first element that differs     *)
(* (REPZ) or matches (REPNZ), or when CX is used up; ZF tells which, CX how   *)
(* many are left, and with CX = 0 nothing happens at all (shovel.c).         *)
(***************************************************************************)
ScanStops ==
    Block /\ S.op \in Compares =>
        LET value(n) == IF S.op = "cmps" THEN Fetch(start.mem, S.w, SourceCell(n))
                        ELSE GetReg(start.reg, S.w, AX)
            same(n) == value(n) = Fetch(start.mem, S.w, TargetCell(n))
            stops(n) == S.rep = "none" \/ (S.rep = "repz" /\ ~same(n)) \/ (S.rep = "repnz" /\ same(n))
            done == IF \E n \in 0..(Count - 1) : stops(n)
                    THEN 1 + (CHOOSE n \in 0..(Count - 1) :
                                 stops(n) /\ \A j \in 0..(n - 1) : ~stops(j))
                    ELSE Count
        IN  /\ mem = start.mem
            /\ zf = (done > 0 /\ same(done - 1))
            /\ reg = [start.reg EXCEPT
                   ![SI] = IF S.op = "scas" THEN @ ELSE After(SI, done),
                   ![DI] = After(DI, done),
                   ![CX] = IF S.rep = "none" THEN @ ELSE Count - done]

=============================================================================
