------------------------------ MODULE MCImage ------------------------------
(***************************************************************************)
(* Writing small code memories for Softx86Step: one segment each for the    *)
(* main program, the handler of interrupts 3 and 4, and the NMI handler.    *)
(***************************************************************************)
EXTENDS Softx86Step

\* An instruction in memory: its opcode byte, then operand bytes.
Enc(op, n, seg) == <<[op |-> op, arg |-> n, seg |-> seg]>>
                     \o [k \in 1..Operands(op) |-> Unmapped]
I(op)       == Enc(op, 0, 0)
IArg(op, n) == Enc(op, n, 0)

MainSeg  == 1
MCEntry  == [seg |-> MainSeg, ofs |-> 0]
MCVector == [i \in {2, 3, 4} |-> [seg |-> IF i = 2 THEN 3 ELSE 2, ofs |-> 0]]

\* Segments 1, 2 and 3 hold the three parts, each from offset 0 on.
Image(parts) ==
    LET Seg(a) == a \div Para
        Ofs(a) == (a % Para) + 1
    IN  [a \in {x \in Para..4 * Para - 1 : Ofs(x) <= Len(parts[Seg(x)])} |->
            parts[Seg(a)][Ofs(a)]]

=============================================================================
