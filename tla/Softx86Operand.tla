-------------------------- MODULE Softx86Operand --------------------------
(***************************************************************************)
(* Where the operands of an instruction are: the registers and their byte    *)
(* halves, and the memory cell a ModR/M byte, a segment override and a       *)
(* displacement name.  The engines of softx86.c (sx86_exec_full_...) each    *)
(* carry a copy of the address computation; the copies are the same, so one  *)
(* operator, Offset, stands for all.                                       *)
(*                                                                         *)
(* A program is a short sequence of decoded instructions:                   *)
(*   [op, w, mod, reg, rm, disp, imm, swap, over, rep]                      *)
(* w: word operands; swap: the direction bit; over: a segment or "none".     *)
(***************************************************************************)
EXTENDS Integers, Sequences

CONSTANTS
    Byte,       \* the number of values of a byte: 256
    Para,       \* bytes from one segment to the next: 16
    Programs,   \* what is run: records with a field code
    GenRegs,    \* initial general registers
    SegRegs     \* initial segment registers

Word    == Byte * Byte
MemSize == (Word - 1) * Para + Word + 3     \* with the words past a segment's end
Bytes   == 0..(Byte - 1)
Words   == 0..(Word - 1)
Cells   == 0..(MemSize - 1)

\* The order of sx86_regs16.
AX == 0
CX == 1
DX == 2
BX == 3
SP == 4
BP == 5
SI == 6
DI == 7
Segments == {"ES", "CS", "SS", "DS"}

ASSUME OperandAssumption ==
    /\ Byte \in Nat \ {0, 1} /\ Para \in Nat \ {0}
    /\ GenRegs \subseteq [0..7 -> Words]
    /\ SegRegs \subseteq [Segments -> Words]

Instructions ==
    [op : STRING, w : BOOLEAN, mod : 0..3, reg : 0..7, rm : 0..7, disp : Words, imm : Words,
     swap : BOOLEAN, over : Segments \cup {"none"}, rep : {"none", "repz", "repnz"}]

\* An immediate or displacement of one byte is a byte; these name a segment register,
\* which is a word.
ASSUME ProgramAssumption ==
    \A p \in Programs :
        /\ p.code \in Seq(Instructions)
        /\ \A k \in 1..Len(p.code) :
              LET i == p.code[k]
              IN  /\ ~i.w => i.imm \in Bytes
                  /\ i.mod = 1 => i.disp \in Bytes
                  /\ i.op \in {"pushs", "pops"} => i.reg < 4
                  /\ i.op = "movseg" => i.w

VARIABLES
    prog,       \* the program
    pc,         \* the instruction it is at
    reg,        \* general_reg[].w.lo
    seg,        \* segment_reg[].val
    mem,        \* the memory behind the callbacks
    df, zf,     \* flags: direction, zero
    start       \* history: registers, segments and memory at the start

vars == <<prog, pc, reg, seg, mem, df, zf, start>>

TypeOK ==
    /\ pc \in 1..(Len(prog.code) + 1)
    /\ reg \in [0..7 -> Words]
    /\ seg \in [Segments -> Words]
    /\ \A a \in Cells : mem[a] \in Bytes
    /\ df \in BOOLEAN /\ zf \in BOOLEAN

-----------------------------------------------------------------------------
(***************************************************************************)
(* Registers and memory.                                                   *)
(***************************************************************************)
I == prog.code[pc]

\* Byte registers: AL, CL, DL, BL, then AH, CH, DH, BH.
ByteReg(r, k) == IF k < 4 THEN r[k] % Byte ELSE r[k - 4] \div Byte

WithByteReg(r, k, v) ==
    IF k < 4 THEN [r EXCEPT ![k] = (@ - (@ % Byte)) + v]
             ELSE [r EXCEPT ![k - 4] = (v * Byte) + (@ % Byte)]

GetReg(r, w, k)     == IF w THEN r[k] ELSE ByteReg(r, k)
SetReg(r, w, k, v)  == IF w THEN [r EXCEPT ![k] = v] ELSE WithByteReg(r, k, v)

\* Little-endian; the second byte follows the first also past the segment's end.
Fetch(m, w, a) == IF w THEN m[a] + (Byte * m[a + 1]) ELSE m[a]
Write(m, w, a, v) ==
    IF w THEN [m EXCEPT ![a] = v % Byte, ![a + 1] = v \div Byte] ELSE [m EXCEPT ![a] = v]

Linear(s, o) == (s * Para) + o

SignExtended(d) == IF d >= Byte \div 2 THEN d + Word - Byte ELSE d

\* The if-else chain every engine has.  A displacement of one byte is extended.
Base ==
    CASE I.rm = 0 -> reg[BX] + reg[SI]
      [] I.rm = 1 -> reg[BX] + reg[DI]
      [] I.rm = 2 -> reg[BP] + reg[SI]
      [] I.rm = 3 -> reg[BP] + reg[DI]
      [] I.rm = 4 -> reg[SI]
      [] I.rm = 5 -> reg[DI]
      [] I.rm = 6 -> IF I.mod = 0 THEN 0 ELSE reg[BP]
      [] I.rm = 7 -> reg[BX]

Displacement ==
    CASE I.mod = 0 -> IF I.rm = 6 THEN I.disp ELSE 0
      [] I.mod = 1 -> SignExtended(I.disp)
      [] I.mod = 2 -> I.disp

Offset == (Base + Displacement) % Word

\* Mutant: [BP] without a displacement's second byte is taken for an address.
SegOf_mod2 ==
    IF I.over # "none" THEN seg[I.over]
    ELSE IF I.rm \in {2, 3} \/ (I.rm = 6 /\ I.mod = 2) THEN seg["SS"] ELSE seg["DS"]

\* BP goes with the stack, unless there is an override.
SegOf ==
    IF I.over # "none" THEN seg[I.over]
    ELSE IF I.rm \in {2, 3} \/ (I.rm = 6 /\ I.mod \in {1, 2}) THEN seg["SS"] ELSE seg["DS"]

Cell  == Linear(SegOf, Offset)      \* the operand, when it is in memory
InReg == I.mod = 3

-----------------------------------------------------------------------------
(***************************************************************************)
(* Instructions.                                                           *)
(***************************************************************************)
At(ops) == /\ pc <= Len(prog.code) /\ I.op \in ops
           /\ UNCHANGED <<prog, start>>
Retires == pc' = pc + 1
KeepFlags == UNCHANGED <<df, zf>>

\* What an instruction makes of the r/m operand.
RM == IF InReg THEN GetReg(reg, I.w, I.rm) ELSE Fetch(mem, I.w, Cell)
StoresRM(v) ==
    IF InReg THEN reg' = SetReg(reg, I.w, I.rm, v) /\ UNCHANGED mem
             ELSE mem' = Write(mem, I.w, Cell, v) /\ UNCHANGED reg

\* MOV r/m,r and MOV r,r/m.
Exec_mov ==
    /\ At({"mov"}) /\ Retires /\ KeepFlags /\ UNCHANGED seg
    /\ IF I.swap THEN reg' = SetReg(reg, I.w, I.reg, RM) /\ UNCHANGED mem
       ELSE StoresRM(GetReg(reg, I.w, I.reg))

SregName == <<"ES", "CS", "SS", "DS">>

\* MOV r/m,sreg and MOV sreg,r/m: nothing for a segment register there is not.
Exec_mov_sreg ==
    /\ At({"movseg"}) /\ Retires /\ KeepFlags
    /\ IF I.reg >= 4 THEN UNCHANGED <<reg, seg, mem>>
       ELSE IF I.swap
       THEN seg' = [seg EXCEPT ![SregName[I.reg + 1]] = RM] /\ UNCHANGED <<reg, mem>>
       ELSE StoresRM(seg[SregName[I.reg + 1]]) /\ UNCHANGED seg

\* MOV AL/AX,[address] and back: always DS without an override.
Exec_mov_moffs ==
    /\ At({"moffs"}) /\ Retires /\ KeepFlags /\ UNCHANGED seg
    /\ LET a == Linear(IF I.over = "none" THEN seg["DS"] ELSE seg[I.over], I.disp)
       IN  IF I.swap THEN mem' = Write(mem, I.w, a, GetReg(reg, I.w, AX)) /\ UNCHANGED reg
           ELSE reg' = SetReg(reg, I.w, AX, Fetch(mem, I.w, a)) /\ UNCHANGED mem

\* MOV r,imm.
Exec_mov_imm ==
    /\ At({"movi"}) /\ Retires /\ KeepFlags /\ UNCHANGED <<seg, mem>>
    /\ reg' = SetReg(reg, I.w, I.reg, I.imm)

\* MOV r/m,imm.
Exec_groupC6 ==
    /\ At({"groupC6"}) /\ Retires /\ KeepFlags /\ UNCHANGED seg
    /\ StoresRM(I.imm)

\* Nothing for a register.
Exec_lea ==
    /\ At({"lea"}) /\ Retires /\ KeepFlags /\ UNCHANGED <<seg, mem>>
    /\ reg' = IF InReg THEN reg ELSE [reg EXCEPT ![I.reg] = Offset]

\* LES and LDS: the offset, then the segment; nothing for a register.
LoadsFar(name) ==
    IF InReg THEN UNCHANGED <<reg, seg>>
    ELSE /\ reg' = [reg EXCEPT ![I.reg] = Fetch(mem, TRUE, Cell)]
         /\ seg' = [seg EXCEPT ![name] = Fetch(mem, TRUE, Cell + 2)]

Exec_les ==
    /\ At({"les", "lds"}) /\ Retires /\ KeepFlags /\ UNCHANGED mem
    /\ LoadsFar(IF I.op = "les" THEN "ES" ELSE "DS")

\* Mutant: the register is loaded before it is saved.
Exec_xchg_early ==
    /\ At({"xchg"}) /\ Retires /\ KeepFlags /\ UNCHANGED seg
    /\ LET r == SetReg(reg, I.w, I.reg, RM)
       IN  IF InReg THEN reg' = SetReg(r, I.w, I.rm, GetReg(r, I.w, I.reg)) /\ UNCHANGED mem
           ELSE reg' = r /\ mem' = Write(mem, I.w, Cell, GetReg(r, I.w, I.reg))

\* XCHG r/m,r and, with mod 3, XCHG AX,r.
Exec_xchg ==
    /\ At({"xchg"}) /\ Retires /\ KeepFlags /\ UNCHANGED seg
    /\ LET old == GetReg(reg, I.w, I.reg)
       IN  IF InReg THEN /\ reg' = SetReg(SetReg(reg, I.w, I.reg, RM), I.w, I.rm, old)
                         /\ UNCHANGED mem
           ELSE reg' = SetReg(reg, I.w, I.reg, RM) /\ mem' = Write(mem, I.w, Cell, old)

\* NOT r/m, the one operation of its group that leaves the flags alone.
Exec_groupF6 ==
    /\ At({"not"}) /\ Retires /\ KeepFlags /\ UNCHANGED seg
    /\ StoresRM((IF I.w THEN Word ELSE Byte) - 1 - RM)

Pushed == (reg[SP] + Word - 2) % Word

\* PUSH r/m.
Exec_groupFE ==
    /\ At({"push"}) /\ Retires /\ KeepFlags /\ UNCHANGED seg
    /\ reg' = [reg EXCEPT ![SP] = Pushed]
    /\ mem' = Write(mem, TRUE, Linear(seg["SS"], Pushed), RM)

\* POP r/m: SP has moved when the operand is stored.
Exec_group8F ==
    /\ At({"pop"}) /\ Retires /\ KeepFlags /\ UNCHANGED seg
    /\ LET v == Fetch(mem, TRUE, Linear(seg["SS"], reg[SP]))
           r == [reg EXCEPT ![SP] = (@ + 2) % Word]
       IN  IF InReg THEN reg' = [r EXCEPT ![I.rm] = v] /\ UNCHANGED mem
           ELSE reg' = r /\ mem' = Write(mem, TRUE, Cell, v)

\* PUSH of a register or segment register; the bug switch for SP is off.
Exec_push ==
    /\ At({"pushr", "pushs"}) /\ Retires /\ KeepFlags /\ UNCHANGED seg
    /\ reg' = [reg EXCEPT ![SP] = Pushed]
    /\ mem' = Write(mem, TRUE, Linear(seg["SS"], Pushed),
                    IF I.op = "pushr" THEN reg[I.reg] ELSE seg[SregName[I.reg + 1]])

\* POP of a register, SP among them, or of a segment register.
Exec_pop ==
    /\ At({"popr", "pops"}) /\ Retires /\ KeepFlags /\ UNCHANGED mem
    /\ LET v == Fetch(mem, TRUE, Linear(seg["SS"], reg[SP]))
           r == [reg EXCEPT ![SP] = (@ + 2) % Word]
       IN  IF I.op = "popr" THEN reg' = [r EXCEPT ![I.reg] = v] /\ UNCHANGED seg
           ELSE reg' = r /\ seg' = [seg EXCEPT ![SregName[I.reg + 1]] = v]

Exec_clx ==
    /\ At({"cld", "std"}) /\ Retires
    /\ df' = (I.op = "std") /\ UNCHANGED <<reg, seg, mem, zf>>

Operand ==
    \/ Exec_mov \/ Exec_mov_sreg \/ Exec_mov_moffs \/ Exec_mov_imm \/ Exec_groupC6
    \/ Exec_lea \/ Exec_les \/ Exec_xchg \/ Exec_groupF6 \/ Exec_groupFE \/ Exec_group8F
    \/ Exec_push \/ Exec_pop
    \/ Exec_clx

\* Memory starts with a pattern in which neighbours differ.
Init ==
    /\ prog \in Programs /\ pc = 1
    /\ reg \in GenRegs /\ seg \in SegRegs
    /\ mem = [a \in Cells |-> (a + (a \div Byte)) % Byte]
    /\ df = FALSE /\ zf = FALSE
    /\ start = [reg |-> reg, seg |-> seg, mem |-> mem]

Done == pc = Len(prog.code) + 1

-----------------------------------------------------------------------------
(***************************************************************************)
(* The programs the properties are about, by their field kind.             *)
(***************************************************************************)
\* Whether register k is all or half of a register that addresses memory.
AddressReg(w, k) == (IF w \/ k < 4 THEN k ELSE k - 4) \in {BX, BP, SI, DI}

InMemory(i) == i.op = "moffs" \/ i.mod # 3

\* j undoes i.
Undoes(j, i) ==
    \/ i.op = "not" /\ j = i
    \/ i.op = "xchg" /\ j = i /\ (InMemory(i) => ~AddressReg(i.w, i.reg))
    \/ i.op = "push" /\ i.w /\ j = [i EXCEPT !.op = "pop"]

\* The register or segment register a PUSH pushes or a POP pops.
OnStack(i, x, ofReg, ofSeg, ofRM) ==
    \/ i.op = ofReg /\ x.in = "reg" /\ x.w /\ x.n = i.reg
    \/ i.op = ofSeg /\ x.in = "seg" /\ x.n = i.reg + 1
    \/ i.op = ofRM /\ i.w /\ i.mod = 3 /\ x.in = "reg" /\ x.w /\ x.n = i.rm

\* i stores src in memory and keeps the registers memory is addressed by.
StoresIn(i, src) ==
    /\ InMemory(i) /\ src.w = i.w
    /\ \/ i.op = "groupC6" /\ src.in = "imm" /\ src.n = i.imm
       \/ i.op = "mov" /\ ~i.swap /\ src.in = "reg" /\ src.n = i.reg
       \/ i.op = "xchg" /\ ~AddressReg(i.w, i.reg) /\ src.in = "reg" /\ src.n = i.reg
       \/ i.op = "movseg" /\ ~i.swap /\ i.reg < 4 /\ src.in = "seg" /\ src.n = i.reg + 1
       \/ i.op = "moffs" /\ i.swap /\ src.in = "reg" /\ src.n = AX

\* i loads dst from at bytes past its operand.
LoadsFrom(i, dst, at) ==
    /\ InMemory(i)
    /\ \/ i.op = "mov" /\ i.swap /\ dst.in = "reg" /\ dst.w = i.w /\ dst.n = i.reg /\ at = 0
       \/ i.op = "xchg" /\ dst.in = "reg" /\ dst.w = i.w /\ dst.n = i.reg /\ at = 0
       \/ /\ i.op = "movseg" /\ i.swap /\ i.reg < 4
          /\ dst.in = "seg" /\ dst.w /\ dst.n = i.reg + 1 /\ at = 0
       \/ i.op = "moffs" /\ ~i.swap /\ dst.in = "reg" /\ dst.w = i.w /\ dst.n = AX /\ at = 0
       \/ i.op \in {"les", "lds"} /\ dst.in = "reg" /\ dst.w /\ dst.n = i.reg /\ at = 0
       \/ i.op = "les" /\ dst.in = "seg" /\ dst.w /\ dst.n = 1 /\ at = 2
       \/ i.op = "lds" /\ dst.in = "seg" /\ dst.w /\ dst.n = 4 /\ at = 2

\* h, before i, brings an immediate into the register i stores, or loads one that i
\* has no use for.
Prepares(h, i, src) ==
    \/ /\ h.op = "movi" /\ ~AddressReg(h.w, h.reg)
       /\ src.in = "imm" /\ src.w = h.w /\ src.n = h.imm
       /\ StoresIn(i, [in |-> "reg", w |-> h.w, n |-> h.reg])
    \/ /\ h.op = "lea" /\ ~AddressReg(TRUE, h.reg) /\ StoresIn(i, src)
       /\ src.in = "reg" => src.n # h.reg /\ (~src.w => src.n # h.reg + 4)

ASSUME KindsAssumption ==
    \A p \in Programs :
        /\ p.kind = "twice" => Len(p.code) = 2 /\ Undoes(p.code[2], p.code[1])
        /\ p.kind = "copy" =>
              /\ Len(p.code) = 2
              /\ OnStack(p.code[1], p.src, "pushr", "pushs", "push")
              /\ OnStack(p.code[2], p.dst, "popr", "pops", "pop")
        /\ p.kind = "pair" =>
              /\ Len(p.code) = p.load /\ p.load = p.store + 1
              /\ LoadsFrom(p.code[p.load], p.dst, p.at)
              /\ \/ p.store = 1 /\ StoresIn(p.code[1], p.src)
                 \/ p.store = 2 /\ Prepares(p.code[1], p.code[2], p.src)

-----------------------------------------------------------------------------
(***************************************************************************)
(* Properties.                                                             *)
(***************************************************************************)
\* What the decompiler prints for an operand: sx86_regsaddr16_16.
AddressRegs ==
    << {BX, SI}, {BX, DI}, {BP, SI}, {BP, DI}, {SI}, {DI}, {BP}, {BX} >>

\* The cell an operand reads as: BP takes the stack segment.
ListedCell(i) ==
    LET absolute == i.op = "moffs" \/ (i.mod = 0 /\ i.rm = 6)
        named == IF absolute THEN {} ELSE AddressRegs[i.rm + 1]
        d == IF absolute \/ i.mod = 2 THEN i.disp
             ELSE IF i.mod = 0 THEN 0
             ELSE IF i.disp < Byte \div 2 THEN i.disp ELSE i.disp - Byte
        r == start.reg
        o == d + (IF BX \in named THEN r[BX] ELSE 0) + (IF BP \in named THEN r[BP] ELSE 0)
               + (IF SI \in named THEN r[SI] ELSE 0) + (IF DI \in named THEN r[DI] ELSE 0)
        s == IF i.over # "none" THEN i.over ELSE IF BP \in named THEN "SS" ELSE "DS"
    IN  (start.seg[s] * Para) + ((o + Word) % Word)

\* A pair: one instruction stores prog.src, a later one loads prog.dst, prog.at
\* bytes further on.
Pair == prog.kind = "pair" /\ Done
Stored == IF prog.src.in = "reg" THEN GetReg(start.reg, prog.src.w, prog.src.n)
          ELSE IF prog.src.in = "seg" THEN start.seg[SregName[prog.src.n]]
          ELSE prog.src.n
Loaded == IF prog.dst.in = "reg" THEN GetReg(reg, prog.dst.w, prog.dst.n)
          ELSE seg[SregName[prog.dst.n]]

\* Byte k of a value.
ByteOf(v, k) == IF k = 0 THEN v % Byte ELSE v \div Byte
Width(w) == IF w THEN 2 ELSE 1

(***************************************************************************)
(* What one instruction stores in memory another loads from there, byte by   *)
(* byte, whichever forms and widths the two use, if and only if their       *)
(* operands read as overlapping addresses in a listing; everything else it   *)
(* loads is what was in memory before (the ModR/M engines, MOV with its      *)
(* segment and absolute forms, XCHG, PUSH, POP, LES and LDS).                *)
(***************************************************************************)
StoredIsLoaded ==
    Pair =>
        LET a == ListedCell(prog.code[prog.store])
            b == ListedCell(prog.code[prog.load]) + prog.at
        IN  \A k \in 0..(Width(prog.dst.w) - 1) :
               ByteOf(Loaded, k) =
                   IF b + k \in a..(a + Width(prog.src.w) - 1) THEN ByteOf(Stored, b + k - a)
                   ELSE start.mem[b + k]

\* The two bytes a program that pushes one word leaves below the stack.
BelowStack == { Linear(start.seg["SS"], (start.reg[SP] + Word - 2) % Word) + k : k \in 0..1 }

(***************************************************************************)
(* An exchange done twice, a complement taken twice and an operand pushed    *)
(* and popped leave every register and all memory as they were, but for the  *)
(* cells below the stack, also when the operand is part of the same          *)
(* register; what one register pushed another pops, SP and the segment       *)
(* registers included (sx86_exec_full_modregrm_xchg, op_not, op_pushmem,      *)
(* op_popmem, pushpop.c).                                                   *)
(***************************************************************************)
RoundTrips ==
    /\ prog.kind \in {"twice", "copy"} /\ Done =>
          \A a \in Cells : \/ mem[a] = start.mem[a]
                          \/ /\ a \in BelowStack
                             /\ \E k \in 1..pc - 1 : prog.code[k].op \in {"push", "pushr", "pushs"}
    /\ prog.kind = "twice" /\ Done => reg = start.reg /\ seg = start.seg
    /\ prog.kind = "copy" /\ Done =>
          IF prog.dst.in = "reg"
          THEN reg = [start.reg EXCEPT ![prog.dst.n] = Stored] /\ seg = start.seg
          ELSE reg = start.reg /\ seg = [start.seg EXCEPT ![SregName[prog.dst.n]] = Stored]

=============================================================================
