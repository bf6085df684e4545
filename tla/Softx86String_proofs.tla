------------------------ MODULE Softx86String_proofs ------------------------
(***************************************************************************)
(* That the string instructions (Softx86String) have the effect of the loop  *)
(* they abbreviate, for every width of byte and word, every place of the     *)
(* segments and every count; the types of Softx86Operand, on which they run; *)
(* that what its instructions do twice is undone (RoundCorrect) and what one *)
(* stores another loads (StoreCorrect).                                    *)
(***************************************************************************)
EXTENDS Softx86String, TLAPS

-----------------------------------------------------------------------------
(***************************************************************************)
(* Numbers.                                                                *)
(***************************************************************************)
\* A byte has at least two values, and a word is two bytes.
LEMMA ByteFacts == Byte \in Nat /\ Byte >= 2 /\ Word = Byte * Byte /\ Para \in Nat /\ Para >= 1
  BY OperandAssumption DEF Word

\* A word has four values or more, and more than a byte.
LEMMA WordFacts == Word \in Nat /\ Word >= 4 /\ Word >= Byte + 2
<1>1. Byte * Byte \in Nat /\ Byte * Byte >= 2 * Byte
  BY ByteFacts
<1>. QED
  BY <1>1, ByteFacts

\* What bytes and words are.
LEMMA ByteRange == \A x : x \in Bytes <=> x \in Int /\ 0 <= x /\ x < Byte
  BY ByteFacts DEF Bytes

LEMMA WordRange == \A x : x \in Words <=> x \in Int /\ 0 <= x /\ x < Word
  BY WordFacts DEF Words

\* A value reduced to a word is a word.
LEMMA ModWord == ASSUME NEW x \in Int PROVE x % Word \in Words
  BY WordFacts DEF Words

\* Quotient and remainder.
LEMMA DivMod == ASSUME NEW x \in Int PROVE \E q \in Int : x = (q * Word) + (x % Word)
<1>1. x = ((x \div Word) * Word) + (x % Word) /\ x \div Word \in Int
  BY WordFacts
<1>. QED
  BY <1>1

\* The remainder is the only word at a multiple of Word from a number.
LEMMA ModUnique ==
    ASSUME NEW x \in Int, NEW q \in Int, NEW y \in Words, x = (q * Word) + y
    PROVE  x % Word = y
  BY WordFacts DEF Words

\* Reducing a summand first makes no difference.
LEMMA ModSum ==
    ASSUME NEW x \in Int, NEW y \in Int
    PROVE  ((x % Word) + y) % Word = (x + y) % Word
<1>1. PICK q \in Int : x = (q * Word) + (x % Word)
  BY DivMod
<1>. DEFINE r == x % Word
            s == (r + y) % Word
<1>2. r \in Int
  BY WordFacts
<1>3. PICK p \in Int : r + y = (p * Word) + s
  <2>. HIDE DEF r
  <2>. QED
    BY <1>2, DivMod
<1>4. s \in Words
  BY <1>2, ModWord
<1>. HIDE DEF r, s
<1>5. x + y = ((q + p) * Word) + s
  <2>1. x = (q * Word) + r
    BY <1>1 DEF r
  <2>2. s \in Int
    BY <1>4, WordRange
  <2>. QED
    BY <1>2, <1>3, <2>1, <2>2, WordFacts
<1>6. (x + y) % Word = s
  BY <1>4, <1>5, ModUnique
<1>. QED
  BY <1>6 DEF s, r

\* The two bytes of a word are the word.
LEMMA WordSplit ==
    ASSUME NEW w \in Words
    PROVE  /\ w % Byte \in Bytes /\ w \div Byte \in Bytes
           /\ (Byte * (w \div Byte)) + (w % Byte) = w
<1>. DEFINE r == w % Byte
            q == w \div Byte
<1>1. w = (Byte * q) + r /\ q \in Nat /\ r \in 0..Byte - 1
  <2>1. w \in Nat
    BY WordRange
  <2>. QED
    BY <2>1, ByteFacts
<1>. HIDE DEF r, q
<1>2. q < Byte
  <2>1. SUFFICES ASSUME q >= Byte PROVE FALSE
    BY <1>1, ByteFacts
  <2>2. Byte * q >= Byte * Byte
    BY <1>1, <2>1, ByteFacts
  <2>3. w < Byte * Byte
    BY ByteFacts, WordRange
  <2>. QED
    BY <1>1, <2>2, <2>3, ByteFacts
<1>3. r \in Bytes /\ q \in Bytes /\ (Byte * q) + r = w
  BY <1>1, <1>2, ByteFacts, ByteRange
<1>. QED
  BY <1>3, Zenon DEF r, q

\* Two bytes make a word.
LEMMA WordJoin ==
    ASSUME NEW x \in Bytes, NEW y \in Bytes
    PROVE  (Byte * y) + x \in Words
<1>1. Byte * y <= Byte * (Byte - 1) /\ Byte * y \in Nat
  BY ByteFacts, ByteRange
<1>2. Byte * (Byte - 1) = (Byte * Byte) - Byte
  BY ByteFacts
<1>. QED
  BY <1>1, <1>2, ByteFacts, ByteRange, WordRange

\* Bytes are words.
LEMMA ByteWord == Bytes \subseteq Words
  BY WordFacts, ByteFacts, ByteRange, WordRange

-----------------------------------------------------------------------------
(***************************************************************************)
(* Registers and memory, for either width w.                               *)
(***************************************************************************)
Fits(w, v) == v \in Words /\ (~w => v \in Bytes)

Registers == [0..7 -> Words]
Memories  == [Cells -> Bytes]

\* The cell of an operand and the three bytes after it.
LEMMA CellOf ==
    ASSUME NEW s \in Words, NEW o \in Words, NEW j \in 0..3
    PROVE  Linear(s, o) + j \in Cells /\ Linear(s, o) \in Cells
<1>1. /\ s \in Nat /\ o \in Nat /\ s <= Word - 1 /\ o <= Word - 1 /\ j \in Nat /\ j <= 3
      /\ Word \in Nat /\ Word >= 4 /\ Para \in Nat
  BY WordFacts, ByteFacts, WordRange
<1>2. s * Para <= (Word - 1) * Para /\ s * Para \in Nat /\ (Word - 1) * Para \in Nat
  BY <1>1
<1>. DEFINE p == s * Para
            q == (Word - 1) * Para
<1>3. p \in Nat /\ q \in Nat /\ p <= q
  BY <1>2
<1>. HIDE DEF p, q
<1>4. p + o + j \in 0..(q + Word + 2) /\ p + o \in 0..(q + Word + 2)
  BY <1>1, <1>3
<1>5. Linear(s, o) = p + o /\ Cells = 0..(q + Word + 3 - 1)
  BY <1>1 DEF Linear, Cells, MemSize, p, q
<1>. QED
  BY <1>1, <1>3, <1>4, <1>5

\* A value read from a register fits its width,
LEMMA GetRegFits ==
    ASSUME NEW r \in Registers, NEW w \in BOOLEAN, NEW k \in 0..7
    PROVE  Fits(w, GetReg(r, w, k))
<1>1. CASE w
  BY <1>1 DEF Fits, GetReg, Registers
<1>2. CASE ~w
  <2>1. CASE k < 4
    BY <1>2, <2>1, WordSplit, ByteWord DEF Fits, GetReg, ByteReg, Registers
  <2>2. CASE ~(k < 4)
    <3>1. k - 4 \in 0..7
      BY <2>2
    <3>. QED
      BY <1>2, <2>2, <3>1, WordSplit, ByteWord DEF Fits, GetReg, ByteReg, Registers
  <2>. QED
    BY <2>1, <2>2
<1>. QED
  BY <1>1, <1>2

\* and one that fits can be stored.
LEMMA SetRegType ==
    ASSUME NEW r \in Registers, NEW w \in BOOLEAN, NEW k \in 0..7, NEW v, Fits(w, v)
    PROVE  SetReg(r, w, k, v) \in Registers
<1>1. CASE w
  BY <1>1 DEF Fits, SetReg, Registers
<1>2. CASE ~w
  <2>0. v \in Bytes
    BY <1>2 DEF Fits
  <2>1. CASE k < 4
    <3>. DEFINE x == r[k]
                y == (x - (x % Byte)) + v
    <3>1. x \in Words
      BY DEF Registers
    <3>. HIDE DEF x
    <3>2. y \in Words
      <4>1. /\ (Byte * (x \div Byte)) + (x % Byte) = x /\ x \div Byte \in Bytes
            /\ x % Byte \in Bytes
        BY <3>1, WordSplit
      <4>. DEFINE q == x \div Byte
                  m == x % Byte
      <4>2. (Byte * q) + v \in Words
        BY <2>0, <4>1, WordJoin
      <4>3. q \in Int /\ m \in Int /\ (Byte * q) + m = x
        BY <4>1, ByteRange
      <4>. HIDE DEF q, m
      <4>4. (x - m) + v = (Byte * q) + v
        BY <2>0, <4>3, ByteRange, ByteFacts
      <4>5. (x - m) + v \in Words
        BY <4>2, <4>4
      <4>. QED
        BY <4>5 DEF m
    <3>3. SetReg(r, w, k, v) = [r EXCEPT ![k] = y]
      BY <1>2, <2>1, Zenon DEF SetReg, WithByteReg, x
    <3>. HIDE DEF y
    <3>. QED
      BY <3>2, <3>3 DEF Registers
  <2>2. CASE ~(k < 4)
    <3>. DEFINE j == k - 4
                y == (v * Byte) + (r[j] % Byte)
    <3>1. j \in 0..7
      BY <2>2
    <3>. HIDE DEF j
    <3>2. r[j] \in Words
      BY <3>1 DEF Registers
    <3>3. r[j] % Byte \in Bytes
      BY <3>2, WordSplit
    <3>4. y \in Words
      <4>1. (Byte * v) + (r[j] % Byte) \in Words
        BY <2>0, <3>3, WordJoin
      <4>2. Byte * v = v * Byte
        BY <2>0, ByteRange, ByteFacts
      <4>. QED
        BY <4>1, <4>2
    <3>5. SetReg(r, w, k, v) = [r EXCEPT ![j] = y]
      BY <1>2, <2>2, Zenon DEF SetReg, WithByteReg, j
    <3>. HIDE DEF y
    <3>. QED
      BY <3>1, <3>4, <3>5 DEF Registers
  <2>. QED
    BY <2>1, <2>2
<1>. QED
  BY <1>1, <1>2

\* The same for memory.
LEMMA FetchFits ==
    ASSUME NEW m \in Memories, NEW w \in BOOLEAN, NEW a, a \in Cells, a + 1 \in Cells
    PROVE  Fits(w, Fetch(m, w, a))
<1>1. m[a] \in Bytes /\ m[a + 1] \in Bytes
  BY DEF Memories
<1>2. (Byte * m[a + 1]) + m[a] \in Words
  BY <1>1, WordJoin
<1>3. m[a] + (Byte * m[a + 1]) = (Byte * m[a + 1]) + m[a]
  BY <1>1, ByteRange, ByteFacts
<1>. QED
  BY <1>1, <1>2, <1>3, ByteWord DEF Fits, Fetch

LEMMA WriteType ==
    ASSUME NEW m \in Memories, NEW w \in BOOLEAN, NEW a, NEW v, Fits(w, v)
    PROVE  Write(m, w, a, v) \in Memories
<1>1. v % Byte \in Bytes /\ v \div Byte \in Bytes
  BY WordSplit DEF Fits
<1>2. CASE w
  <2>1. Write(m, w, a, v) = [m EXCEPT ![a] = v % Byte, ![a + 1] = v \div Byte]
    BY <1>2 DEF Write
  <2>. QED
    BY <1>1, <2>1 DEF Memories
<1>3. CASE ~w
  BY <1>3 DEF Write, Memories, Fits
<1>. QED
  BY <1>2, <1>3

-----------------------------------------------------------------------------
(***************************************************************************)
(* Types.                                                                  *)
(***************************************************************************)
Places == [Segments -> Words]

IsStart(s) ==
    /\ s.reg \in Registers /\ s.seg \in Places /\ s.mem \in Memories

TypeInv ==
    /\ prog \in Programs /\ pc \in 1..(Len(prog.code) + 1)
    /\ reg \in Registers /\ seg \in Places /\ mem \in Memories
    /\ df \in BOOLEAN /\ zf \in BOOLEAN
    /\ IsStart(start)

\* The fields of an instruction.
IsInstruction(i) ==
    /\ i.w \in BOOLEAN /\ i.mod \in 0..3 /\ i.reg \in 0..7 /\ i.rm \in 0..7
    /\ i.disp \in Words /\ i.over \in Segments \cup {"none"}
    /\ Fits(i.w, i.imm)
    /\ i.mod = 1 => i.disp \in Bytes
    /\ i.op \in {"pushs", "pops"} => i.reg < 4
    /\ i.op = "movseg" => i.w
    /\ i.rep \in {"none", "repz", "repnz"}

LEMMA CodeType ==
    ASSUME NEW p \in Programs
    PROVE  Len(p.code) \in Nat /\ \A k \in 1..Len(p.code) : IsInstruction(p.code[k])
<1>1. p.code \in Seq(Instructions)
  BY ProgramAssumption
<1>2. Len(p.code) \in Nat
  BY <1>1
<1>3. ASSUME NEW k \in 1..Len(p.code) PROVE IsInstruction(p.code[k])
  <2>. DEFINE i == p.code[k]
  <2>1. i \in Instructions
    BY <1>1
  <2>2. /\ ~i.w => i.imm \in Bytes
        /\ i.mod = 1 => i.disp \in Bytes
        /\ i.op \in {"pushs", "pops"} => i.reg < 4
        /\ i.op = "movseg" => i.w
    BY ProgramAssumption
  <2>. HIDE DEF i
  <2>3. IsInstruction(i)
    BY <2>1, <2>2 DEF Instructions, IsInstruction, Fits
  <2>. QED
    BY <2>3 DEF i
<1>. QED
  BY <1>2, <1>3

\* The instruction at pc.
LEMMA Current ==
    ASSUME TypeInv, NEW ops, At(ops)
    PROVE  /\ IsInstruction(I) /\ I.op \in ops
           /\ pc' = pc + 1 => pc' \in 1..(Len(prog'.code) + 1)
           /\ pc' = pc => pc' \in 1..(Len(prog'.code) + 1)
           /\ prog' \in Programs /\ IsStart(start')
           /\ pc \in 1..Len(prog.code)
<1>1. pc \in 1..(Len(prog.code) + 1) /\ pc <= Len(prog.code) /\ Len(prog.code) \in Nat
  BY CodeType DEF TypeInv, At
<1>2. pc \in 1..Len(prog.code)
  BY <1>1
<1>3. IsInstruction(I)
  BY <1>2, CodeType DEF TypeInv, I
<1>4. prog' = prog /\ start' = start /\ I.op \in ops
  BY DEF At
<1>5. pc + 1 \in 1..(Len(prog.code) + 1) /\ pc \in 1..(Len(prog.code) + 1)
  BY <1>1
<1>. QED
  BY <1>2, <1>3, <1>4, <1>5 DEF TypeInv

\* Names of registers.
LEMMA Names ==
    /\ AX \in 0..7 /\ CX \in 0..7 /\ BX \in 0..7 /\ SP \in 0..7
    /\ BP \in 0..7 /\ SI \in 0..7 /\ DI \in 0..7
    /\ AX = 0 /\ CX = 1 /\ SI = 6 /\ DI = 7
  BY DEF AX, CX, BX, SP, BP, SI, DI

\* Where the operand is.
LEMMA OffsetWord ==
    ASSUME TypeInv, IsInstruction(I), ~InReg
    PROVE  Offset \in Words
<1>1. \A k \in 0..7 : reg[k] \in Int
  BY WordRange DEF TypeInv, Registers
<1>2. I.rm \in 0..7 /\ I.mod \in 0..2 /\ I.disp \in Words /\ (I.mod = 1 => I.disp \in Bytes)
  BY DEF IsInstruction, InReg
<1>3. Base \in Int
  <2>1. \A a \in 0..7, b \in 0..7 : reg[a] + reg[b] \in Int
    BY <1>1
  <2>. QED
    BY <1>1, <1>2, <2>1, Names DEF Base
<1>4. I.disp \in Int /\ Byte \in Int /\ Word \in Int
  BY <1>2, WordRange, WordFacts, ByteFacts
<1>5. SignExtended(I.disp) \in Int
  BY <1>4 DEF SignExtended
<1>6. Displacement \in Int
  BY <1>2, <1>4, <1>5 DEF Displacement
<1>7. Base + Displacement \in Int
  BY <1>3, <1>6
<1>. QED
  BY <1>7, ModWord DEF Offset

LEMMA SegWord ==
    ASSUME TypeInv, IsInstruction(I)
    PROVE  /\ SegOf \in Words
           /\ (IF I.over = "none" THEN seg["DS"] ELSE seg[I.over]) \in Words
           /\ (IF I.over = "none" THEN seg["ES"] ELSE seg[I.over]) \in Words
           /\ seg["SS"] \in Words
<1>1. \A s \in Segments : seg[s] \in Words
  BY DEF TypeInv, Places
<1>2. "SS" \in Segments /\ "DS" \in Segments /\ "ES" \in Segments
  BY DEF Segments
<1>3. I.over # "none" => I.over \in Segments
  BY DEF IsInstruction
<1>. QED
  BY <1>1, <1>2, <1>3 DEF SegOf

\* What the r/m operand is, and what storing into it leaves.
LEMMA RMFits ==
    ASSUME TypeInv, IsInstruction(I)
    PROVE  Fits(I.w, RM)
<1>0. I.w \in BOOLEAN /\ I.rm \in 0..7 /\ reg \in Registers /\ mem \in Memories
  BY DEF TypeInv, IsInstruction
<1>1. CASE InReg
  BY <1>0, <1>1, GetRegFits DEF RM
<1>2. CASE ~InReg
  <2>1. Cell \in Cells /\ Cell + 1 \in Cells
    BY <1>2, OffsetWord, SegWord, CellOf DEF Cell
  <2>. QED
    BY <1>0, <1>2, <2>1, FetchFits DEF RM
<1>. QED
  BY <1>1, <1>2

LEMMA StoreType ==
    ASSUME TypeInv, IsInstruction(I), NEW v, Fits(I.w, v), StoresRM(v)
    PROVE  reg' \in Registers /\ mem' \in Memories
<1>0. I.w \in BOOLEAN /\ I.rm \in 0..7 /\ reg \in Registers /\ mem \in Memories
  BY DEF TypeInv, IsInstruction
<1>1. CASE InReg
  BY <1>0, <1>1, SetRegType DEF StoresRM
<1>2. CASE ~InReg
  BY <1>0, <1>2, WriteType DEF StoresRM
<1>. QED
  BY <1>1, <1>2

\* What each instruction has to keep.
LEMMA KeepsType ==
    ASSUME TypeInv, NEW ops, At(ops), pc' = pc + 1 \/ pc' = pc,
           reg' \in Registers, seg' \in Places, mem' \in Memories,
           df' \in BOOLEAN, zf' \in BOOLEAN
    PROVE  TypeInv'
  BY Current DEF TypeInv

\* Instructions that leave the flags and the segments alone.
LEMMA MoveType ==
    ASSUME TypeInv, NEW ops, At(ops), Retires, KeepFlags, UNCHANGED seg,
           reg' \in Registers, mem' \in Memories
    PROVE  TypeInv'
<1>1. pc' = pc + 1 /\ df' \in BOOLEAN /\ zf' \in BOOLEAN /\ seg' \in Places
  BY DEF TypeInv, Retires, KeepFlags
<1>. QED
  BY <1>1, KeepsType

\* The word on top of the stack.
LEMMA StackCells ==
    ASSUME TypeInv
    PROVE  /\ Pushed \in Words
           /\ (reg[SP] + 2) % Word \in Words
           /\ Linear(seg["SS"], reg[SP]) \in Cells /\ Linear(seg["SS"], reg[SP]) + 1 \in Cells
<1>1. reg[SP] \in Words /\ seg["SS"] \in Words
  BY Names DEF TypeInv, Registers, Places, Segments
<1>2. reg[SP] \in Int /\ Word \in Int
  BY <1>1, WordRange, WordFacts
<1>3. reg[SP] + Word - 2 \in Int /\ reg[SP] + 2 \in Int
  BY <1>2
<1>4. (reg[SP] + Word - 2) % Word \in Words /\ (reg[SP] + 2) % Word \in Words
  BY <1>3, ModWord
<1>5. Linear(seg["SS"], reg[SP]) \in Cells /\ Linear(seg["SS"], reg[SP]) + 1 \in Cells
  BY <1>1, CellOf
<1>. QED
  BY <1>4, <1>5 DEF Pushed

LEMMA MovType ==
    ASSUME TypeInv, Exec_mov \/ Exec_mov_moffs \/ Exec_mov_imm \/ Exec_groupC6
    PROVE  TypeInv'
<1>0. mem \in Memories /\ reg \in Registers /\ seg \in Places
  BY DEF TypeInv
<1>1. CASE Exec_mov
  <2>1. At({"mov"}) /\ Retires /\ KeepFlags /\ UNCHANGED seg
    BY <1>1 DEF Exec_mov
  <2>2. IsInstruction(I) /\ I.w \in BOOLEAN /\ I.reg \in 0..7
    BY <2>1, Current DEF IsInstruction
  <2>3. Fits(I.w, RM) /\ Fits(I.w, GetReg(reg, I.w, I.reg))
    BY <1>0, <2>2, RMFits, GetRegFits
  <2>4. CASE I.swap
    <3>1. reg' = SetReg(reg, I.w, I.reg, RM) /\ mem' = mem
      BY <1>1, <2>4 DEF Exec_mov
    <3>. QED
      BY <1>0, <2>1, <2>2, <2>3, <3>1, SetRegType, MoveType
  <2>5. CASE ~I.swap
    <3>1. StoresRM(GetReg(reg, I.w, I.reg))
      BY <1>1, <2>5 DEF Exec_mov
    <3>. QED
      BY <2>1, <2>2, <2>3, <3>1, StoreType, MoveType
  <2>. QED
    BY <2>4, <2>5
<1>2. CASE Exec_mov_moffs
  <2>. DEFINE a == Linear(IF I.over = "none" THEN seg["DS"] ELSE seg[I.over], I.disp)
  <2>1. At({"moffs"}) /\ Retires /\ KeepFlags /\ UNCHANGED seg
    BY <1>2 DEF Exec_mov_moffs
  <2>2. IsInstruction(I) /\ I.w \in BOOLEAN /\ I.disp \in Words
    BY <2>1, Current DEF IsInstruction
  <2>3. a \in Cells /\ a + 1 \in Cells
    BY <2>2, SegWord, CellOf
  <2>4. \/ mem' = Write(mem, I.w, a, GetReg(reg, I.w, AX)) /\ reg' = reg
        \/ reg' = SetReg(reg, I.w, AX, Fetch(mem, I.w, a)) /\ mem' = mem
    BY <1>2 DEF Exec_mov_moffs
  <2>. HIDE DEF a
  <2>5. Fits(I.w, Fetch(mem, I.w, a)) /\ Fits(I.w, GetReg(reg, I.w, AX))
    BY <1>0, <2>2, <2>3, FetchFits, GetRegFits, Names
  <2>6. reg' \in Registers /\ mem' \in Memories
    BY <1>0, <2>2, <2>4, <2>5, SetRegType, WriteType, Names
  <2>. QED
    BY <2>1, <2>6, MoveType
<1>3. CASE Exec_mov_imm
  <2>1. At({"movi"}) /\ Retires /\ KeepFlags /\ UNCHANGED <<seg, mem>>
        /\ reg' = SetReg(reg, I.w, I.reg, I.imm)
    BY <1>3 DEF Exec_mov_imm
  <2>2. Fits(I.w, I.imm) /\ I.w \in BOOLEAN /\ I.reg \in 0..7
    BY <2>1, Current DEF IsInstruction
  <2>. QED
    BY <1>0, <2>1, <2>2, SetRegType, MoveType
<1>4. CASE Exec_groupC6
  <2>1. At({"groupC6"}) /\ Retires /\ KeepFlags /\ UNCHANGED seg /\ StoresRM(I.imm)
    BY <1>4 DEF Exec_groupC6
  <2>2. IsInstruction(I) /\ Fits(I.w, I.imm)
    BY <2>1, Current DEF IsInstruction
  <2>. QED
    BY <2>1, <2>2, StoreType, MoveType
<1>. QED
  BY <1>1, <1>2, <1>3, <1>4

\* Word operands: these instructions have no other; I.w is looked at by the engines only.
LEMMA SregWord ==
    ASSUME TypeInv, NEW k \in 0..3
    PROVE  SregName[k + 1] \in Segments /\ seg[SregName[k + 1]] \in Words
<1>1. SregName[k + 1] \in Segments
  BY DEF SregName, Segments
<1>. QED
  BY <1>1 DEF TypeInv, Places

LEMMA SregType ==
    ASSUME TypeInv, Exec_mov_sreg
    PROVE  TypeInv'
<1>0. mem \in Memories /\ reg \in Registers /\ seg \in Places /\ df \in BOOLEAN /\ zf \in BOOLEAN
  BY DEF TypeInv
<1>1. At({"movseg"}) /\ Retires /\ KeepFlags
  BY DEF Exec_mov_sreg
<1>2. IsInstruction(I) /\ I.w /\ I.w \in BOOLEAN /\ I.reg \in 0..7
  BY <1>1, Current DEF IsInstruction
<1>3. pc' = pc + 1 /\ df' = df /\ zf' = zf
  BY <1>1 DEF Retires, KeepFlags
<1>4. reg' \in Registers /\ seg' \in Places /\ mem' \in Memories
  <2>1. CASE I.reg >= 4
    <3>1. UNCHANGED <<reg, seg, mem>>
      BY <2>1 DEF Exec_mov_sreg
    <3>. QED
      BY <1>0, <3>1
  <2>2. CASE ~(I.reg >= 4)
    <3>1. I.reg \in 0..3
      BY <1>2, <2>2
    <3>2. SregName[I.reg + 1] \in Segments /\ seg[SregName[I.reg + 1]] \in Words
      BY <3>1, SregWord
    <3>3. RM \in Words
      BY <1>2, RMFits DEF Fits
    <3>4. CASE I.swap
      <4>1. seg' = [seg EXCEPT ![SregName[I.reg + 1]] = RM] /\ reg' = reg /\ mem' = mem
        BY <2>2, <3>4 DEF Exec_mov_sreg
      <4>2. seg' \in Places
        BY <1>0, <3>3, <4>1 DEF Places
      <4>. QED
        BY <1>0, <4>1, <4>2
    <3>5. CASE ~I.swap
      <4>1. StoresRM(seg[SregName[I.reg + 1]]) /\ seg' = seg
        BY <2>2, <3>5 DEF Exec_mov_sreg
      <4>2. Fits(I.w, seg[SregName[I.reg + 1]])
        BY <1>2, <3>2 DEF Fits
      <4>. QED
        BY <1>0, <1>2, <4>1, <4>2, StoreType
    <3>. QED
      BY <3>4, <3>5
  <2>. QED
    BY <2>1, <2>2
<1>. QED
  BY <1>0, <1>1, <1>3, <1>4, KeepsType

LEMMA LoadType ==
    ASSUME TypeInv, Exec_lea \/ Exec_les
    PROVE  TypeInv'
<1>0. mem \in Memories /\ reg \in Registers /\ seg \in Places /\ df \in BOOLEAN /\ zf \in BOOLEAN
  BY DEF TypeInv
<1>1. CASE Exec_lea
  <2>1. At({"lea"}) /\ Retires /\ KeepFlags /\ UNCHANGED <<seg, mem>>
        /\ reg' = IF InReg THEN reg ELSE [reg EXCEPT ![I.reg] = Offset]
    BY <1>1 DEF Exec_lea
  <2>2. IsInstruction(I)
    BY <2>1, Current
  <2>3. ~InReg => Offset \in Words
    BY <2>2, OffsetWord
  <2>4. reg' \in Registers
    BY <1>0, <2>1, <2>3 DEF Registers
  <2>. QED
    BY <1>0, <2>1, <2>4, MoveType
<1>2. CASE Exec_les
  <2>1. At({"les", "lds"}) /\ Retires /\ KeepFlags /\ mem' = mem
        /\ (LoadsFar("ES") \/ LoadsFar("DS"))
    BY <1>2 DEF Exec_les
  <2>2. IsInstruction(I)
    BY <2>1, Current
  <2>3. reg' \in Registers /\ seg' \in Places
    <3>1. CASE InReg
      BY <1>0, <2>1, <3>1 DEF LoadsFar
    <3>2. CASE ~InReg
      <4>1. /\ Cell \in Cells /\ Cell + 1 \in Cells /\ Cell + 2 \in Cells /\ Cell + 3 \in Cells
        BY <2>2, <3>2, OffsetWord, SegWord, CellOf DEF Cell
      <4>2. (Cell + 2) + 1 = Cell + 3
        BY <4>1 DEF Cells
      <4>3. Fetch(mem, TRUE, Cell) \in Words /\ Fetch(mem, TRUE, Cell + 2) \in Words
        BY <1>0, <4>1, <4>2, FetchFits DEF Fits
      <4>4. reg' = [reg EXCEPT ![I.reg] = Fetch(mem, TRUE, Cell)]
            /\ \E name \in {"ES", "DS"} : seg' = [seg EXCEPT ![name] = Fetch(mem, TRUE, Cell + 2)]
        BY <2>1, <3>2 DEF LoadsFar
      <4>5. reg' \in Registers
        BY <1>0, <4>3, <4>4 DEF Registers
      <4>6. seg' \in Places
        BY <1>0, <4>3, <4>4 DEF Places
      <4>. QED
        BY <4>5, <4>6
    <3>. QED
      BY <3>1, <3>2
  <2>4. pc' = pc + 1 /\ df' = df /\ zf' = zf
    BY <2>1 DEF Retires, KeepFlags
  <2>. QED
    BY <1>0, <2>1, <2>3, <2>4, KeepsType
<1>. QED
  BY <1>1, <1>2

LEMMA ExchangeType ==
    ASSUME TypeInv, Exec_xchg \/ Exec_groupF6
    PROVE  TypeInv'
<1>0. mem \in Memories /\ reg \in Registers
  BY DEF TypeInv
<1>1. CASE Exec_xchg
  <2>. DEFINE old == GetReg(reg, I.w, I.reg)
              r == SetReg(reg, I.w, I.reg, RM)
  <2>1. At({"xchg"}) /\ Retires /\ KeepFlags /\ UNCHANGED seg
    BY <1>1 DEF Exec_xchg
  <2>2. IsInstruction(I) /\ I.w \in BOOLEAN /\ I.reg \in 0..7 /\ I.rm \in 0..7
    BY <2>1, Current DEF IsInstruction
  <2>3. Fits(I.w, old) /\ Fits(I.w, RM)
    BY <1>0, <2>2, RMFits, GetRegFits
  <2>4. r \in Registers
    BY <1>0, <2>2, <2>3, SetRegType
  <2>5. \/ reg' = SetReg(r, I.w, I.rm, old) /\ mem' = mem
        \/ reg' = r /\ mem' = Write(mem, I.w, Cell, old)
    BY <1>1 DEF Exec_xchg
  <2>. HIDE DEF r, old
  <2>6. reg' \in Registers /\ mem' \in Memories
    BY <1>0, <2>2, <2>3, <2>4, <2>5, SetRegType, WriteType
  <2>. QED
    BY <2>1, <2>6, MoveType
<1>2. CASE Exec_groupF6
  <2>. DEFINE v == (IF I.w THEN Word ELSE Byte) - 1 - RM
  <2>1. At({"not"}) /\ Retires /\ KeepFlags /\ UNCHANGED seg /\ StoresRM(v)
    BY <1>2 DEF Exec_groupF6
  <2>2. IsInstruction(I) /\ I.w \in BOOLEAN
    BY <2>1, Current DEF IsInstruction
  <2>3. Fits(I.w, RM)
    BY <2>2, RMFits
  <2>4. Fits(I.w, v)
    <3>. DEFINE x == RM
    <3>1. CASE I.w
      <4>1. x \in Words /\ v = Word - 1 - x
        BY <2>3, <3>1 DEF Fits
      <4>. HIDE DEF x, v
      <4>2. v \in Words
        BY <4>1, WordRange, WordFacts
      <4>. QED
        BY <3>1, <4>2 DEF Fits
    <3>2. CASE ~I.w
      <4>1. x \in Bytes /\ v = Byte - 1 - x
        BY <2>3, <3>2 DEF Fits
      <4>. HIDE DEF x, v
      <4>2. v \in Bytes
        BY <4>1, ByteRange, ByteFacts
      <4>. QED
        BY <4>2, ByteWord DEF Fits
    <3>. QED
      BY <3>1, <3>2
  <2>. HIDE DEF v
  <2>. QED
    BY <2>1, <2>2, <2>4, StoreType, MoveType
<1>. QED
  BY <1>1, <1>2

LEMMA PushType ==
    ASSUME TypeInv, Exec_groupFE \/ Exec_push
    PROVE  TypeInv'
<1>0. mem \in Memories /\ reg \in Registers
  BY DEF TypeInv
<1>1. PICK ops \in {{"push"}, {"pushr", "pushs"}} :
          At(ops) /\ Retires /\ KeepFlags /\ UNCHANGED seg
  BY DEF Exec_groupFE, Exec_push
<1>2. IsInstruction(I) /\ I.reg \in 0..7
  BY <1>1, Current DEF IsInstruction
<1>3. \E v \in Words : /\ reg' = [reg EXCEPT ![SP] = Pushed]
                       /\ mem' = Write(mem, TRUE, Linear(seg["SS"], Pushed), v)
  <2>1. CASE Exec_groupFE
    <3>1. RM \in Words
      BY <1>2, RMFits DEF Fits
    <3>. QED
      BY <2>1, <3>1 DEF Exec_groupFE
  <2>2. CASE Exec_push
    <3>1. I.op \in {"pushr", "pushs"}
      BY <2>2, Current DEF Exec_push
    <3>2. CASE I.op = "pushr"
      <4>1. reg[I.reg] \in Words
        BY <1>0, <1>2 DEF Registers
      <4>. QED
        BY <2>2, <3>2, <4>1 DEF Exec_push
    <3>3. CASE I.op = "pushs"
      <4>1. I.reg \in 0..3
        BY <1>2, <3>3 DEF IsInstruction
      <4>2. seg[SregName[I.reg + 1]] \in Words
        BY <4>1, SregWord
      <4>. QED
        BY <2>2, <3>3, <4>2 DEF Exec_push
    <3>. QED
      BY <3>1, <3>2, <3>3
  <2>. QED
    BY <2>1, <2>2
<1>4. PICK v \in Words : /\ reg' = [reg EXCEPT ![SP] = Pushed]
                         /\ mem' = Write(mem, TRUE, Linear(seg["SS"], Pushed), v)
  BY <1>3
<1>5. Fits(TRUE, v)
  BY DEF Fits
<1>6. mem' \in Memories
  BY <1>0, <1>4, <1>5, WriteType
<1>7. reg' \in Registers
  BY <1>0, <1>4, StackCells DEF Registers
<1>. QED
  BY <1>1, <1>6, <1>7, MoveType

LEMMA PopType ==
    ASSUME TypeInv, Exec_group8F \/ Exec_pop
    PROVE  TypeInv'
<1>0. mem \in Memories /\ reg \in Registers /\ seg \in Places /\ df \in BOOLEAN /\ zf \in BOOLEAN
  BY DEF TypeInv
<1>. DEFINE v == Fetch(mem, TRUE, Linear(seg["SS"], reg[SP]))
            r == [reg EXCEPT ![SP] = (@ + 2) % Word]
<1>1. v \in Words /\ Fits(TRUE, v)
  BY <1>0, StackCells, FetchFits DEF Fits
<1>2. r \in Registers
  BY <1>0, StackCells DEF Registers
<1>3. CASE Exec_group8F
  <2>1. At({"pop"}) /\ Retires /\ KeepFlags /\ UNCHANGED seg
    BY <1>3 DEF Exec_group8F
  <2>2. IsInstruction(I) /\ I.rm \in 0..7
    BY <2>1, Current DEF IsInstruction
  <2>3. \/ reg' = [r EXCEPT ![I.rm] = v] /\ mem' = mem
        \/ reg' = r /\ mem' = Write(mem, TRUE, Cell, v)
    BY <1>3 DEF Exec_group8F
  <2>. HIDE DEF r, v
  <2>4. reg' \in Registers
    BY <1>1, <1>2, <2>3 DEF Registers
  <2>5. mem' \in Memories
    BY <1>0, <1>1, <2>3, WriteType
  <2>. QED
    BY <2>1, <2>4, <2>5, MoveType
<1>4. CASE Exec_pop
  <2>1. At({"popr", "pops"}) /\ Retires /\ KeepFlags /\ mem' = mem
    BY <1>4 DEF Exec_pop
  <2>2. IsInstruction(I) /\ I.reg \in 0..7 /\ I.op \in {"popr", "pops"}
    BY <2>1, Current DEF IsInstruction
  <2>3. \/ reg' = [r EXCEPT ![I.reg] = v] /\ seg' = seg
        \/ I.op = "pops" /\ reg' = r /\ seg' = [seg EXCEPT ![SregName[I.reg + 1]] = v]
    BY <1>4, <2>2 DEF Exec_pop
  <2>4. I.op = "pops" => SregName[I.reg + 1] \in Segments
    <3>1. I.op = "pops" => I.reg \in 0..3
      BY <2>2 DEF IsInstruction
    <3>. QED
      BY <3>1, SregWord
  <2>. HIDE DEF r, v
  <2>5. reg' \in Registers
    BY <1>1, <1>2, <2>3 DEF Registers
  <2>6. seg' \in Places
    BY <1>0, <1>1, <2>3, <2>4 DEF Places
  <2>7. pc' = pc + 1 /\ df' = df /\ zf' = zf
    BY <2>1 DEF Retires, KeepFlags
  <2>. QED
    BY <1>0, <2>1, <2>5, <2>6, <2>7, KeepsType
<1>. QED
  BY <1>3, <1>4

LEMMA FlagType ==
    ASSUME TypeInv, Exec_clx
    PROVE  TypeInv'
<1>1. At({"cld", "std"}) /\ Retires /\ UNCHANGED <<reg, seg, mem, zf>> /\ df' \in BOOLEAN
  BY DEF Exec_clx
<1>2. pc' = pc + 1
  BY <1>1 DEF Retires
<1>3. reg' \in Registers /\ seg' \in Places /\ mem' \in Memories /\ zf' \in BOOLEAN
  BY <1>1 DEF TypeInv
<1>. QED
  BY <1>1, <1>2, <1>3, KeepsType

\* One element of a string: where it is, and what it is.
LEMMA StringOperands ==
    ASSUME TypeInv, IsInstruction(I)
    PROVE  /\ Source \in Cells /\ Source + 1 \in Cells
           /\ Target \in Cells /\ Target + 1 \in Cells
           /\ Fits(I.w, Element)
           /\ \A k \in 0..7 : Advanced(k) \in Words
<1>0. mem \in Memories /\ reg \in Registers /\ I.w \in BOOLEAN
  BY DEF TypeInv, IsInstruction
<1>1. reg[SI] \in Words /\ reg[DI] \in Words /\ \A k \in 0..7 : reg[k] \in Words
  BY Names DEF TypeInv, Registers
<1>2. Source \in Cells /\ Source + 1 \in Cells
  BY <1>1, SegWord, CellOf DEF Source
<1>3. Target \in Cells /\ Target + 1 \in Cells
  BY <1>1, SegWord, CellOf DEF Target
<1>4. Fits(I.w, Element)
  BY <1>0, <1>2, FetchFits, GetRegFits, Names DEF Element
<1>5. ASSUME NEW k \in 0..7 PROVE Advanced(k) \in Words
  <2>1. reg[k] \in Int /\ Word \in Int /\ Width(I.w) \in Int
    BY <1>1, WordRange, WordFacts DEF Width
  <2>2. reg[k] + Word + ((IF df THEN -1 ELSE 1) * Width(I.w)) \in Int
    BY <2>1
  <2>. QED
    BY <2>2, ModWord DEF Advanced
<1>. QED
  BY <1>2, <1>3, <1>4, <1>5

LEMMA ShovelType ==
    ASSUME TypeInv, Exec_shovel
    PROVE  TypeInv'
<1>0. /\ mem \in Memories /\ reg \in Registers /\ seg \in Places /\ df \in BOOLEAN
      /\ zf \in BOOLEAN
  BY DEF TypeInv
<1>1. At(Strings) /\ seg' = seg /\ df' = df
  BY DEF Exec_shovel
<1>2. IsInstruction(I) /\ I.w \in BOOLEAN
  BY <1>1, Current DEF IsInstruction
<1>3. CASE I.rep # "none" /\ reg[CX] = 0
  <2>1. pc' = pc + 1 /\ reg' = reg /\ mem' = mem /\ zf' = zf
    BY <1>3 DEF Exec_shovel, Retires
  <2>. QED
    BY <1>0, <1>1, <2>1, KeepsType
<1>4. CASE ~(I.rep # "none" /\ reg[CX] = 0)
  <2>. DEFINE r == IF I.op = "lods" THEN SetReg(reg, I.w, AX, Element) ELSE reg
              si == IF I.op \in Sources THEN Advanced(SI) ELSE r[SI]
              di == IF I.op \in Targets THEN Advanced(DI) ELSE r[DI]
              cx == IF I.rep = "none" THEN r[CX] ELSE (r[CX] + Word - 1) % Word
  <2>1. /\ mem' = IF I.op \in {"movs", "stos"} THEN Write(mem, I.w, Target, Element) ELSE mem
        /\ zf' = IF I.op \in Compares THEN Element = Fetch(mem, I.w, Target) ELSE zf
        /\ reg' = [r EXCEPT ![SI] = si, ![DI] = di, ![CX] = cx]
        /\ pc' = pc + 1 \/ pc' = pc
    BY <1>4, Names DEF Exec_shovel
  <2>2. Fits(I.w, Element) /\ Advanced(SI) \in Words /\ Advanced(DI) \in Words
    BY <1>2, StringOperands, Names
  <2>3. r \in Registers
    BY <1>0, <1>2, <2>2, SetRegType, Names
  <2>4. cx \in Words
    <3>. HIDE DEF r
    <3>1. r[CX] \in Words
      BY <2>3, Names DEF Registers
    <3>2. r[CX] + Word - 1 \in Int
      BY <3>1, WordRange, WordFacts
    <3>3. (r[CX] + Word - 1) % Word \in Words
      BY <3>2, ModWord
    <3>. QED
      BY <3>1, <3>3
  <2>5. si \in Words /\ di \in Words
    <3>. HIDE DEF r
    <3>1. r[SI] \in Words /\ r[DI] \in Words
      BY <2>3, Names DEF Registers
    <3>. QED
      BY <2>2, <3>1
  <2>. HIDE DEF r, si, di, cx
  <2>6. reg' \in Registers
    BY <2>1, <2>3, <2>4, <2>5 DEF Registers
  <2>7. mem' \in Memories
    BY <1>0, <1>2, <2>1, <2>2, WriteType
  <2>8. zf' \in BOOLEAN
    BY <1>0, <2>1, Zenon
  <2>. QED
    BY <1>0, <1>1, <2>1, <2>6, <2>7, <2>8, KeepsType
<1>. QED
  BY <1>3, <1>4

LEMMA InitType == Init => TypeInv
<1>. SUFFICES ASSUME Init PROVE TypeInv
  OBVIOUS
<1>1. prog \in Programs /\ pc = 1 /\ reg \in Registers /\ seg \in Places
      /\ df \in BOOLEAN /\ zf \in BOOLEAN
  BY OperandAssumption DEF Init, Registers, Places
<1>2. pc \in 1..(Len(prog.code) + 1)
  BY <1>1, CodeType
<1>3. mem \in Memories
  <2>1. ASSUME NEW a \in Cells PROVE (a + (a \div Byte)) % Byte \in Bytes
    <3>1. a \in Int
      BY DEF Cells
    <3>2. a \div Byte \in Int
      BY <3>1, ByteFacts
    <3>. DEFINE x == a + (a \div Byte)
    <3>3. x \in Int
      BY <3>1, <3>2
    <3>. HIDE DEF x
    <3>4. x % Byte \in Bytes
      BY <3>3, ByteFacts DEF Bytes
    <3>. QED
      BY <3>4 DEF x
  <2>. QED
    BY <2>1 DEF Init, Memories
<1>4. start = [reg |-> reg, seg |-> seg, mem |-> mem]
  BY DEF Init
<1>. QED
  BY <1>1, <1>2, <1>3, <1>4 DEF TypeInv, IsStart

LEMMA NextType ==
    ASSUME TypeInv, [Next]_vars
    PROVE  TypeInv'
<1>1. CASE Next
  BY <1>1, MovType, SregType, LoadType, ExchangeType, PushType, PopType, FlagType, ShovelType
  DEF Next, Operand
<1>2. CASE UNCHANGED vars
  BY <1>2 DEF vars, TypeInv
<1>. QED
  BY <1>1, <1>2

\* Types, for every width of byte and word, place of the segments and program.
THEOREM TypeCorrect == Spec => []TypeOK
<1>1. TypeInv => TypeOK
  BY DEF TypeInv, TypeOK, Registers, Places, Memories
<1>2. Spec => []TypeInv
  BY InitType, NextType, PTL DEF Spec
<1>. QED
  BY <1>1, <1>2, PTL

-----------------------------------------------------------------------------
(***************************************************************************)
(* A block: instruction i with direction d, begun in state s, after n        *)
(* elements.                                                               *)
(***************************************************************************)
\* An index register that began at x.
Turn(d) == IF d THEN -1 ELSE 1
Idx(x, n, w, d) == (x + (Word * Word) + ((IF d THEN -n ELSE n) * Width(w))) % Word
Src(s, i, d, n) == Linear(s.seg[IF i.over = "none" THEN "DS" ELSE i.over], Idx(s.reg[SI], n, i.w, d))
Tgt(s, i, d, n) == Linear(s.seg[IF i.over = "none" THEN "ES" ELSE i.over], Idx(s.reg[DI], n, i.w, d))

\* How many elements there are.
Num(s, i) == IF i.rep = "none" THEN 1 ELSE s.reg[CX]

\* The element stored or compared.
Value(s, i, d, n) ==
    IF i.op \in Sources THEN Fetch(s.mem, i.w, Src(s, i, d, n)) ELSE GetReg(s.reg, i.w, AX)

\* The registers: LODS leaves the last element in the accumulator.
Acc(s, i, d, n) ==
    IF i.op = "lods" /\ n > 0
    THEN SetReg(s.reg, i.w, AX, Value(s, i, d, n - 1))[AX] ELSE s.reg[AX]

RegsAt(s, i, d, n) ==
    [k \in 0..7 |->
        CASE k = AX -> Acc(s, i, d, n)
          [] k = CX -> IF i.rep = "none" THEN s.reg[CX] ELSE s.reg[CX] - n
          [] k = SI -> IF i.op \in Sources THEN Idx(s.reg[SI], n, i.w, d) ELSE s.reg[SI]
          [] k = DI -> IF i.op \in Targets THEN Idx(s.reg[DI], n, i.w, d) ELSE s.reg[DI]
          [] OTHER  -> s.reg[k]]

\* An index register moves on by the width of an element.
LEMMA IdxStep ==
    ASSUME NEW x \in Words, NEW n \in Nat, NEW w \in BOOLEAN, NEW d \in BOOLEAN
    PROVE  /\ Idx(x, 0, w, d) = x
           /\ Idx(x, n, w, d) \in Words
           /\ (Idx(x, n, w, d) + Word + (Turn(d) * Width(w))) % Word = Idx(x, n + 1, w, d)
<1>. DEFINE e == Turn(d) * Width(w)
            q == Word * Word
            b == x + q + ((IF d THEN -n ELSE n) * Width(w))
            c == x + q + ((IF d THEN -(n + 1) ELSE n + 1) * Width(w))
<1>0. x \in Int /\ Word \in Nat /\ q \in Int /\ Width(w) \in {1, 2} /\ Word >= 4
  BY WordRange, WordFacts DEF Width
<1>1. e \in Int /\ b \in Int /\ c = b + e
  <2>. HIDE DEF q
  <2>. QED
    BY <1>0 DEF Turn
<1>2. Idx(x, n, w, d) = b % Word /\ Idx(x, n + 1, w, d) = c % Word
  BY DEF Idx
<1>3. Idx(x, 0, w, d) = x
  <2>1. (IF d THEN -0 ELSE 0) * Width(w) = 0
    BY <1>0
  <2>2. Idx(x, 0, w, d) = (x + q + 0) % Word
    BY <2>1 DEF Idx
  <2>3. x + q + 0 = (Word * Word) + x
    BY <1>0
  <2>4. (x + q + 0) % Word = x
    <3>1. x + q + 0 \in Int
      BY <1>0
    <3>. QED
      BY <1>0, <2>3, <3>1, ModUnique
  <2>. QED
    BY <2>2, <2>4
<1>. HIDE DEF e, b, c, q
<1>4. b % Word \in Words /\ b % Word \in Int
  BY <1>1, ModWord, WordRange
<1>5. ((b % Word) + (Word + e)) % Word = (b + (Word + e)) % Word
  <2>1. Word + e \in Int
    BY <1>0, <1>1
  <2>. QED
    BY <1>1, <2>1, ModSum
<1>6. (b + (Word + e)) % Word = c % Word
  <2>1. PICK p \in Int : c = (p * Word) + (c % Word)
    BY <1>1, DivMod
  <2>2. c \in Int /\ c % Word \in Words /\ c % Word \in Int
    BY <1>1, ModWord, WordRange
  <2>3. b + (Word + e) = ((p + 1) * Word) + (c % Word)
    <3>. DEFINE z == c % Word
    <3>1. z \in Int /\ c = (p * Word) + z
      BY <2>1, <2>2
    <3>. HIDE DEF z
    <3>2. (p + 1) * Word = (p * Word) + Word /\ p * Word \in Int
      BY <1>0
    <3>3. b + (Word + e) = ((p + 1) * Word) + z
      BY <1>0, <1>1, <3>1, <3>2
    <3>. QED
      BY <3>3 DEF z
  <2>4. b + (Word + e) \in Int /\ p + 1 \in Int
    BY <1>0, <1>1
  <2>. QED
    BY <2>2, <2>3, <2>4, ModUnique
<1>7. (b % Word) + Word + e = (b % Word) + (Word + e)
  BY <1>0, <1>1, <1>4
<1>. QED
  BY <1>2, <1>3, <1>4, <1>5, <1>6, <1>7 DEF e

\* The accumulator changes alone; its low byte is replaced, whatever it was.
LEMMA SetAX ==
    ASSUME NEW r \in Registers, NEW w \in BOOLEAN, NEW v, Fits(w, v)
    PROVE  /\ SetReg(r, w, AX, v) \in Registers
           /\ \A k \in 0..7 : k # AX => SetReg(r, w, AX, v)[k] = r[k]
           /\ \A q \in Registers : \A u : q[AX] = SetReg(r, w, AX, v)[AX] =>
                  SetReg(q, w, AX, u)[AX] = SetReg(r, w, AX, u)[AX]
           /\ \A q \in Registers : \A u : q[AX] = r[AX] =>
                  SetReg(q, w, AX, u)[AX] = SetReg(r, w, AX, u)[AX]
<1>0. AX \in 0..7 /\ AX < 4
  BY Names
<1>1. SetReg(r, w, AX, v) \in Registers
  BY <1>0, SetRegType
<1>2. CASE w
  BY <1>0, <1>1, <1>2 DEF SetReg, Registers
<1>3. CASE ~w
  <2>1. \A q, u : SetReg(q, w, AX, u) = [q EXCEPT ![AX] = (q[AX] - (q[AX] % Byte)) + u]
    BY <1>0, <1>3 DEF SetReg, WithByteReg
  <2>2. \A q \in Registers : \A u : SetReg(q, w, AX, u)[AX] = (q[AX] - (q[AX] % Byte)) + u
    BY <1>0, <2>1 DEF Registers
  <2>3. \A k \in 0..7 : k # AX => SetReg(r, w, AX, v)[k] = r[k]
    BY <1>0, <2>1 DEF Registers
  <2>. DEFINE x == r[AX]
              y == (x - (x % Byte)) + v
  <2>4. x \in Words /\ v \in Bytes
    BY <1>0, <1>3 DEF Registers, Fits
  <2>. HIDE DEF x
  <2>5. y - (y % Byte) = x - (x % Byte)
    <3>. DEFINE p == x \div Byte
                m == x % Byte
    <3>1. (Byte * p) + m = x /\ p \in Bytes /\ m \in Bytes
      BY <2>4, WordSplit
    <3>. HIDE DEF p, m
    <3>2. p \in Int /\ m \in Int /\ v \in Int /\ 0 <= v /\ v < Byte /\ Byte \in Nat
          /\ Byte * p \in Int
      BY <2>4, <3>1, ByteRange, ByteFacts
    <3>. DEFINE t == Byte * p
    <3>3. t \in Int /\ t + m = x
      BY <3>1, <3>2
    <3>4. (t + v) % Byte = v
      BY <3>2
    <3>. HIDE DEF t
    <3>5. (x - m) + v = t + v /\ x - m = t
      BY <3>2, <3>3
    <3>6. ((x - m) + v) - (((x - m) + v) % Byte) = x - m
      BY <3>2, <3>3, <3>4, <3>5
    <3>. QED
      BY <3>6 DEF m
  <2>6. SetReg(r, w, AX, v)[AX] = y
    BY <2>2 DEF x
  <2>. HIDE DEF y
  <2>7. \A q \in Registers : \A u : q[AX] = y => SetReg(q, w, AX, u)[AX] = SetReg(r, w, AX, u)[AX]
    <3>. SUFFICES ASSUME NEW q \in Registers, NEW u, q[AX] = y
                  PROVE  SetReg(q, w, AX, u)[AX] = SetReg(r, w, AX, u)[AX]
      OBVIOUS
    <3>1. SetReg(q, w, AX, u)[AX] = (y - (y % Byte)) + u
      BY <2>2
    <3>2. SetReg(r, w, AX, u)[AX] = (x - (x % Byte)) + u
      BY <2>2 DEF x
    <3>. QED
      BY <2>5, <3>1, <3>2
  <2>8. \A q \in Registers : \A u : q[AX] = r[AX] => SetReg(q, w, AX, u)[AX] = SetReg(r, w, AX, u)[AX]
    <3>. SUFFICES ASSUME NEW q \in Registers, NEW u, q[AX] = r[AX]
                  PROVE  SetReg(q, w, AX, u)[AX] = SetReg(r, w, AX, u)[AX]
      OBVIOUS
    <3>1. SetReg(q, w, AX, u)[AX] = (q[AX] - (q[AX] % Byte)) + u
      BY <2>2
    <3>2. SetReg(r, w, AX, u)[AX] = (r[AX] - (r[AX] % Byte)) + u
      BY <2>2
    <3>. QED
      BY <3>1, <3>2
  <2>. QED
    BY <1>1, <2>3, <2>6, <2>7, <2>8
<1>. QED
  BY <1>2, <1>3

\* The elements of a block lie in memory, and fit their width.
LEMMA BlockCells ==
    ASSUME NEW s, IsStart(s), NEW i, IsInstruction(i), NEW d \in BOOLEAN, NEW n \in Nat
    PROVE  /\ Src(s, i, d, n) \in Cells /\ Src(s, i, d, n) + 1 \in Cells
           /\ Tgt(s, i, d, n) \in Cells /\ Tgt(s, i, d, n) + 1 \in Cells
           /\ Fits(i.w, Value(s, i, d, n))
<1>1. \A t \in Segments : s.seg[t] \in Words
  BY DEF IsStart, Places
<1>2. "DS" \in Segments /\ "ES" \in Segments /\ (i.over # "none" => i.over \in Segments)
  BY DEF Segments, IsInstruction
<1>3. (IF i.over = "none" THEN "DS" ELSE i.over) \in Segments
      /\ (IF i.over = "none" THEN "ES" ELSE i.over) \in Segments
  BY <1>2
<1>4. s.reg \in Registers /\ s.mem \in Memories /\ i.w \in BOOLEAN
  BY DEF IsStart, IsInstruction
<1>5. s.reg[SI] \in Words /\ s.reg[DI] \in Words
  BY <1>4, Names DEF Registers
<1>6. Idx(s.reg[SI], n, i.w, d) \in Words /\ Idx(s.reg[DI], n, i.w, d) \in Words
  BY <1>4, <1>5, IdxStep
<1>7. Src(s, i, d, n) \in Cells /\ Src(s, i, d, n) + 1 \in Cells
  BY <1>1, <1>3, <1>6, CellOf DEF Src
<1>8. Tgt(s, i, d, n) \in Cells /\ Tgt(s, i, d, n) + 1 \in Cells
  BY <1>1, <1>3, <1>6, CellOf DEF Tgt
<1>9. Fits(i.w, Value(s, i, d, n))
  BY <1>4, <1>7, FetchFits, GetRegFits, Names DEF Value
<1>. QED
  BY <1>7, <1>8, <1>9

\* The registers of a block are registers; it begins with those it found.
LEMMA RegsType ==
    ASSUME NEW s, IsStart(s), NEW i, IsInstruction(i), NEW d \in BOOLEAN,
           NEW n \in Nat, n <= Num(s, i)
    PROVE  RegsAt(s, i, d, n) \in Registers /\ RegsAt(s, i, d, 0) = s.reg
           /\ Num(s, i) \in Nat /\ Num(s, i) < Word
<1>1. s.reg \in Registers /\ i.w \in BOOLEAN
  BY DEF IsStart, IsInstruction
<1>2. \A k \in 0..7 : s.reg[k] \in Words
  BY <1>1 DEF Registers
<1>3. s.reg[CX] \in Words /\ s.reg[SI] \in Words /\ s.reg[DI] \in Words /\ s.reg[AX] \in Words
  BY <1>2, Names
<1>4. Num(s, i) \in Nat /\ Num(s, i) < Word
  BY <1>3, WordRange, WordFacts DEF Num
<1>5. /\ Idx(s.reg[SI], n, i.w, d) \in Words /\ Idx(s.reg[DI], n, i.w, d) \in Words
      /\ Idx(s.reg[SI], 0, i.w, d) = s.reg[SI] /\ Idx(s.reg[DI], 0, i.w, d) = s.reg[DI]
  BY <1>1, <1>3, IdxStep
<1>6. Acc(s, i, d, n) \in Words
  <2>1. CASE i.op = "lods" /\ n > 0
    <3>1. n - 1 \in Nat
      BY <2>1
    <3>2. SetReg(s.reg, i.w, AX, Value(s, i, d, n - 1)) \in Registers
      BY <1>1, <3>1, BlockCells, SetRegType, Names
    <3>. QED
      BY <2>1, <3>2, Names DEF Acc, Registers
  <2>2. CASE ~(i.op = "lods" /\ n > 0)
    BY <1>3, <2>2 DEF Acc
  <2>. QED
    BY <2>1, <2>2
<1>7. i.rep # "none" => s.reg[CX] - n \in Words
  <2>1. i.rep # "none" => n <= s.reg[CX]
    BY DEF Num
  <2>. DEFINE c == s.reg[CX]
  <2>2. c \in Int /\ c < Word
    BY <1>3, WordRange
  <2>. HIDE DEF c
  <2>3. n <= c => c - n \in Words
    BY <2>2, WordRange, WordFacts
  <2>. QED
    BY <2>1, <2>3 DEF c
<1>8. RegsAt(s, i, d, n) \in Registers
  <2>1. ASSUME NEW k \in 0..7 PROVE RegsAt(s, i, d, n)[k] \in Words
    BY <1>2, <1>3, <1>5, <1>6, <1>7 DEF RegsAt
  <2>. QED
    BY <2>1 DEF RegsAt, Registers
<1>9. RegsAt(s, i, d, 0) = s.reg
  <2>1. Acc(s, i, d, 0) = s.reg[AX]
    BY DEF Acc
  <2>2. s.reg[CX] - 0 = s.reg[CX]
    BY <1>3, WordRange
  <2>3. ASSUME NEW k \in 0..7 PROVE RegsAt(s, i, d, 0)[k] = s.reg[k]
    BY <1>5, <2>1, <2>2 DEF RegsAt
  <2>4. s.reg = [k \in 0..7 |-> s.reg[k]] /\ RegsAt(s, i, d, 0) = [k \in 0..7 |-> RegsAt(s, i, d, 0)[k]]
    BY <1>1 DEF RegsAt, Registers
  <2>. QED
    BY <2>3, <2>4
<1>. QED
  BY <1>4, <1>8, <1>9

\* What is in the registers the handler looks at.
LEMMA RegsLook ==
    ASSUME NEW s, NEW i, NEW d, NEW n
    PROVE  /\ RegsAt(s, i, d, n)[AX] = Acc(s, i, d, n)
           /\ RegsAt(s, i, d, n)[CX] = IF i.rep = "none" THEN s.reg[CX] ELSE s.reg[CX] - n
           /\ i.op \in Sources => RegsAt(s, i, d, n)[SI] = Idx(s.reg[SI], n, i.w, d)
           /\ i.op \in Targets => RegsAt(s, i, d, n)[DI] = Idx(s.reg[DI], n, i.w, d)
           /\ i.op \notin Sources => RegsAt(s, i, d, n)[SI] = s.reg[SI]
           /\ i.op \notin Targets => RegsAt(s, i, d, n)[DI] = s.reg[DI]
           /\ \A k \in 0..7 \ {AX, CX, SI, DI} : RegsAt(s, i, d, n)[k] = s.reg[k]
  BY Names DEF RegsAt

\* The handler stores three registers together.
Put(r, si, di, cx) == [r EXCEPT ![SI] = si, ![DI] = di, ![CX] = cx]

\* One more element.
LEMMA NextRegs ==
    ASSUME NEW s, IsStart(s), NEW i, IsInstruction(i), NEW d \in BOOLEAN,
           NEW n \in Nat, n < Num(s, i), NEW p, p = RegsAt(s, i, d, n),
           NEW v, Fits(i.w, v), i.op = "lods" => v = Value(s, i, d, n),
           NEW r, r = IF i.op = "lods" THEN SetReg(p, i.w, AX, v) ELSE p,
           NEW si, si = IF i.op \in Sources THEN (p[SI] + Word + (Turn(d) * Width(i.w))) % Word
                        ELSE r[SI],
           NEW di, di = IF i.op \in Targets THEN (p[DI] + Word + (Turn(d) * Width(i.w))) % Word
                        ELSE r[DI],
           NEW cx, cx = IF i.rep = "none" THEN r[CX] ELSE (r[CX] + Word - 1) % Word,
           NEW q, q = Put(r, si, di, cx)
    PROVE  q = RegsAt(s, i, d, n + 1) /\ q[CX] = cx
<1>. DEFINE g == RegsAt(s, i, d, n + 1)
<1>0. s.reg \in Registers /\ i.w \in BOOLEAN
  BY DEF IsStart, IsInstruction
<1>1. n + 1 \in Nat /\ n + 1 <= Num(s, i) /\ n <= Num(s, i)
  <2>1. Num(s, i) \in Nat
    <3>1. 0 \in Nat /\ 0 <= n
      OBVIOUS
    <3>2. s.reg[CX] \in Words
      BY <1>0, Names DEF Registers
    <3>. QED
      BY <3>2, WordRange DEF Num
  <2>. QED
    BY <2>1
<1>2. p \in Registers /\ g \in Registers
  BY <1>1, RegsType
<1>3. r \in Registers /\ \A k \in 0..7 : k # AX => r[k] = p[k]
  BY <1>0, <1>2, SetAX
<1>4. s.reg[SI] \in Words /\ s.reg[DI] \in Words /\ s.reg[CX] \in Words
  BY <1>0, Names DEF Registers
<1>5. si = g[SI]
  <2>1. CASE i.op \in Sources
    <3>1. p[SI] = Idx(s.reg[SI], n, i.w, d) /\ g[SI] = Idx(s.reg[SI], n + 1, i.w, d)
      BY <2>1, RegsLook
    <3>. QED
      BY <1>0, <1>4, <2>1, <3>1, IdxStep
  <2>2. CASE i.op \notin Sources
    <3>1. p[SI] = s.reg[SI] /\ g[SI] = s.reg[SI]
      BY <2>2, RegsLook
    <3>. QED
      BY <1>3, <2>2, <3>1, Names
  <2>. QED
    BY <2>1, <2>2
<1>6. di = g[DI]
  <2>1. CASE i.op \in Targets
    <3>1. p[DI] = Idx(s.reg[DI], n, i.w, d) /\ g[DI] = Idx(s.reg[DI], n + 1, i.w, d)
      BY <2>1, RegsLook
    <3>. QED
      BY <1>0, <1>4, <2>1, <3>1, IdxStep
  <2>2. CASE i.op \notin Targets
    <3>1. p[DI] = s.reg[DI] /\ g[DI] = s.reg[DI]
      BY <2>2, RegsLook
    <3>. QED
      BY <1>3, <2>2, <3>1, Names
  <2>. QED
    BY <2>1, <2>2
<1>7. cx = g[CX]
  <2>0. r[CX] = p[CX]
    BY <1>3, Names
  <2>1. CASE i.rep = "none"
    <3>1. p[CX] = s.reg[CX] /\ g[CX] = s.reg[CX]
      BY <2>1, RegsLook
    <3>. QED
      BY <2>0, <2>1, <3>1
  <2>2. CASE i.rep # "none"
    <3>. DEFINE c == s.reg[CX]
    <3>1. p[CX] = c - n /\ g[CX] = c - (n + 1)
      BY <2>2, RegsLook
    <3>2. n + 1 <= c
      BY <1>1, <2>2 DEF Num
    <3>3. c \in Words
      BY <1>4
    <3>. HIDE DEF c
    <3>4. c \in Int /\ c < Word /\ Word \in Nat
      BY <3>3, WordRange, WordFacts
    <3>5. (c - n) + Word - 1 = (1 * Word) + (c - (n + 1)) /\ (c - n) + Word - 1 \in Int
      BY <3>4
    <3>6. c - (n + 1) \in Words
      BY <3>2, <3>4, WordRange
    <3>7. ((c - n) + Word - 1) % Word = c - (n + 1)
      BY <3>5, <3>6, ModUnique
    <3>. QED
      BY <2>0, <2>2, <3>1, <3>7
  <2>. QED
    BY <2>1, <2>2
<1>8. r[AX] = g[AX]
  <2>1. p[AX] = Acc(s, i, d, n) /\ g[AX] = Acc(s, i, d, n + 1)
    BY RegsLook
  <2>2. CASE i.op # "lods"
    BY <2>1, <2>2 DEF Acc
  <2>3. CASE i.op = "lods"
    <3>1. g[AX] = SetReg(s.reg, i.w, AX, v)[AX]
      <4>1. n + 1 > 0 /\ (n + 1) - 1 = n
        OBVIOUS
      <4>. QED
        BY <2>1, <2>3, <4>1 DEF Acc
    <3>2. r[AX] = SetReg(p, i.w, AX, v)[AX]
      BY <2>3
    <3>3. CASE n > 0
      <4>1. n - 1 \in Nat
        BY <3>3
      <4>2. p[AX] = SetReg(s.reg, i.w, AX, Value(s, i, d, n - 1))[AX]
        BY <2>1, <2>3, <3>3 DEF Acc
      <4>3. Fits(i.w, Value(s, i, d, n - 1))
        BY <4>1, BlockCells
      <4>4. SetReg(p, i.w, AX, v)[AX] = SetReg(s.reg, i.w, AX, v)[AX]
        BY <1>0, <1>2, <4>2, <4>3, SetAX
      <4>. QED
        BY <3>1, <3>2, <4>4
    <3>4. CASE ~(n > 0)
      <4>1. p[AX] = s.reg[AX]
        BY <2>1, <3>4 DEF Acc
      <4>2. SetReg(p, i.w, AX, v)[AX] = SetReg(s.reg, i.w, AX, v)[AX]
        BY <1>0, <1>2, <4>1, SetAX
      <4>. QED
        BY <3>1, <3>2, <4>2
    <3>. QED
      BY <3>3, <3>4
  <2>. QED
    BY <2>2, <2>3
<1>9. \A k \in 0..7 \ {AX, CX, SI, DI} : r[k] = g[k]
  BY <1>3, RegsLook
<1>. HIDE DEF g
<1>10. ASSUME NEW k \in 0..7 PROVE q[k] = g[k]
  <2>1. q[k] = IF k = CX THEN cx ELSE IF k = DI THEN di ELSE IF k = SI THEN si ELSE r[k]
    BY <1>3, Names DEF Registers, Put
  <2>. QED
    BY <1>5, <1>6, <1>7, <1>8, <1>9, <2>1, Names
<1>11. q = [k \in 0..7 |-> q[k]] /\ g = [k \in 0..7 |-> g[k]]
  BY <1>2, <1>3 DEF Registers, Put
<1>12. q = g
  BY <1>10, <1>11
<1>. QED
  BY <1>7, <1>12 DEF g

-----------------------------------------------------------------------------
(***************************************************************************)
(* Memory under a block.                                                   *)
(***************************************************************************)
Stores(i) == i.op \in {"movs", "stos"}

\* Cell a is part of element j of the target.
Covers(s, i, d, j, a) == a - Tgt(s, i, d, j) \in 0..(Width(i.w) - 1)

\* Two elements share a byte.
Touch(i, a, b) == a - b < Width(i.w) /\ b - a < Width(i.w)

IsApart(s, i, d) ==
    \A k \in 1..(Num(s, i) - 1) : \A j \in 0..(k - 1) :
        /\ ~Touch(i, Tgt(s, i, d, j), Tgt(s, i, d, k))
        /\ i.op = "movs" => ~Touch(i, Tgt(s, i, d, j), Src(s, i, d, k))

\* Only cells of the target change, and they get the elements.
Wrote(s, i, d, m, n) ==
    \A a \in Cells : m[a] # s.mem[a] => Stores(i) /\ \E j \in 0..(n - 1) : Covers(s, i, d, j, a)

Copied(s, i, d, m, n) ==
    \A j \in 0..(n - 1) : Fetch(m, i.w, Tgt(s, i, d, j)) = Value(s, i, d, j)

Moved(s, i, d, m, n) ==
    Wrote(s, i, d, m, n) /\ (Stores(i) /\ IsApart(s, i, d) => Copied(s, i, d, m, n))

\* What is written is read back,
LEMMA WriteRead ==
    ASSUME NEW m \in Memories, NEW w \in BOOLEAN, NEW a, a \in Cells, a + 1 \in Cells,
           NEW v, Fits(w, v)
    PROVE  Fetch(Write(m, w, a, v), w, a) = v
<1>0. a \in Int
  BY DEF Cells
<1>1. CASE w
  <2>. DEFINE x == v % Byte
              y == v \div Byte
  <2>1. (Byte * y) + x = v /\ x \in Bytes /\ y \in Bytes
    BY WordSplit DEF Fits
  <2>2. Write(m, w, a, v) = [m EXCEPT ![a] = x, ![a + 1] = y]
    BY <1>1 DEF Write
  <2>. HIDE DEF x, y
  <2>3. Write(m, w, a, v)[a] = x /\ Write(m, w, a, v)[a + 1] = y
    BY <1>0, <2>2 DEF Memories
  <2>4. Fetch(Write(m, w, a, v), w, a) = x + (Byte * y)
    BY <1>1, <2>3 DEF Fetch
  <2>. QED
    BY <2>1, <2>4, ByteRange, ByteFacts
<1>2. CASE ~w
  BY <1>2 DEF Write, Fetch, Memories
<1>. QED
  BY <1>1, <1>2

\* and nothing else is written.
LEMMA WriteElse ==
    ASSUME NEW m \in Memories, NEW w \in BOOLEAN, NEW a \in Cells, NEW v, NEW c \in Cells,
           c - a \notin 0..(Width(w) - 1)
    PROVE  Write(m, w, a, v)[c] = m[c]
<1>0. a \in Int /\ c \in Int
  BY DEF Cells
<1>1. CASE w
  <2>1. c # a /\ c # a + 1
    BY <1>0, <1>1 DEF Width
  <2>. QED
    BY <1>1, <2>1 DEF Write, Memories
<1>2. CASE ~w
  <2>1. c # a
    BY <1>0, <1>2 DEF Width
  <2>. QED
    BY <1>2, <2>1 DEF Write, Memories
<1>. QED
  BY <1>1, <1>2

\* A value depends on its bytes.
LEMMA FetchSame ==
    ASSUME NEW m, NEW o, NEW w \in BOOLEAN, NEW a \in Cells, a + 1 \in Cells,
           \A c \in Cells : c - a \in 0..(Width(w) - 1) => m[c] = o[c]
    PROVE  Fetch(m, w, a) = Fetch(o, w, a)
<1>0. a \in Int /\ a - a = 0 /\ (a + 1) - a = 1
  BY DEF Cells
<1>1. CASE w
  <2>1. 0 \in 0..(Width(w) - 1) /\ 1 \in 0..(Width(w) - 1)
    BY <1>1 DEF Width
  <2>2. m[a] = o[a] /\ m[a + 1] = o[a + 1]
    BY <1>0, <2>1
  <2>. QED
    BY <2>2 DEF Fetch
<1>2. CASE ~w
  <2>1. 0 \in 0..(Width(w) - 1)
    BY <1>2 DEF Width
  <2>2. m[a] = o[a]
    BY <1>0, <2>1
  <2>. QED
    BY <1>2, <2>2 DEF Fetch
<1>. QED
  BY <1>1, <1>2

\* Elements that share no byte: no cell of one is a cell of the other.
LEMMA Untouched ==
    ASSUME NEW i, i.w \in BOOLEAN, NEW a \in Cells, NEW b \in Cells, ~Touch(i, a, b), NEW c \in Cells,
           c - a \in 0..(Width(i.w) - 1)
    PROVE  c - b \notin 0..(Width(i.w) - 1)
<1>1. a \in Int /\ b \in Int /\ c \in Int /\ Width(i.w) \in {1, 2}
  BY DEF Cells, Width
<1>. QED
  BY <1>1 DEF Touch

\* One more element is stored.
LEMMA StoreMoves ==
    ASSUME NEW s, IsStart(s), NEW i, IsInstruction(i), NEW d \in BOOLEAN,
           NEW n \in Nat, n < Num(s, i), Num(s, i) \in Nat, Stores(i),
           NEW m \in Memories, Moved(s, i, d, m, n),
           NEW v, v = IF i.op \in Sources THEN Fetch(m, i.w, Src(s, i, d, n))
                      ELSE GetReg(s.reg, i.w, AX)
    PROVE  Moved(s, i, d, Write(m, i.w, Tgt(s, i, d, n), v), n + 1)
<1>. DEFINE t == Tgt(s, i, d, n)
            q == Write(m, i.w, t, v)
<1>0. i.w \in BOOLEAN /\ s.reg \in Registers /\ s.mem \in Memories
      /\ n + 1 \in Nat /\ (n + 1) - 1 = n /\ n \in 0..n
  BY DEF IsInstruction, IsStart
<1>1. /\ t \in Cells /\ t + 1 \in Cells
      /\ Src(s, i, d, n) \in Cells /\ Src(s, i, d, n) + 1 \in Cells
  BY BlockCells
<1>2. Fits(i.w, v)
  BY <1>0, <1>1, FetchFits, GetRegFits, Names
<1>3. ASSUME NEW a \in Cells, q[a] # s.mem[a]
      PROVE  Stores(i) /\ \E j \in 0..n : Covers(s, i, d, j, a)
  <2>1. CASE a - t \in 0..(Width(i.w) - 1)
    <3>1. Covers(s, i, d, n, a)
      BY <2>1 DEF Covers
    <3>. QED
      BY <1>0, <3>1
  <2>2. CASE a - t \notin 0..(Width(i.w) - 1)
    <3>1. q[a] = m[a]
      BY <1>0, <1>1, <2>2, WriteElse
    <3>2. PICK j \in 0..(n - 1) : Covers(s, i, d, j, a)
      BY <1>3, <3>1 DEF Moved, Wrote
    <3>3. j \in 0..n
      OBVIOUS
    <3>. QED
      BY <3>2, <3>3
  <2>. QED
    BY <2>1, <2>2
<1>4. ASSUME IsApart(s, i, d) PROVE Copied(s, i, d, q, n + 1)
  <2>1. Copied(s, i, d, m, n) /\ Wrote(s, i, d, m, n)
    BY <1>4 DEF Moved
  <2>2. n # 0 => n \in 1..(Num(s, i) - 1)
    OBVIOUS
  <2>3. ASSUME NEW j \in 0..(n - 1)
        PROVE  /\ ~Touch(i, Tgt(s, i, d, j), t) /\ Tgt(s, i, d, j) \in Cells
               /\ Tgt(s, i, d, j) + 1 \in Cells
               /\ i.op = "movs" => ~Touch(i, Tgt(s, i, d, j), Src(s, i, d, n))
    <3>1. n \in 1..(Num(s, i) - 1) /\ j \in Nat
      BY <2>2
    <3>. QED
      BY <1>4, <3>1, BlockCells DEF IsApart
  <2>4. v = Value(s, i, d, n)
    <3>1. CASE i.op \in Sources
      <4>1. i.op = "movs"
        BY <3>1 DEF Sources, Stores
      <4>2. ASSUME NEW c \in Cells, c - Src(s, i, d, n) \in 0..(Width(i.w) - 1)
            PROVE  m[c] = s.mem[c]
        <5>1. SUFFICES ASSUME m[c] # s.mem[c] PROVE FALSE
          OBVIOUS
        <5>2. PICK j \in 0..(n - 1) : Covers(s, i, d, j, c)
          BY <2>1, <5>1 DEF Wrote
        <5>. QED
          BY <1>0, <1>1, <2>3, <4>1, <4>2, <5>2, Untouched DEF Covers
      <4>3. Fetch(m, i.w, Src(s, i, d, n)) = Fetch(s.mem, i.w, Src(s, i, d, n))
        BY <1>0, <1>1, <4>2, FetchSame
      <4>. QED
        BY <3>1, <4>3 DEF Value
    <3>2. CASE i.op \notin Sources
      BY <3>2 DEF Value
    <3>. QED
      BY <3>1, <3>2
  <2>5. Fetch(q, i.w, t) = v
    BY <1>0, <1>1, <1>2, WriteRead
  <2>6. ASSUME NEW j \in 0..(n - 1)
        PROVE  Fetch(q, i.w, Tgt(s, i, d, j)) = Value(s, i, d, j)
    <3>1. ASSUME NEW c \in Cells, c - Tgt(s, i, d, j) \in 0..(Width(i.w) - 1)
          PROVE  q[c] = m[c]
      <4>1. c - t \notin 0..(Width(i.w) - 1)
        BY <1>0, <1>1, <2>3, <3>1, Untouched
      <4>. QED
        BY <1>0, <1>1, <4>1, WriteElse
    <3>. HIDE DEF q
    <3>2. Fetch(q, i.w, Tgt(s, i, d, j)) = Fetch(m, i.w, Tgt(s, i, d, j))
      BY <1>0, <2>3, <3>1, FetchSame
    <3>. QED
      BY <2>1, <3>2 DEF Copied
  <2>. HIDE DEF q
  <2>7. \A j \in 0..n : j = n \/ j \in 0..(n - 1)
    OBVIOUS
  <2>8. \A j \in 0..n : Fetch(q, i.w, Tgt(s, i, d, j)) = Value(s, i, d, j)
    BY <2>4, <2>5, <2>6, <2>7
  <2>. QED
    BY <1>0, <2>8 DEF Copied
<1>. HIDE DEF q
<1>5. Wrote(s, i, d, q, n + 1)
  BY <1>0, <1>3 DEF Wrote
<1>6. Moved(s, i, d, q, n + 1)
  BY <1>4, <1>5 DEF Moved
<1>. QED
  BY <1>6 DEF q, t

-----------------------------------------------------------------------------
(***************************************************************************)
(* The inductive invariant.                                                *)
(***************************************************************************)
Same(s, i, d, n) == Value(s, i, d, n) = Fetch(s.mem, i.w, Tgt(s, i, d, n))

\* A comparison that ends the repetition, as the properties say it.
Stopping(s, i, d, n) ==
    \/ i.rep = "none"
    \/ i.rep = "repz" /\ ~Same(s, i, d, n)
    \/ i.rep = "repnz" /\ Same(s, i, d, n)

Matched(s, i, d, n) == n > 0 /\ Same(s, i, d, n - 1)

Scanned(s, i, d, m, z, n) ==
    /\ m = s.mem /\ (z <=> Matched(s, i, d, n))
    /\ \A j \in 0..(n - 2) : ~Stopping(s, i, d, j)

Halfway(s, i, d, r, m, z, n) ==
    /\ r = RegsAt(s, i, d, n)
    /\ i.op \notin Compares => Moved(s, i, d, m, n)
    /\ i.op \in Compares => Scanned(s, i, d, m, z, n)

\* Whether there is another element, or none.
Goes(s, i, d, n) ==
    /\ n < Num(s, i) \/ Num(s, i) = 0
    /\ i.op \in Compares /\ n > 0 => ~Stopping(s, i, d, n - 1)

Ends(s, i, d, n) ==
    n = Num(s, i) \/ (i.op \in Compares /\ n > 0 /\ Stopping(s, i, d, n - 1))

Inside(s, i, d, r, m, z, p) ==
    \E n \in Nat :
        /\ n <= Num(s, i) /\ Halfway(s, i, d, r, m, z, n)
        /\ p = 2 => Goes(s, i, d, n)
        /\ p = 3 => Ends(s, i, d, n)

BlockInv ==
    prog.kind = "block" =>
        /\ seg = start.seg
        /\ pc = 1 => reg = start.reg /\ mem = start.mem /\ zf = FALSE
        /\ pc # 1 => Inside(start, S, df, reg, mem, zf, pc)

IInv == TypeInv /\ BlockInv

\* A block has two instructions.
LEMMA BlockCode ==
    ASSUME TypeInv, prog.kind = "block"
    PROVE  /\ Len(prog.code) = 2 /\ prog.code[1].op \in {"cld", "std"}
           /\ S.op \in Strings /\ IsInstruction(S) /\ pc \in 1..3
<1>1. /\ Len(prog.code) = 2
      /\ prog.code[1].op \in {"cld", "std"} /\ prog.code[2].op \in Strings
  BY BlockAssumption DEF TypeInv
<1>2. 2 \in 1..Len(prog.code) /\ pc \in 1..(Len(prog.code) + 1)
  BY <1>1 DEF TypeInv
<1>3. IsInstruction(prog.code[2])
  BY <1>2, CodeType DEF TypeInv
<1>4. pc \in 1..3
  BY <1>1, <1>2
<1>. QED
  BY <1>1, <1>3, <1>4 DEF S

\* Before the first element.
LEMMA BlockBegins ==
    ASSUME NEW s, IsStart(s), NEW i, IsInstruction(i), NEW d \in BOOLEAN, i.op \in Strings,
           NEW z \in BOOLEAN, ~z
    PROVE  Inside(s, i, d, s.reg, s.mem, z, 2)
<1>1. 0 \in Nat /\ 0 <= 0 /\ \A j : j \notin 0..(0 - 1) /\ j \notin 0..(0 - 2)
  OBVIOUS
<1>2. Num(s, i) \in Nat
  <2>1. s.reg[CX] \in Words
    BY Names DEF IsStart, Registers
  <2>. QED
    BY <2>1, WordRange DEF Num
<1>3. 0 <= Num(s, i) /\ (0 < Num(s, i) \/ Num(s, i) = 0) /\ ~(0 > 0)
  BY <1>2
<1>4. RegsAt(s, i, d, 0) = s.reg
  BY <1>3, RegsType
<1>5. Moved(s, i, d, s.mem, 0)
  BY <1>1 DEF Moved, Wrote, Copied
<1>6. Scanned(s, i, d, s.mem, z, 0)
  BY <1>1, <1>3 DEF Scanned, Matched
<1>7. Halfway(s, i, d, s.reg, s.mem, z, 0) /\ Goes(s, i, d, 0)
  BY <1>3, <1>4, <1>5, <1>6 DEF Halfway, Goes
<1>8. 2 # 3
  OBVIOUS
<1>. QED
  BY <1>1, <1>3, <1>7, <1>8, Zenon DEF Inside

\* The one instruction before sets DF.
LEMMA FirstStep ==
    ASSUME TypeInv, BlockInv, prog.kind = "block", pc = 1, Next
    PROVE  Exec_clx
<1>1. I.op \in {"cld", "std"}
  BY BlockCode DEF I
<1>. QED
  BY <1>1 DEF Next, Operand, Exec_mov, Exec_mov_sreg, Exec_mov_moffs, Exec_mov_imm, Exec_groupC6,
     Exec_lea, Exec_les, Exec_xchg, Exec_groupF6, Exec_groupFE, Exec_group8F, Exec_push, Exec_pop,
     Exec_shovel, At, Strings

\* The other is a string instruction.
LEMMA SecondStep ==
    ASSUME TypeInv, BlockInv, prog.kind = "block", pc # 1, Next
    PROVE  pc = 2 /\ I = S /\ Exec_shovel
<1>1. pc <= 2
  BY BlockCode DEF Next, Operand, Exec_mov, Exec_mov_sreg, Exec_mov_moffs, Exec_mov_imm, Exec_groupC6,
     Exec_lea, Exec_les, Exec_xchg, Exec_groupF6, Exec_groupFE, Exec_group8F, Exec_push, Exec_pop,
     Exec_clx, Exec_shovel, At
<1>2. pc = 2
  BY <1>1, BlockCode
<1>3. I = S
  BY <1>2 DEF I, S
<1>4. I.op \in Strings
  BY <1>3, BlockCode
<1>5. Exec_shovel
  BY <1>4 DEF Next, Operand, Exec_mov, Exec_mov_sreg, Exec_mov_moffs, Exec_mov_imm, Exec_groupC6,
     Exec_lea, Exec_les, Exec_xchg, Exec_groupF6, Exec_groupFE, Exec_group8F, Exec_push, Exec_pop,
     Exec_clx, At, Strings
<1>. QED
  BY <1>2, <1>3, <1>5

\* What the handler finds: the n-th element of the block.
LEMMA Finds ==
    ASSUME NEW s, IsStart(s), NEW i, IsInstruction(i), NEW n \in Nat, n <= Num(s, i),
           TypeInv, s = start, i = I, seg = s.seg, reg = RegsAt(s, i, df, n)
    PROVE  /\ i.op \in Sources => Source = Src(s, i, df, n)
           /\ i.op \in Targets => Target = Tgt(s, i, df, n)
           /\ Element = IF i.op \in Sources THEN Fetch(mem, i.w, Src(s, i, df, n))
                        ELSE GetReg(reg, i.w, AX)
           /\ i.op \in Strings \ {"lods"} => GetReg(reg, i.w, AX) = GetReg(s.reg, i.w, AX)
<1>0. s.seg = seg /\ i.w \in BOOLEAN
  BY DEF IsInstruction
<1>1. i.op \in Sources => Source = Src(s, i, df, n)
  BY RegsLook DEF Source, Src
<1>2. i.op \in Targets => Target = Tgt(s, i, df, n)
  BY RegsLook DEF Target, Tgt
<1>3. Element = IF i.op \in Sources THEN Fetch(mem, i.w, Src(s, i, df, n)) ELSE GetReg(reg, i.w, AX)
  BY <1>1 DEF Element
<1>4. i.op \in Strings \ {"lods"} => GetReg(reg, i.w, AX) = GetReg(s.reg, i.w, AX)
  <2>1. i.op # "lods" => reg[AX] = s.reg[AX]
    BY RegsLook DEF Acc
  <2>2. AX < 4
    BY Names
  <2>. QED
    BY <2>1, <2>2 DEF GetReg, ByteReg
<1>. QED
  BY <1>1, <1>2, <1>3, <1>4

\* The memory and the flag after it.
LEMMA ElementDone ==
    ASSUME NEW s, IsStart(s), NEW i, IsInstruction(i), i.op \in Strings, NEW d \in BOOLEAN,
           NEW n \in Nat, n < Num(s, i), Num(s, i) \in Nat,
           NEW m \in Memories, NEW z, NEW r, Halfway(s, i, d, r, m, z, n), Goes(s, i, d, n),
           NEW v, v = IF i.op \in Sources THEN Fetch(m, i.w, Src(s, i, d, n))
                      ELSE GetReg(r, i.w, AX),
           i.op # "lods" => GetReg(r, i.w, AX) = GetReg(s.reg, i.w, AX),
           NEW mm, mm = IF Stores(i) THEN Write(m, i.w, Tgt(s, i, d, n), v) ELSE m,
           NEW zz, i.op \in Compares => (zz <=> v = Fetch(m, i.w, Tgt(s, i, d, n)))
    PROVE  /\ i.op = "lods" => v = Value(s, i, d, n)
           /\ i.op \notin Compares => Moved(s, i, d, mm, n + 1)
           /\ i.op \in Compares => Scanned(s, i, d, mm, zz, n + 1) /\ (zz <=> Same(s, i, d, n))
<1>0. s.mem \in Memories /\ n + 1 > 0 /\ (n + 1) - 1 = n /\ (n + 1) - 2 = n - 1
  BY DEF IsStart
<1>1. CASE i.op \in Compares
  <2>1. Scanned(s, i, d, m, z, n)
    BY <1>1 DEF Halfway
  <2>2. m = s.mem /\ mm = m
    BY <1>1, <2>1 DEF Scanned, Stores, Compares
  <2>3. v = Value(s, i, d, n) /\ i.op # "lods"
    BY <1>1, <2>2 DEF Value, Compares
  <2>4. zz <=> Same(s, i, d, n)
    BY <1>1, <2>2, <2>3, Zenon DEF Same
  <2>5. zz <=> Matched(s, i, d, n + 1)
    BY <1>0, <2>4, Zenon DEF Matched
  <2>6. ASSUME NEW j \in 0..(n - 1) PROVE ~Stopping(s, i, d, j)
    <3>1. j \in 0..(n - 2) \/ (j = n - 1 /\ n > 0)
      OBVIOUS
    <3>. QED
      BY <1>1, <2>1, <3>1 DEF Scanned, Goes
  <2>. QED
    BY <1>0, <1>1, <2>2, <2>3, <2>4, <2>5, <2>6, Zenon DEF Scanned
<1>2. CASE i.op \notin Compares /\ ~Stores(i)
  <2>1. i.op = "lods" /\ i.op \in Sources
    BY <1>2 DEF Strings, Compares, Stores, Sources
  <2>2. Moved(s, i, d, m, n) /\ mm = m
    BY <1>2 DEF Halfway
  <2>3. \A a \in Cells : m[a] = s.mem[a]
    BY <1>2, <2>2 DEF Moved, Wrote
  <2>4. m = [a \in Cells |-> m[a]] /\ s.mem = [a \in Cells |-> s.mem[a]]
    BY <1>0 DEF Memories
  <2>5. m = s.mem
    BY <2>3, <2>4
  <2>6. v = Value(s, i, d, n)
    BY <2>1, <2>5 DEF Value
  <2>7. Moved(s, i, d, m, n + 1)
    BY <1>2, <2>3 DEF Moved, Wrote
  <2>. QED
    BY <1>2, <2>2, <2>6, <2>7
<1>3. CASE i.op \notin Compares /\ Stores(i)
  <2>1. i.op # "lods" /\ Moved(s, i, d, m, n)
    BY <1>3 DEF Halfway, Stores
  <2>2. v = IF i.op \in Sources THEN Fetch(m, i.w, Src(s, i, d, n)) ELSE GetReg(s.reg, i.w, AX)
    BY <2>1
  <2>. QED
    BY <1>3, <2>1, <2>2, StoreMoves
<1>. QED
  BY <1>1, <1>2, <1>3

\* Whether it was the last one.
LEMMA LastOne ==
    ASSUME NEW s, NEW i, i.op \in Strings, i.rep \in {"none", "repz", "repnz"}, NEW d,
           NEW n \in Nat, n < Num(s, i), Num(s, i) \in Nat, s.reg[CX] \in Int,
           NEW c, c = IF i.rep = "none" THEN s.reg[CX] ELSE s.reg[CX] - (n + 1),
           NEW zz, i.op \in Compares => (zz <=> Same(s, i, d, n)),
           NEW t, t <=> i.op \in Compares /\ ((i.rep = "repnz" /\ zz) \/ (i.rep = "repz" /\ ~zz)),
           NEW p, p = IF i.rep = "none" \/ c = 0 \/ t THEN 3 ELSE 2
    PROVE  /\ p \in {2, 3}
           /\ p = 2 => Goes(s, i, d, n + 1)
           /\ p = 3 => Ends(s, i, d, n + 1)
<1>1. n + 1 > 0 /\ (n + 1) - 1 = n
  OBVIOUS
<1>2. CASE i.rep = "none"
  <2>1. n + 1 = Num(s, i) /\ p = 3
    BY <1>2 DEF Num
  <2>. QED
    BY <2>1 DEF Ends
<1>3. CASE i.rep # "none"
  <2>1. Num(s, i) = s.reg[CX] /\ c = s.reg[CX] - (n + 1)
    BY <1>3 DEF Num
  <2>2. CASE c = 0
    <3>1. n + 1 = Num(s, i) /\ p = 3
      BY <2>1, <2>2
    <3>. QED
      BY <3>1 DEF Ends
  <2>3. CASE c # 0
    <3>1. n + 1 < Num(s, i)
      BY <2>1, <2>3
    <3>2. i.op \in Compares => (t <=> Stopping(s, i, d, n))
      BY <1>3, Zenon DEF Stopping
    <3>3. CASE t
      <4>1. p = 3 /\ i.op \in Compares
        BY <3>3
      <4>. QED
        BY <1>1, <3>2, <3>3, <4>1 DEF Ends
    <3>4. CASE ~t
      <4>1. p = 2
        BY <1>3, <2>3, <3>4
      <4>. QED
        BY <1>1, <3>1, <3>2, <3>4, <4>1 DEF Goes
    <3>. QED
      BY <3>3, <3>4
  <2>. QED
    BY <2>2, <2>3
<1>. QED
  BY <1>2, <1>3

\* A step of the string instruction: another element, or none left.
LEMMA ShovelStep ==
    ASSUME TypeInv, BlockInv, prog.kind = "block", pc = 2, I = S, Exec_shovel
    PROVE  Inside(start, S, df, reg', mem', zf', pc') /\ pc' # 1
<1>0. /\ mem \in Memories /\ df \in BOOLEAN /\ zf \in BOOLEAN /\ IsStart(start)
      /\ seg = start.seg /\ Inside(start, S, df, reg, mem, zf, pc)
  BY DEF TypeInv, BlockInv
<1>1. IsInstruction(S) /\ S.op \in Strings /\ S.rep \in {"none", "repz", "repnz"}
      /\ S.w \in BOOLEAN
  BY BlockCode DEF IsInstruction
<1>2. PICK n \in Nat : /\ n <= Num(start, S) /\ Halfway(start, S, df, reg, mem, zf, n)
                       /\ Goes(start, S, df, n)
  BY <1>0 DEF Inside
<1>3. Num(start, S) \in Nat /\ start.reg[CX] \in Words /\ start.reg[CX] \in Int
  <2>1. start.reg[CX] \in Words
    BY <1>0, Names DEF IsStart, Registers
  <2>. QED
    BY <1>0, <1>1, <1>2, <2>1, RegsType, WordRange
<1>4. reg = RegsAt(start, S, df, n)
  BY <1>2 DEF Halfway
<1>5. reg[CX] = IF S.rep = "none" THEN start.reg[CX] ELSE start.reg[CX] - n
  BY <1>4, RegsLook
<1>6. CASE S.rep # "none" /\ reg[CX] = 0
  <2>1. pc' = 3 /\ reg' = reg /\ mem' = mem /\ zf' = zf
    BY <1>6 DEF Exec_shovel, Retires
  <2>2. n = Num(start, S)
    BY <1>3, <1>5, <1>6 DEF Num
  <2>3. Ends(start, S, df, n)
    BY <2>2 DEF Ends
  <2>. QED
    BY <1>2, <2>1, <2>3 DEF Inside
<1>7. CASE ~(S.rep # "none" /\ reg[CX] = 0)
  <2>1. n < Num(start, S)
    <3>1. CASE S.rep = "none"
      BY <1>2, <3>1 DEF Goes, Num
    <3>2. CASE S.rep # "none"
      <4>1. Num(start, S) = start.reg[CX] /\ start.reg[CX] - n # 0
        BY <1>5, <1>7, <3>2 DEF Num
      <4>. QED
        BY <1>2, <1>3, <4>1
    <3>. QED
      BY <3>1, <3>2
  <2>. DEFINE r == IF S.op = "lods" THEN SetReg(reg, S.w, AX, Element) ELSE reg
              si == IF S.op \in Sources THEN Advanced(SI) ELSE r[SI]
              di == IF S.op \in Targets THEN Advanced(DI) ELSE r[DI]
              cx == IF S.rep = "none" THEN r[CX] ELSE (r[CX] + Word - 1) % Word
  <2>2. /\ mem' = IF Stores(S) THEN Write(mem, S.w, Target, Element) ELSE mem
        /\ S.op \in Compares => (zf' <=> Element = Fetch(mem, S.w, Target))
        /\ reg' = [r EXCEPT ![SI] = si, ![DI] = di, ![CX] = cx]
        /\ pc' = IF S.rep = "none" \/ reg'[CX] = 0 \/ Terminal(zf') THEN 3 ELSE 2
    <3>1. ~(I.rep # "none" /\ reg[CX] = 0)
      BY <1>7
    <3>2. mem' = IF Stores(S) THEN Write(mem, S.w, Target, Element) ELSE mem
      BY <3>1 DEF Exec_shovel, Stores
    <3>3. S.op \in Compares => (zf' <=> Element = Fetch(mem, S.w, Target))
      BY <3>1, Zenon DEF Exec_shovel
    <3>4. reg' = [r EXCEPT ![SI] = si, ![DI] = di, ![CX] = cx]
      BY <3>1, Names DEF Exec_shovel
    <3>5. pc' = IF S.rep = "none" \/ reg'[CX] = 0 \/ Terminal(zf') THEN pc + 1 ELSE pc
      BY <3>1, Zenon DEF Exec_shovel
    <3>6. pc + 1 = 3
      OBVIOUS
    <3>. QED
      BY <3>2, <3>3, <3>4, <3>5, <3>6, Zenon
  <2>3. /\ S.op \in Sources => Source = Src(start, S, df, n)
        /\ S.op \in Targets => Target = Tgt(start, S, df, n)
        /\ Element = IF S.op \in Sources THEN Fetch(mem, S.w, Src(start, S, df, n))
                     ELSE GetReg(reg, S.w, AX)
        /\ S.op \in Strings \ {"lods"} => GetReg(reg, S.w, AX) = GetReg(start.reg, S.w, AX)
    BY <1>0, <1>1, <1>2, <1>4, Finds
  <2>4. Fits(S.w, Element)
    BY <1>1, StringOperands
  <2>5. /\ S.op = "lods" => Element = Value(start, S, df, n)
        /\ S.op \notin Compares => Moved(start, S, df, mem', n + 1)
        /\ S.op \in Compares =>
              Scanned(start, S, df, mem', zf', n + 1) /\ (zf' <=> Same(start, S, df, n))
    <3>1. Stores(S) \/ S.op \in Compares => Target = Tgt(start, S, df, n)
      BY <2>3 DEF Stores, Compares, Targets
    <3>2. mem' = IF Stores(S) THEN Write(mem, S.w, Tgt(start, S, df, n), Element) ELSE mem
      BY <2>2, <3>1
    <3>3. S.op \in Compares => (zf' <=> Element = Fetch(mem, S.w, Tgt(start, S, df, n)))
      BY <2>2, <3>1, Zenon
    <3>4. S.op # "lods" => GetReg(reg, S.w, AX) = GetReg(start.reg, S.w, AX)
      BY <1>1, <2>3
    <3>. QED
      BY <1>0, <1>1, <1>2, <1>3, <2>1, <2>3, <3>2, <3>3, <3>4, ElementDone
  <2>6. /\ Advanced(SI) = (reg[SI] + Word + (Turn(df) * Width(S.w))) % Word
        /\ Advanced(DI) = (reg[DI] + Word + (Turn(df) * Width(S.w))) % Word
    BY DEF Advanced, Turn
  <2>7. reg' = RegsAt(start, S, df, n + 1) /\ reg'[CX] = cx
    <3>. HIDE DEF r, cx
    <3>1. r = IF S.op = "lods" THEN SetReg(reg, S.w, AX, Element) ELSE reg
      BY DEF r
    <3>2. cx = IF S.rep = "none" THEN r[CX] ELSE (r[CX] + Word - 1) % Word
      BY DEF cx
    <3>. HIDE DEF si, di
    <3>3. si = IF S.op \in Sources THEN (reg[SI] + Word + (Turn(df) * Width(S.w))) % Word ELSE r[SI]
      BY <2>6 DEF si
    <3>4. di = IF S.op \in Targets THEN (reg[DI] + Word + (Turn(df) * Width(S.w))) % Word ELSE r[DI]
      BY <2>6 DEF di
    <3>5. S.op = "lods" => Element = Value(start, S, df, n)
      BY <2>5
    <3>6. reg' = Put(r, si, di, cx)
      BY <2>2 DEF Put
    <3>7. IsStart(start) /\ IsInstruction(S) /\ df \in BOOLEAN
      BY <1>0, <1>1
    <3>. QED
      BY <1>4, <2>1, <2>4, <3>1, <3>2, <3>3, <3>4, <3>5, <3>6, <3>7, NextRegs
  <2>8. reg'[CX] = IF S.rep = "none" THEN start.reg[CX] ELSE start.reg[CX] - (n + 1)
    BY <2>7, RegsLook
  <2>9. Terminal(zf') <=>
          S.op \in Compares /\ ((S.rep = "repnz" /\ zf') \/ (S.rep = "repz" /\ ~zf'))
    BY Zenon DEF Terminal
  <2>10. /\ pc' \in {2, 3}
         /\ pc' = 2 => Goes(start, S, df, n + 1)
         /\ pc' = 3 => Ends(start, S, df, n + 1)
    <3>1. S.op \in Compares => (zf' <=> Same(start, S, df, n))
      BY <2>5
    <3>2. pc' = IF S.rep = "none" \/ reg'[CX] = 0 \/ Terminal(zf') THEN 3 ELSE 2
      BY <2>2
    <3>. QED
      BY <1>1, <1>3, <2>1, <2>8, <2>9, <3>1, <3>2, LastOne
  <2>11. Halfway(start, S, df, reg', mem', zf', n + 1)
    BY <2>5, <2>7 DEF Halfway
  <2>12. n + 1 \in Nat /\ n + 1 <= Num(start, S)
    BY <1>3, <2>1
  <2>13. pc' # 1
    BY <2>10
  <2>. QED
    BY <2>10, <2>11, <2>12, <2>13, Zenon DEF Inside
<1>. QED
  BY <1>6, <1>7

\* It holds at the start,
LEMMA InitInv == Init => IInv
<1>. SUFFICES ASSUME Init PROVE IInv
  OBVIOUS
<1>1. /\ pc = 1 /\ zf = FALSE /\ start = [reg |-> reg, seg |-> seg, mem |-> mem]
  BY DEF Init
<1>2. seg = start.seg /\ reg = start.reg /\ mem = start.mem
  BY <1>1
<1>3. BlockInv
  BY <1>1, <1>2 DEF BlockInv
<1>. QED
  BY <1>3, InitType DEF IInv

\* The step before the string instruction.
LEMMA DirectionStep ==
    ASSUME TypeInv, BlockInv, prog.kind = "block", pc = 1, Exec_clx, TypeInv'
    PROVE  BlockInv'
<1>1. /\ prog' = prog /\ start' = start /\ pc' = 2 /\ reg' = reg /\ seg' = seg /\ mem' = mem
      /\ zf' = zf
  BY DEF Exec_clx, At, Retires
<1>2. seg = start.seg /\ reg = start.reg /\ mem = start.mem /\ zf = FALSE
  BY DEF BlockInv
<1>3. S' = S
  BY <1>1 DEF S
<1>4. IsStart(start) /\ IsInstruction(S) /\ S.op \in Strings /\ df' \in BOOLEAN
  BY BlockCode DEF TypeInv
<1>5. zf \in BOOLEAN /\ ~zf
  BY <1>2
<1>6. Inside(start, S, df', start.reg, start.mem, zf, 2)
  BY <1>4, <1>5, BlockBegins
<1>7. Inside(start', S', df', reg', mem', zf', pc')
  BY <1>1, <1>2, <1>3, <1>6, Zenon
<1>8. pc' # 1 /\ seg' = start'.seg
  BY <1>1, <1>2
<1>. QED
  BY <1>7, <1>8, Zenon DEF BlockInv

\* and every step keeps it.
LEMMA NextInv ==
    ASSUME IInv, [Next]_vars
    PROVE  IInv'
<1>0. TypeInv /\ BlockInv /\ TypeInv'
  BY NextType DEF IInv
<1>1. CASE UNCHANGED vars
  <2>1. S' = S
    BY <1>1 DEF S, vars
  <2>2. BlockInv'
    BY <1>0, <1>1, <2>1 DEF BlockInv, vars
  <2>. QED
    BY <1>0, <2>2 DEF IInv
<1>2. CASE Next
  <2>0. prog' = prog /\ start' = start
    BY <1>2 DEF Next, Operand, Exec_mov, Exec_mov_sreg, Exec_mov_moffs, Exec_mov_imm,
       Exec_groupC6, Exec_lea, Exec_les, Exec_xchg, Exec_groupF6, Exec_groupFE, Exec_group8F,
       Exec_push, Exec_pop, Exec_clx, Exec_shovel, At
  <2>1. CASE prog.kind # "block"
    BY <1>0, <2>0, <2>1 DEF IInv, BlockInv
  <2>2. CASE prog.kind = "block" /\ pc = 1
    BY <1>0, <1>2, <2>2, FirstStep, DirectionStep DEF IInv
  <2>3. CASE prog.kind = "block" /\ pc # 1
    <3>1. pc = 2 /\ I = S /\ Exec_shovel
      BY <1>0, <1>2, <2>3, SecondStep
    <3>2. Inside(start, S, df, reg', mem', zf', pc') /\ pc' # 1
      BY <1>0, <2>3, <3>1, ShovelStep
    <3>3. seg' = seg /\ df' = df /\ S' = S
      BY <2>0, <3>1 DEF Exec_shovel, S
    <3>4. seg' = start'.seg
      BY <1>0, <2>0, <2>3, <3>3 DEF BlockInv
    <3>5. Inside(start', S', df', reg', mem', zf', pc')
      BY <2>0, <3>2, <3>3, Zenon
    <3>6. BlockInv'
      BY <3>2, <3>4, <3>5, Zenon DEF BlockInv
    <3>. QED
      BY <1>0, <3>6 DEF IInv
  <2>. QED
    BY <2>1, <2>2, <2>3
<1>. QED
  BY <1>1, <1>2

\* In the middle of a block the registers, the memory and ZF are those after some
\* number of elements: the string handler keeps nothing else between its runs.
THEOREM BlockInvariant == Spec => []IInv
  BY InitInv, NextInv, PTL DEF Spec

-----------------------------------------------------------------------------
(***************************************************************************)
(* What the invariant says at the end of the block.                         *)
(***************************************************************************)
\* The names the properties use.
LEMMA Terms ==
    /\ Count = Num(start, S)
    /\ \A k, n : After(k, n) = Idx(start.reg[k], n, S.w, df)
    /\ \A n : SourceCell(n) = Src(start, S, df, n) /\ TargetCell(n) = Tgt(start, S, df, n)
    /\ \A a, b : Meet(a, b) <=> Touch(S, a, b)
    /\ Apart <=> IsApart(start, S, df)
<1>1. Count = Num(start, S)
  BY DEF Count, Num
<1>2. \A k, n : After(k, n) = Idx(start.reg[k], n, S.w, df)
  BY DEF After, Idx
<1>3. \A n : SourceCell(n) = Src(start, S, df, n) /\ TargetCell(n) = Tgt(start, S, df, n)
  BY <1>2 DEF SourceCell, TargetCell, Src, Tgt
<1>4. \A a, b : Meet(a, b) <=> Touch(S, a, b)
  BY DEF Meet, Touch
<1>5. Apart <=> IsApart(start, S, df)
  BY <1>1, <1>3, <1>4, Zenon DEF Apart, IsApart
<1>. QED
  BY <1>1, <1>2, <1>3, <1>4, <1>5, Zenon

\* The registers at the end, in the form of the properties.
LEMMA LastRegs ==
    ASSUME NEW s, IsStart(s), NEW i, IsInstruction(i), i.op \in Strings, NEW d \in BOOLEAN,
           NEW n \in Nat, n <= Num(s, i),
           NEW si, si = IF i.op \in Sources THEN Idx(s.reg[SI], n, i.w, d) ELSE s.reg[SI],
           NEW di, di = IF i.op \in Targets THEN Idx(s.reg[DI], n, i.w, d) ELSE s.reg[DI],
           NEW cx, cx = IF i.rep = "none" THEN s.reg[CX] ELSE s.reg[CX] - n,
           NEW last, i.op = "lods" /\ n > 0 => last = Value(s, i, d, n - 1)
    PROVE  RegsAt(s, i, d, n) = IF i.op = "lods" /\ n > 0
                                THEN SetReg(Put(s.reg, si, di, cx), i.w, AX, last)
                                ELSE Put(s.reg, si, di, cx)
<1>. DEFINE g == RegsAt(s, i, d, n)
            r == Put(s.reg, si, di, cx)
            q == SetReg(r, i.w, AX, last)
<1>1. g \in Registers /\ s.reg \in Registers /\ i.w \in BOOLEAN
  BY RegsType DEF IsStart, IsInstruction
<1>2. /\ g[AX] = Acc(s, i, d, n) /\ g[CX] = cx /\ g[SI] = si /\ g[DI] = di
      /\ \A k \in 0..7 \ {AX, CX, SI, DI} : g[k] = s.reg[k]
  BY RegsLook
<1>3. cx \in Words /\ si \in Words /\ di \in Words
  <2>1. g[CX] \in Words /\ g[SI] \in Words /\ g[DI] \in Words
    BY <1>1, Names DEF Registers
  <2>. QED
    BY <1>2, <2>1
<1>4. r \in Registers
  BY <1>1, <1>3 DEF Put, Registers
<1>5. r[AX] = s.reg[AX] /\ \A k \in 0..7 : k # AX => r[k] = g[k]
  <2>1. \A k \in 0..7 :
          r[k] = IF k = CX THEN cx ELSE IF k = DI THEN di ELSE IF k = SI THEN si ELSE s.reg[k]
    BY <1>1, Names DEF Registers, Put
  <2>. QED
    BY <1>2, <2>1, Names
<1>6. CASE i.op = "lods" /\ n > 0
  <2>1. n - 1 \in Nat /\ last = Value(s, i, d, n - 1)
    BY <1>6
  <2>2. Fits(i.w, last)
    BY <2>1, BlockCells
  <2>3. q \in Registers /\ \A k \in 0..7 : k # AX => q[k] = r[k]
    BY <1>1, <1>4, <2>2, SetAX
  <2>4. q[AX] = SetReg(s.reg, i.w, AX, last)[AX]
    BY <1>1, <1>4, <1>5, <2>2, SetAX
  <2>5. g[AX] = SetReg(s.reg, i.w, AX, last)[AX]
    BY <1>2, <1>6, <2>1 DEF Acc
  <2>. HIDE DEF g, r, q
  <2>6. \A k \in 0..7 : q[k] = g[k]
    BY <1>5, <2>3, <2>4, <2>5
  <2>7. q = [k \in 0..7 |-> q[k]] /\ g = [k \in 0..7 |-> g[k]]
    BY <1>1, <2>3 DEF Registers
  <2>8. q = g
    BY <2>6, <2>7
  <2>. QED
    BY <1>6, <2>8 DEF g, q, r
<1>7. CASE ~(i.op = "lods" /\ n > 0)
  <2>1. g[AX] = s.reg[AX]
    BY <1>2, <1>7 DEF Acc
  <2>. HIDE DEF g, r
  <2>2. \A k \in 0..7 : r[k] = g[k]
    BY <1>5, <2>1
  <2>3. r = [k \in 0..7 |-> r[k]] /\ g = [k \in 0..7 |-> g[k]]
    BY <1>1, <1>4 DEF Registers
  <2>4. r = g
    BY <2>2, <2>3
  <2>. QED
    BY <1>7, <2>4 DEF g, r
<1>. QED
  BY <1>6, <1>7

\* A block that is done.
LEMMA AtEnd ==
    ASSUME IInv, Block
    PROVE  /\ IsStart(start) /\ IsInstruction(S) /\ S.op \in Strings /\ df \in BOOLEAN
           /\ \E n \in Nat : /\ n <= Num(start, S) /\ Halfway(start, S, df, reg, mem, zf, n)
                             /\ Ends(start, S, df, n)
<1>1. TypeInv /\ BlockInv /\ prog.kind = "block" /\ pc = 3
  <2>1. TypeInv /\ BlockInv /\ prog.kind = "block" /\ pc = Len(prog.code) + 1
    BY DEF IInv, Block, Done
  <2>2. Len(prog.code) = 2
    BY <2>1, BlockCode
  <2>. QED
    BY <2>1, <2>2
<1>2. Inside(start, S, df, reg, mem, zf, 3)
  BY <1>1 DEF BlockInv
<1>. QED
  BY <1>1, <1>2, BlockCode DEF Inside, TypeInv

\* MOVS, STOS and LODS.
LEMMA MovedAll ==
    ASSUME IInv
    PROVE  BlockMoved
<1>. SUFFICES ASSUME Block, S.op \in {"movs", "stos", "lods"} PROVE BlockMoved
  BY DEF BlockMoved
<1>0. /\ IsStart(start) /\ IsInstruction(S) /\ S.op \in Strings /\ df \in BOOLEAN
      /\ S.op \notin Compares /\ start.reg \in Registers
  BY AtEnd DEF Compares, IsStart
<1>. DEFINE n == Num(start, S)
            r == [start.reg EXCEPT
                    ![SI] = IF S.op = "stos" THEN @ ELSE After(SI, Count),
                    ![DI] = IF S.op = "lods" THEN @ ELSE After(DI, Count),
                    ![CX] = IF S.rep = "none" THEN @ ELSE 0]
            last == Fetch(start.mem, S.w, SourceCell(Count - 1))
            element(j) == IF S.op = "movs" THEN Fetch(start.mem, S.w, SourceCell(j))
                          ELSE GetReg(start.reg, S.w, AX)
            stored == S.op # "lods"
<1>1. n \in Nat /\ Halfway(start, S, df, reg, mem, zf, n)
  BY <1>0, AtEnd DEF Ends
<1>2. reg = RegsAt(start, S, df, n) /\ Moved(start, S, df, mem, n)
  BY <1>0, <1>1 DEF Halfway
<1>3. reg = IF S.op = "lods" /\ Count > 0 THEN SetReg(r, S.w, AX, last) ELSE r
  <2>. DEFINE si == IF S.op \in Sources THEN Idx(start.reg[SI], n, S.w, df) ELSE start.reg[SI]
              di == IF S.op \in Targets THEN Idx(start.reg[DI], n, S.w, df) ELSE start.reg[DI]
              cx == IF S.rep = "none" THEN start.reg[CX] ELSE start.reg[CX] - n
  <2>1. After(SI, Count) = Idx(start.reg[SI], n, S.w, df)
        /\ After(DI, Count) = Idx(start.reg[DI], n, S.w, df)
    BY Terms
  <2>2. si = IF S.op = "stos" THEN start.reg[SI] ELSE After(SI, Count)
    BY <1>0, <2>1 DEF Sources
  <2>3. di = IF S.op = "lods" THEN start.reg[DI] ELSE After(DI, Count)
    BY <1>0, <2>1 DEF Targets
  <2>4. cx = IF S.rep = "none" THEN start.reg[CX] ELSE 0
    <3>1. S.rep # "none" => n = start.reg[CX]
      BY DEF Num
    <3>. HIDE DEF n
    <3>. QED
      BY <1>1, <3>1
  <2>5. r = Put(start.reg, si, di, cx)
    <3>. HIDE DEF si, di, cx
    <3>1. r = [start.reg EXCEPT ![SI] = si, ![DI] = di, ![CX] = cx]
      BY <1>0, <2>2, <2>3, <2>4, Names DEF Registers
    <3>. QED
      BY <3>1 DEF Put
  <2>6. S.op = "lods" /\ n > 0 => last = Value(start, S, df, n - 1)
    BY Terms DEF Value, Sources
  <2>7. n <= Num(start, S) /\ Count = n
    BY <1>1, Terms
  <2>8. /\ si = IF S.op \in Sources THEN Idx(start.reg[SI], n, S.w, df) ELSE start.reg[SI]
        /\ di = IF S.op \in Targets THEN Idx(start.reg[DI], n, S.w, df) ELSE start.reg[DI]
        /\ cx = IF S.rep = "none" THEN start.reg[CX] ELSE start.reg[CX] - n
    OBVIOUS
  <2>. HIDE DEF n, r, last, si, di, cx
  <2>9. RegsAt(start, S, df, n) = IF S.op = "lods" /\ n > 0
                                  THEN SetReg(Put(start.reg, si, di, cx), S.w, AX, last)
                                  ELSE Put(start.reg, si, di, cx)
    BY <1>0, <1>1, <2>6, <2>7, <2>8, LastRegs
  <2>. QED
    BY <1>2, <2>5, <2>7, <2>9
<1>4. stored /\ Apart => \A j \in 0..(Count - 1) : Fetch(mem, S.w, TargetCell(j)) = element(j)
  <2>. SUFFICES ASSUME stored, Apart, NEW j \in 0..(n - 1)
                PROVE  Fetch(mem, S.w, Tgt(start, S, df, j)) = element(j)
    BY Terms
  <2>1. Stores(S) /\ IsApart(start, S, df)
    BY Terms DEF Stores
  <2>2. Fetch(mem, S.w, Tgt(start, S, df, j)) = Value(start, S, df, j)
    BY <1>2, <2>1 DEF Moved, Copied
  <2>3. element(j) = Value(start, S, df, j)
    BY Terms DEF Value, Sources
  <2>. QED
    BY <2>2, <2>3
<1>5. ASSUME NEW a \in Cells, mem[a] # start.mem[a]
      PROVE  stored /\ \E j \in 0..(Count - 1) : a - TargetCell(j) \in 0..(Width(S.w) - 1)
  <2>1. Stores(S) /\ \E j \in 0..(n - 1) : Covers(start, S, df, j, a)
    BY <1>2, <1>5 DEF Moved, Wrote
  <2>. QED
    BY <2>1, Terms DEF Stores, Covers
<1>. QED
  BY <1>3, <1>4, <1>5, Zenon DEF BlockMoved

\* CMPS and SCAS.
LEMMA ScannedAll ==
    ASSUME IInv
    PROVE  ScanStops
<1>. SUFFICES ASSUME Block, S.op \in Compares PROVE ScanStops
  BY DEF ScanStops
<1>0. /\ IsStart(start) /\ IsInstruction(S) /\ S.op \in Strings /\ df \in BOOLEAN
      /\ zf \in BOOLEAN /\ start.reg \in Registers /\ start.reg[CX] \in Int
      /\ S.op = "cmps" \/ S.op = "scas"
  <2>1. IsStart(start) /\ zf \in BOOLEAN
    BY AtEnd DEF IInv, TypeInv
  <2>2. start.reg \in Registers /\ start.reg[CX] \in Words
    BY <2>1, Names DEF IsStart, Registers
  <2>. QED
    BY <2>1, <2>2, AtEnd, WordRange DEF Compares
<1>. DEFINE value(j) == IF S.op = "cmps" THEN Fetch(start.mem, S.w, SourceCell(j))
                        ELSE GetReg(start.reg, S.w, AX)
            same(j) == value(j) = Fetch(start.mem, S.w, TargetCell(j))
            stops(j) == S.rep = "none" \/ (S.rep = "repz" /\ ~same(j)) \/ (S.rep = "repnz" /\ same(j))
            first == CHOOSE j \in 0..(Count - 1) : stops(j) /\ \A k \in 0..(j - 1) : ~stops(k)
            done == IF \E j \in 0..(Count - 1) : stops(j) THEN 1 + first ELSE Count
<1>1. PICK n \in Nat : /\ n <= Num(start, S) /\ Halfway(start, S, df, reg, mem, zf, n)
                       /\ Ends(start, S, df, n)
  BY <1>0, AtEnd
<1>2. reg = RegsAt(start, S, df, n) /\ Scanned(start, S, df, mem, zf, n)
  BY <1>0, <1>1 DEF Halfway
<1>3. \A j : same(j) <=> Same(start, S, df, j)
  BY <1>0, Terms DEF Same, Value, Sources
<1>4. \A j : stops(j) <=> Stopping(start, S, df, j)
  <2>. HIDE DEF same
  <2>. QED
    BY <1>3, Zenon DEF Stopping
<1>5. Count = Num(start, S) /\ Num(start, S) \in Nat
  BY <1>0, <1>1, Terms, RegsType
<1>. HIDE DEF same, stops
<1>6. done = n
  <2>1. \A j \in 0..(n - 2) : ~stops(j)
    BY <1>2, <1>4 DEF Scanned
  <2>. DEFINE c == Count
  <2>2. c \in Nat /\ n <= c
    BY <1>1, <1>5
  <2>3. n = c \/ (n > 0 /\ stops(n - 1))
    BY <1>1, <1>4, <1>5 DEF Ends
  <2>. HIDE DEF c
  <2>4. CASE n > 0 /\ stops(n - 1)
    <3>1. n - 1 \in 0..(c - 1) /\ \A k \in 0..((n - 1) - 1) : ~stops(k)
      BY <2>1, <2>2, <2>4
    <3>2. \E j \in 0..(c - 1) : stops(j) /\ \A k \in 0..(j - 1) : ~stops(k)
      BY <2>4, <3>1
    <3>3. first \in 0..(c - 1) /\ stops(first) /\ \A k \in 0..(first - 1) : ~stops(k)
      BY <3>2, Zenon DEF c
    <3>. HIDE DEF first
    <3>4. ~(first < n - 1)
      BY <2>1, <3>3
    <3>5. ~(first > n - 1)
      <4>1. SUFFICES ASSUME first > n - 1 PROVE FALSE
        OBVIOUS
      <4>2. n - 1 \in 0..(first - 1)
        BY <2>4, <3>3, <4>1
      <4>. QED
        BY <2>4, <3>3, <4>2
    <3>6. 1 + first = n
      BY <3>3, <3>4, <3>5
    <3>7. \E j \in 0..(c - 1) : stops(j)
      BY <3>2
    <3>. QED
      BY <3>6, <3>7 DEF c
  <2>5. CASE ~(n > 0 /\ stops(n - 1))
    <3>1. n = c
      BY <2>3, <2>5
    <3>2. ASSUME NEW j \in 0..(c - 1) PROVE ~stops(j)
      <4>1. j \in 0..(n - 2) \/ (j = n - 1 /\ n > 0)
        BY <2>2, <3>1
      <4>. QED
        BY <2>1, <2>5, <4>1
    <3>. QED
      BY <3>1, <3>2 DEF c
  <2>. QED
    BY <2>4, <2>5
<1>7. mem = start.mem
  BY <1>2 DEF Scanned
<1>8. zf = (n > 0 /\ same(n - 1))
  <2>1. zf <=> (n > 0 /\ same(n - 1))
    BY <1>2, <1>3, Zenon DEF Scanned, Matched
  <2>2. (n > 0 /\ same(n - 1)) \in BOOLEAN
    BY Zenon
  <2>. QED
    BY <1>0, <2>1, <2>2, Zenon
<1>9. reg = [start.reg EXCEPT
                ![SI] = IF S.op = "scas" THEN @ ELSE After(SI, n),
                ![DI] = After(DI, n),
                ![CX] = IF S.rep = "none" THEN @ ELSE Count - n]
  <2>. DEFINE si == IF S.op = "scas" THEN start.reg[SI] ELSE After(SI, n)
              di == After(DI, n)
              cx == IF S.rep = "none" THEN start.reg[CX] ELSE Count - n
  <2>1. After(SI, n) = Idx(start.reg[SI], n, S.w, df)
        /\ After(DI, n) = Idx(start.reg[DI], n, S.w, df)
    BY Terms
  <2>2. S.rep # "none" => Count = start.reg[CX]
    BY DEF Count
  <2>3. /\ si = IF S.op \in Sources THEN Idx(start.reg[SI], n, S.w, df) ELSE start.reg[SI]
        /\ di = IF S.op \in Targets THEN Idx(start.reg[DI], n, S.w, df) ELSE start.reg[DI]
        /\ cx = IF S.rep = "none" THEN start.reg[CX] ELSE start.reg[CX] - n
        /\ S.op # "lods"
    BY <1>0, <2>1, <2>2 DEF Sources, Targets
  <2>. HIDE DEF si, di, cx
  <2>4. \A last : (S.op = "lods" /\ n > 0) => last = Value(start, S, df, n - 1)
    BY <2>3
  <2>5. RegsAt(start, S, df, n) = Put(start.reg, si, di, cx)
    BY <1>0, <1>1, <2>3, LastRegs
  <2>6. reg = [start.reg EXCEPT ![SI] = si, ![DI] = di, ![CX] = cx]
    BY <1>2, <2>5 DEF Put
  <2>. QED
    BY <1>0, <2>6, Names DEF si, di, cx, Registers
<1>. HIDE DEF done
<1>10. /\ mem = start.mem
       /\ zf = (done > 0 /\ same(done - 1))
       /\ reg = [start.reg EXCEPT
              ![SI] = IF S.op = "scas" THEN @ ELSE After(SI, done),
              ![DI] = After(DI, done),
              ![CX] = IF S.rep = "none" THEN @ ELSE Count - done]
  BY <1>6, <1>7, <1>8, <1>9
<1>. QED
  BY <1>10, Zenon DEF ScanStops, done, first, stops, same

\* MOVS, STOS and LODS, repeated or not, have the effect of the loop they abbreviate,
\* for every width, count, direction and place of the blocks (shovel.c).
THEOREM BlockCorrect == Spec => []BlockMoved
<1>1. IInv => BlockMoved
  BY MovedAll
<1>. QED
  BY <1>1, BlockInvariant, PTL

\* CMPS and SCAS, repeated or not, stop where the first element that ends the
\* repetition is, and the registers and ZF say so (shovel.c).
THEOREM ScanCorrect == Spec => []ScanStops
<1>1. IInv => ScanStops
  BY ScannedAll
<1>. QED
  BY <1>1, BlockInvariant, PTL

-----------------------------------------------------------------------------
(***************************************************************************)
(* Values of either width in registers and memory.                         *)
(***************************************************************************)
\* The bytes of a word put together from two.
LEMMA ByteParts ==
    ASSUME NEW x \in Bytes, NEW y \in Bytes
    PROVE  /\ ((Byte * y) + x) % Byte = x /\ ((Byte * y) + x) \div Byte = y
           /\ x % Byte = x
<1>1. x \in Int /\ y \in Int /\ 0 <= x /\ x < Byte /\ Byte \in Nat /\ Byte >= 2
  BY ByteRange, ByteFacts
<1>. QED
  BY <1>1

\* Storing a byte in a register changes that byte alone.
LEMMA ByteSet ==
    ASSUME NEW r \in Registers, NEW k \in 0..7, NEW v \in Bytes
    PROVE  /\ \A j \in 0..7 : ByteReg(WithByteReg(r, k, v), j) = IF j = k THEN v ELSE ByteReg(r, j)
           /\ \A j \in 0..7 : j # k /\ j + 4 # k => WithByteReg(r, k, v)[j] = r[j]
           /\ \A j \in 4..7 : WithByteReg(r, k, v)[j] = r[j]
<1>. DEFINE q == WithByteReg(r, k, v)
<1>0. \A j \in 0..7 : r[j] \in Words
  BY DEF Registers
<1>1. CASE k < 4
  <2>. DEFINE x == r[k] % Byte
              y == r[k] \div Byte
              z == (r[k] - x) + v
  <2>1. x \in Bytes /\ y \in Bytes /\ (Byte * y) + x = r[k]
    BY <1>0, WordSplit
  <2>2. z = (Byte * y) + v
    <3>. DEFINE t == Byte * y
    <3>1. t \in Int /\ x \in Int /\ v \in Int /\ t + x = r[k]
      BY <2>1, ByteRange, ByteFacts
    <3>. HIDE DEF t, x
    <3>2. z = t + v
      BY <3>1
    <3>. QED
      BY <3>2 DEF t
  <2>3. z % Byte = v /\ z \div Byte = y
    BY <2>1, <2>2, ByteParts
  <2>4. q = [r EXCEPT ![k] = z]
    BY <1>1, Zenon DEF WithByteReg
  <2>. HIDE DEF z, x
  <2>5. q[k] = z /\ \A j \in 0..7 : j # k => q[j] = r[j]
    BY <2>4 DEF Registers
  <2>. HIDE DEF q
  <2>6. ASSUME NEW j \in 0..7 PROVE ByteReg(q, j) = IF j = k THEN v ELSE ByteReg(r, j)
    <3>1. CASE j < 4
      BY <1>1, <2>3, <2>5, <3>1 DEF ByteReg
    <3>2. CASE ~(j < 4)
      <4>1. j - 4 \in 0..7 /\ ByteReg(q, j) = q[j - 4] \div Byte
            /\ ByteReg(r, j) = r[j - 4] \div Byte /\ j # k
        BY <1>1, <3>2 DEF ByteReg
      <4>2. q[j - 4] \div Byte = r[j - 4] \div Byte
        BY <2>3, <2>5, <4>1 DEF y
      <4>. QED
        BY <4>1, <4>2
    <3>. QED
      BY <3>1, <3>2
  <2>. QED
    BY <1>1, <2>5, <2>6 DEF q
<1>2. CASE ~(k < 4)
  <2>. DEFINE i == k - 4
  <2>0. i \in 0..3
    BY <1>2
  <2>. DEFINE x == r[i] % Byte
              y == r[i] \div Byte
              z == (v * Byte) + x
  <2>1. x \in Bytes /\ y \in Bytes /\ (Byte * y) + x = r[i]
    BY <1>0, <2>0, WordSplit
  <2>2. z = (Byte * v) + x
    BY ByteRange, ByteFacts
  <2>3. z % Byte = x /\ z \div Byte = v
    BY <2>1, <2>2, ByteParts
  <2>4. q = [r EXCEPT ![i] = z]
    BY <1>2, Zenon DEF WithByteReg
  <2>. HIDE DEF z, i
  <2>5. q[i] = z /\ \A j \in 0..7 : j # i => q[j] = r[j]
    BY <2>0, <2>4 DEF Registers
  <2>. HIDE DEF q
  <2>6. ASSUME NEW j \in 0..7 PROVE ByteReg(q, j) = IF j = k THEN v ELSE ByteReg(r, j)
    <3>1. CASE j < 4
      BY <1>2, <2>3, <2>5, <3>1 DEF ByteReg
    <3>2. CASE ~(j < 4)
      <4>1. j - 4 \in 0..7 /\ ByteReg(q, j) = q[j - 4] \div Byte
            /\ ByteReg(r, j) = r[j - 4] \div Byte /\ (j = k <=> j - 4 = i)
        BY <3>2 DEF ByteReg, i
      <4>2. j - 4 = i => q[j - 4] \div Byte = v
        BY <2>3, <2>5
      <4>3. j - 4 # i => q[j - 4] = r[j - 4]
        BY <2>5, <4>1
      <4>. QED
        BY <4>1, <4>2, <4>3
    <3>. QED
      BY <3>1, <3>2
  <2>. QED
    BY <2>0, <2>5, <2>6 DEF q, i
<1>. QED
  BY <1>1, <1>2

\* q is r with v in register k,
SetTo(q, r, w, k, v) ==
    /\ q \in Registers
    /\ \A j \in 0..7 : GetReg(q, w, j) = IF j = k THEN v ELSE GetReg(r, w, j)
    /\ ~w => \A j \in 4..7 : q[j] = r[j]

\* or with registers a and b exchanged.
Swapped(q, r, w, a, b) ==
    /\ q \in Registers
    /\ \A j \in 0..7 : GetReg(q, w, j) = IF j = b THEN GetReg(r, w, a)
                                        ELSE IF j = a THEN GetReg(r, w, b) ELSE GetReg(r, w, j)
    /\ ~w => \A j \in 4..7 : q[j] = r[j]

\* A value stored is what is read, and nothing else changes.
LEMMA GetSet ==
    ASSUME NEW r \in Registers, NEW w \in BOOLEAN, NEW k \in 0..7, NEW v, Fits(w, v)
    PROVE  SetTo(SetReg(r, w, k, v), r, w, k, v)
<1>0. SetReg(r, w, k, v) \in Registers
  BY SetRegType
<1>1. CASE w
  BY <1>0, <1>1 DEF SetTo, GetReg, SetReg, Registers
<1>2. CASE ~w
  <2>1. v \in Bytes
    BY <1>2 DEF Fits
  <2>2. SetReg(r, w, k, v) = WithByteReg(r, k, v)
    BY <1>2 DEF SetReg
  <2>. QED
    BY <1>0, <1>2, <2>1, <2>2, ByteSet DEF GetReg, SetTo
<1>. QED
  BY <1>1, <1>2

\* Registers that read the same are the same.
LEMMA RegEqual ==
    ASSUME NEW r \in Registers, NEW q \in Registers, NEW w \in BOOLEAN,
           \A j \in 0..7 : GetReg(r, w, j) = GetReg(q, w, j),
           ~w => \A j \in 4..7 : r[j] = q[j]
    PROVE  r = q
<1>1. ASSUME NEW j \in 0..7 PROVE r[j] = q[j]
  <2>1. CASE w
    BY <2>1 DEF GetReg
  <2>2. CASE ~w /\ j \in 4..7
    BY <2>2
  <2>3. CASE ~w /\ j \in 0..3
    <3>1. j + 4 \in 0..7 /\ (j + 4) - 4 = j /\ ~(j + 4 < 4) /\ j < 4
      BY <2>3
    <3>2. ByteReg(r, j) = ByteReg(q, j) /\ ByteReg(r, j + 4) = ByteReg(q, j + 4)
      BY <2>3, <3>1 DEF GetReg
    <3>3. r[j] % Byte = q[j] % Byte
      BY <3>1, <3>2 DEF ByteReg
    <3>4. r[j] \div Byte = q[j] \div Byte
      BY <3>1, <3>2 DEF ByteReg
    <3>5. r[j] \in Words /\ q[j] \in Words
      BY DEF Registers
    <3>6. /\ (Byte * (r[j] \div Byte)) + (r[j] % Byte) = r[j]
          /\ (Byte * (q[j] \div Byte)) + (q[j] % Byte) = q[j]
      BY <3>5, WordSplit
    <3>. QED
      BY <3>3, <3>4, <3>6
  <2>. QED
    BY <2>1, <2>2, <2>3
<1>. QED
  BY <1>1 DEF Registers

\* The largest value less one that fits fits.
LEMMA NotFits ==
    ASSUME NEW w \in BOOLEAN, NEW v, Fits(w, v)
    PROVE  /\ Fits(w, (IF w THEN Word ELSE Byte) - 1 - v)
           /\ (IF w THEN Word ELSE Byte) - 1 - ((IF w THEN Word ELSE Byte) - 1 - v) = v
<1>1. v \in Int /\ 0 <= v /\ v < Word /\ (~w => v < Byte) /\ Word \in Nat /\ Byte \in Nat
      /\ Byte < Word
  BY WordRange, ByteRange, WordFacts, ByteFacts DEF Fits
<1>. QED
  BY <1>1, WordRange, ByteRange DEF Fits

\* Storing a value and then what was there.
LEMMA SetBack ==
    ASSUME NEW r \in Registers, NEW w \in BOOLEAN, NEW k \in 0..7, NEW v, Fits(w, v)
    PROVE  SetReg(SetReg(r, w, k, v), w, k, GetReg(r, w, k)) = r
<1>. DEFINE q == SetReg(r, w, k, v)
            old == GetReg(r, w, k)
            p == SetReg(q, w, k, old)
<1>1. Fits(w, old) /\ SetTo(q, r, w, k, v)
  BY GetRegFits, GetSet
<1>2. q \in Registers
  BY <1>1 DEF SetTo
<1>3. SetTo(p, q, w, k, old)
  <2>. HIDE DEF q, old
  <2>. QED
    BY <1>1, <1>2, GetSet
<1>. HIDE DEF p, q
<1>4. /\ p \in Registers
      /\ \A j \in 0..7 : GetReg(p, w, j) = GetReg(r, w, j)
      /\ ~w => \A j \in 4..7 : p[j] = r[j]
  BY <1>1, <1>3 DEF SetTo
<1>5. p = r
  BY <1>4, RegEqual
<1>. QED
  BY <1>5 DEF p, q

\* Two registers exchanged.
Exchanged(r, w, a, b) == SetReg(SetReg(r, w, a, GetReg(r, w, b)), w, b, GetReg(r, w, a))

\* It exchanges them, halves of the same register or not,
LEMMA ExchangedLaw ==
    ASSUME NEW r \in Registers, NEW w \in BOOLEAN, NEW a \in 0..7, NEW b \in 0..7
    PROVE  Swapped(Exchanged(r, w, a, b), r, w, a, b)
<1>. DEFINE x == GetReg(r, w, a)
            y == GetReg(r, w, b)
            q == SetReg(r, w, a, y)
            p == SetReg(q, w, b, x)
<1>1. Fits(w, x) /\ Fits(w, y)
  BY GetRegFits
<1>2. SetTo(q, r, w, a, y)
  <2>. HIDE DEF x, y
  <2>. QED
    BY <1>1, GetSet
<1>3. q \in Registers
  BY <1>2 DEF SetTo
<1>4. SetTo(p, q, w, b, x)
  <2>. HIDE DEF x, y, q
  <2>. QED
    BY <1>1, <1>3, GetSet
<1>5. Exchanged(r, w, a, b) = p
  BY DEF Exchanged
<1>. HIDE DEF p, q
<1>. QED
  BY <1>2, <1>4, <1>5 DEF SetTo, Swapped

\* and done twice it changes nothing.
LEMMA ExchangedTwice ==
    ASSUME NEW r \in Registers, NEW w \in BOOLEAN, NEW a \in 0..7, NEW b \in 0..7
    PROVE  Exchanged(Exchanged(r, w, a, b), w, a, b) = r
<1>. DEFINE q == Exchanged(r, w, a, b)
            p == Exchanged(q, w, a, b)
<1>1. Swapped(q, r, w, a, b)
  BY ExchangedLaw
<1>. HIDE DEF q
<1>2. q \in Registers
  BY <1>1 DEF Swapped
<1>3. Swapped(p, q, w, a, b)
  BY <1>2, ExchangedLaw
<1>. HIDE DEF p
<1>4. /\ p \in Registers
      /\ \A j \in 0..7 : GetReg(p, w, j) = GetReg(r, w, j)
      /\ ~w => \A j \in 4..7 : p[j] = r[j]
  BY <1>1, <1>3 DEF Swapped
<1>5. p = r
  BY <1>4, RegEqual
<1>. QED
  BY <1>5 DEF p, q

\* The registers memory is addressed by.
AddressRegisters == {BX, BP, SI, DI}

\* A register that is none of them, or half of one, leaves them alone.
LEMMA KeepsAddress ==
    ASSUME NEW r \in Registers, NEW w \in BOOLEAN, NEW k \in 0..7, ~AddressReg(w, k),
           NEW v, Fits(w, v), NEW j \in AddressRegisters
    PROVE  SetReg(r, w, k, v)[j] = r[j]
<1>0. j \in 0..7 /\ j \in {3, 5, 6, 7}
  BY DEF AddressRegisters, BX, BP, SI, DI
<1>1. CASE w
  <2>1. j # k
    BY <1>1 DEF AddressReg, AddressRegisters
  <2>. QED
    BY <1>0, <1>1, <2>1 DEF SetReg, Registers
<1>2. CASE ~w
  <2>1. SetReg(r, w, k, v) = WithByteReg(r, k, v) /\ v \in Bytes
    BY <1>2 DEF SetReg, Fits
  <2>2. CASE j \in 4..7
    BY <2>1, <2>2, ByteSet
  <2>3. CASE j \notin 4..7
    <3>1. j = 3 /\ k # 3 /\ k # 7
      BY <1>0, <1>2, <2>3 DEF AddressReg, BX
    <3>. QED
      BY <1>0, <2>1, <3>1, ByteSet
  <2>. QED
    BY <2>2, <2>3
<1>. QED
  BY <1>1, <1>2

\* What is written, cell by cell,
LEMMA WriteCell ==
    ASSUME NEW m \in Memories, NEW w \in BOOLEAN, NEW a \in Cells, NEW v, Fits(w, v),
           NEW c \in Cells
    PROVE  Write(m, w, a, v)[c] =
              IF c - a \in 0..(Width(w) - 1) THEN ByteOf(v, c - a) ELSE m[c]
<1>0. a \in Int /\ c \in Int
  BY DEF Cells
<1>1. CASE c - a \notin 0..(Width(w) - 1)
  BY <1>1, WriteElse
<1>2. CASE c - a \in 0..(Width(w) - 1) /\ w
  <2>1. c = a \/ c = a + 1
    BY <1>0, <1>2 DEF Width
  <2>2. Write(m, w, a, v) = [m EXCEPT ![a] = v % Byte, ![a + 1] = v \div Byte]
    BY <1>2 DEF Write
  <2>3. c = a => c - a = 0 /\ Write(m, w, a, v)[c] = v % Byte
    BY <1>0, <2>2 DEF Memories
  <2>4. c = a + 1 => c - a = 1 /\ Write(m, w, a, v)[c] = v \div Byte
    BY <1>0, <2>2 DEF Memories
  <2>5. ByteOf(v, 0) = v % Byte /\ ByteOf(v, 1) = v \div Byte
    BY DEF ByteOf
  <2>. QED
    BY <1>2, <2>1, <2>3, <2>4, <2>5
<1>3. CASE c - a \in 0..(Width(w) - 1) /\ ~w
  <2>1. c = a /\ c - a = 0
    BY <1>0, <1>3 DEF Width
  <2>2. Write(m, w, a, v)[c] = v /\ v \in Bytes
    BY <1>3, <2>1 DEF Write, Memories, Fits
  <2>3. v % Byte = v
    BY <2>2, ByteParts
  <2>. QED
    BY <1>3, <2>1, <2>2, <2>3 DEF ByteOf
<1>. QED
  BY <1>1, <1>2, <1>3

\* and what is read, byte by byte.
LEMMA FetchByte ==
    ASSUME NEW m \in Memories, NEW w \in BOOLEAN, NEW a \in Cells, a + 1 \in Cells,
           NEW k \in 0..(Width(w) - 1)
    PROVE  ByteOf(Fetch(m, w, a), k) = m[a + k] /\ a + k \in Cells
<1>0. a \in Int /\ a + 0 = a /\ m[a] \in Bytes /\ m[a + 1] \in Bytes
  BY DEF Cells, Memories
<1>1. CASE w
  <2>1. k = 0 \/ k = 1
    BY <1>1 DEF Width
  <2>2. Fetch(m, w, a) = (Byte * m[a + 1]) + m[a]
    BY <1>0, <1>1, ByteRange, ByteFacts DEF Fetch
  <2>3. Fetch(m, w, a) % Byte = m[a] /\ Fetch(m, w, a) \div Byte = m[a + 1]
    BY <1>0, <2>2, ByteParts
  <2>. QED
    BY <1>0, <2>1, <2>3 DEF ByteOf
<1>2. CASE ~w
  <2>1. k = 0
    BY <1>2 DEF Width
  <2>2. Fetch(m, w, a) = m[a] /\ m[a] % Byte = m[a]
    BY <1>0, <1>2, ByteParts DEF Fetch
  <2>. QED
    BY <1>0, <2>1, <2>2 DEF ByteOf
<1>. QED
  BY <1>1, <1>2

\* Memories with the same bytes are the same.
LEMMA MemEqual ==
    ASSUME NEW m \in Memories, NEW o \in Memories, \A c \in Cells : m[c] = o[c]
    PROVE  m = o
  BY DEF Memories

\* Writing a value and then what was there.
LEMMA WriteBack ==
    ASSUME NEW m \in Memories, NEW w \in BOOLEAN, NEW a \in Cells, a + 1 \in Cells,
           NEW v, Fits(w, v)
    PROVE  Write(Write(m, w, a, v), w, a, Fetch(m, w, a)) = m
<1>. DEFINE o == Write(m, w, a, v)
            x == Fetch(m, w, a)
            p == Write(o, w, a, x)
<1>1. o \in Memories /\ Fits(w, x)
  BY WriteType, FetchFits
<1>2. p \in Memories
  BY <1>1, WriteType
<1>3. ASSUME NEW c \in Cells PROVE p[c] = m[c]
  <2>. HIDE DEF o, x
  <2>1. p[c] = IF c - a \in 0..(Width(w) - 1) THEN ByteOf(x, c - a) ELSE o[c]
    BY <1>1, WriteCell
  <2>2. c - a \notin 0..(Width(w) - 1) => o[c] = m[c]
    BY WriteElse DEF o
  <2>3. c - a \in 0..(Width(w) - 1) => ByteOf(x, c - a) = m[a + (c - a)]
    BY FetchByte DEF x
  <2>4. a + (c - a) = c
    BY DEF Cells
  <2>. QED
    BY <2>1, <2>2, <2>3, <2>4
<1>. HIDE DEF p
<1>4. p = m
  BY <1>2, <1>3, MemEqual
<1>. QED
  BY <1>4 DEF p

-----------------------------------------------------------------------------
(***************************************************************************)
(* Instructions done and undone: the programs of RoundTrips.               *)
(***************************************************************************)
\* Each instruction is executed by its handler.
LEMMA Executes ==
    ASSUME Next
    PROVE  /\ prog' = prog /\ start' = start /\ pc <= Len(prog.code)
           /\ I.op = "mov" => Exec_mov
           /\ I.op = "movseg" => Exec_mov_sreg
           /\ I.op = "moffs" => Exec_mov_moffs
           /\ I.op = "movi" => Exec_mov_imm
           /\ I.op = "groupC6" => Exec_groupC6
           /\ I.op = "lea" => Exec_lea
           /\ I.op \in {"les", "lds"} => Exec_les
           /\ I.op = "xchg" => Exec_xchg
           /\ I.op = "not" => Exec_groupF6
           /\ I.op = "push" => Exec_groupFE
           /\ I.op = "pop" => Exec_group8F
           /\ I.op \in {"pushr", "pushs"} => Exec_push
           /\ I.op \in {"popr", "pops"} => Exec_pop
  BY DEF Next, Operand, Exec_mov, Exec_mov_sreg, Exec_mov_moffs, Exec_mov_imm, Exec_groupC6,
     Exec_lea, Exec_les, Exec_xchg, Exec_groupF6, Exec_groupFE, Exec_group8F, Exec_push, Exec_pop,
     Exec_clx, Exec_shovel, At, Strings

\* Instructions with the same operand.
SameOperand(i, j) ==
    i.w = j.w /\ i.mod = j.mod /\ i.rm = j.rm /\ i.disp = j.disp /\ i.over = j.over

\* The operand stays where it is while the registers that address memory do.
LEMMA CellSteady ==
    ASSUME SameOperand(I', I), seg' = seg, \A j \in AddressRegisters : reg'[j] = reg[j]
    PROVE  Cell' = Cell /\ (InReg' <=> InReg)
<1>1. reg'[BX] = reg[BX] /\ reg'[BP] = reg[BP] /\ reg'[SI] = reg[SI] /\ reg'[DI] = reg[DI]
  BY DEF AddressRegisters
<1>2. Base' = Base
  BY <1>1 DEF Base, SameOperand
<1>3. Displacement' = Displacement
  BY DEF Displacement, SameOperand
<1>4. Offset' = Offset
  BY <1>2, <1>3 DEF Offset
<1>5. SegOf' = SegOf
  BY DEF SegOf, SameOperand
<1>. QED
  BY <1>4, <1>5 DEF Cell, InReg, SameOperand

\* A ModR/M operand in memory.
LEMMA OperandCells ==
    ASSUME TypeInv, IsInstruction(I), ~InReg
    PROVE  Cell \in Cells /\ \A j \in 0..3 : Cell + j \in Cells
  BY OffsetWord, SegWord, CellOf DEF Cell

\* The stack after a push.
Below == (start.reg[SP] + Word - 2) % Word
Top   == Linear(start.seg["SS"], Below)

AfterPush(v) ==
    /\ seg = start.seg /\ reg = [start.reg EXCEPT ![SP] = Below]
    /\ mem = Write(start.mem, TRUE, Top, v)

\* The word below the stack lies in memory, and SP comes back from it.
LEMMA StackBelow ==
    ASSUME IsStart(start)
    PROVE  /\ Below \in Words /\ (Below + 2) % Word = start.reg[SP] /\ start.reg[SP] \in Words
           /\ Top \in Cells /\ Top + 1 \in Cells
           /\ \A c \in Cells : c - Top \in 0..1 => c \in BelowStack
<1>1. start.reg[SP] \in Words /\ start.seg["SS"] \in Words
  BY Names DEF IsStart, Registers, Places, Segments
<1>. DEFINE x == start.reg[SP]
<1>2. x \in Int /\ x \in Words /\ Word \in Int /\ 0 <= x /\ x < Word
  BY <1>1, WordRange, WordFacts
<1>3. Below \in Words
  BY <1>2, ModWord DEF Below
<1>4. (Below + 2) % Word = x
  <2>. HIDE DEF x
  <2>0. x + Word - 2 \in Int
    BY <1>2
  <2>1. (((x + Word - 2) % Word) + 2) % Word = ((x + Word - 2) + 2) % Word
    BY <2>0, ModSum
  <2>2. (x + Word - 2) + 2 = (1 * Word) + x /\ (x + Word - 2) + 2 \in Int
    BY <1>2
  <2>3. ((x + Word - 2) + 2) % Word = x
    BY <1>2, <2>2, ModUnique
  <2>. QED
    BY <2>1, <2>3 DEF Below, x
<1>5. Top \in Cells /\ Top + 1 \in Cells
  BY <1>1, <1>3, CellOf DEF Top
<1>6. \A c \in Cells : c - Top \in 0..1 => c \in BelowStack
  <2>1. BelowStack = { Top + k : k \in 0..1 }
    BY DEF BelowStack, Top, Below
  <2>2. Top \in Int /\ \A c \in Cells : c \in Int
    BY <1>5 DEF Cells
  <2>. HIDE DEF Top
  <2>3. \A c \in Cells : c = Top + (c - Top)
    BY <2>2
  <2>. QED
    BY <2>1, <2>3
<1>. QED
  BY <1>1, <1>3, <1>4, <1>5, <1>6

\* What a push leaves is popped, and SP is as before.
LEMMA PopsIt ==
    ASSUME IsStart(start), NEW v, v \in Words, AfterPush(v)
    PROVE  /\ Fetch(mem, TRUE, Linear(seg["SS"], reg[SP])) = v
           /\ [reg EXCEPT ![SP] = (@ + 2) % Word] = start.reg
           /\ \A c \in Cells : mem[c] = start.mem[c] \/ c \in BelowStack
           /\ mem \in Memories
<1>0. start.reg \in Registers /\ start.mem \in Memories /\ Fits(TRUE, v) /\ SP \in 0..7
  BY Names DEF IsStart, Fits
<1>1. reg[SP] = Below /\ seg["SS"] = start.seg["SS"]
  BY <1>0 DEF AfterPush, Registers
<1>2. Linear(seg["SS"], reg[SP]) = Top /\ mem = Write(start.mem, TRUE, Top, v)
  BY <1>1 DEF Top, AfterPush
<1>3. Fetch(mem, TRUE, Top) = v
  BY <1>0, <1>2, StackBelow, WriteRead
<1>4. [reg EXCEPT ![SP] = (@ + 2) % Word] = start.reg
  BY <1>0, <1>1, StackBelow DEF AfterPush, Registers
<1>5. ASSUME NEW c \in Cells, c \notin BelowStack PROVE mem[c] = start.mem[c]
  <2>1. c - Top \notin 0..1
    BY <1>5, StackBelow
  <2>2. Width(TRUE) - 1 = 1
    BY DEF Width
  <2>3. c - Top \notin 0..(Width(TRUE) - 1)
    BY <2>1, <2>2
  <2>4. \A w \in BOOLEAN : c - Top \notin 0..(Width(w) - 1) =>
            Write(start.mem, w, Top, v)[c] = start.mem[c]
    BY <1>0, StackBelow, WriteElse
  <2>5. TRUE \in BOOLEAN
    OBVIOUS
  <2>6. Write(start.mem, TRUE, Top, v)[c] = start.mem[c]
    BY <2>3, <2>4, <2>5, Zenon
  <2>. QED
    BY <1>2, <2>6
<1>6. mem \in Memories
  BY <1>0, <1>2, WriteType
<1>. QED
  BY <1>2, <1>3, <1>4, <1>5, <1>6

\* A push of v from the initial state.
LEMMA PushesIt ==
    ASSUME NEW v, reg = start.reg, seg = start.seg, mem = start.mem, start' = start, seg' = seg,
           reg' = [reg EXCEPT ![SP] = Pushed],
           mem' = Write(mem, TRUE, Linear(seg["SS"], Pushed), v)
    PROVE  /\ seg' = start'.seg /\ reg' = [start'.reg EXCEPT ![SP] = Below']
           /\ mem' = Write(start'.mem, TRUE, Top', v)
<1>1. Pushed = Below /\ Below' = Below /\ Top' = Top
  BY DEF Pushed, Below, Top
<1>. QED
  BY <1>1 DEF Top

\* A program of kind "twice".
First == prog.code[1]

\* What the first of two instructions leaves, i being the one at hand.
Complemented ==
    LET i == First
        all == (IF i.w THEN Word ELSE Byte) - 1
    IN  IF InReg
        THEN /\ mem = start.mem
             /\ reg = SetReg(start.reg, i.w, i.rm, all - GetReg(start.reg, i.w, i.rm))
        ELSE /\ reg = start.reg
             /\ mem = Write(start.mem, i.w, Cell, all - Fetch(start.mem, i.w, Cell))

Traded ==
    LET i == First
    IN  IF InReg THEN mem = start.mem /\ reg = Exchanged(start.reg, i.w, i.reg, i.rm)
        ELSE /\ reg = SetReg(start.reg, i.w, i.reg, Fetch(start.mem, i.w, Cell))
             /\ mem = Write(start.mem, i.w, Cell, GetReg(start.reg, i.w, i.reg))

PushedOperand ==
    AfterPush(IF InReg THEN start.reg[First.rm] ELSE Fetch(start.mem, TRUE, Cell))

TwiceInv ==
    prog.kind = "twice" =>
        /\ seg = start.seg
        /\ pc = 1 => reg = start.reg /\ mem = start.mem
        /\ pc = 2 => /\ First.op = "not" => Complemented
                     /\ First.op = "xchg" => Traded
                     /\ First.op = "push" => PushedOperand
        /\ pc = 3 => /\ reg = start.reg
                     /\ \A a \in Cells :
                           mem[a] = start.mem[a] \/ (a \in BelowStack /\ First.op = "push")

\* The two instructions.
LEMMA TwiceCode ==
    ASSUME TypeInv, prog.kind = "twice"
    PROVE  /\ Len(prog.code) = 2 /\ pc \in 1..3 /\ Undoes(prog.code[2], First)
           /\ SameOperand(prog.code[2], First) /\ prog.code[2].reg = First.reg
           /\ IsInstruction(First) /\ IsInstruction(prog.code[2])
<1>1. Len(prog.code) = 2 /\ Undoes(prog.code[2], First)
  BY KindsAssumption DEF TypeInv, First
<1>2. 1 \in 1..Len(prog.code) /\ 2 \in 1..Len(prog.code) /\ pc \in 1..3
  BY <1>1 DEF TypeInv
<1>3. IsInstruction(First) /\ IsInstruction(prog.code[2])
  BY <1>2, CodeType DEF TypeInv, First
<1>4. First \in Instructions
  BY <1>2, ProgramAssumption DEF TypeInv, First
<1>5. SameOperand(prog.code[2], First) /\ prog.code[2].reg = First.reg
  BY <1>1, <1>4 DEF Undoes, SameOperand, Instructions
<1>. QED
  BY <1>1, <1>2, <1>3, <1>5

\* The first of them.
LEMMA TwiceFirst ==
    ASSUME TypeInv, TwiceInv, prog.kind = "twice", pc = 1, Next
    PROVE  TwiceInv'
<1>. DEFINE i == First
<1>0. /\ prog' = prog /\ start' = start /\ seg = start.seg /\ reg = start.reg /\ mem = start.mem
      /\ I = i /\ First' = First /\ (pc' = 2 => I' = prog.code[2])
  BY Executes DEF TwiceInv, I, First
<1>1. /\ i.op \in {"not", "xchg", "push"} /\ (i.op = "push" => i.w)
      /\ i.op = "xchg" => (InMemory(i) => ~AddressReg(i.w, i.reg))
      /\ IsInstruction(i) /\ i.w \in BOOLEAN /\ i.reg \in 0..7 /\ i.rm \in 0..7
  BY TwiceCode DEF Undoes, IsInstruction
<1>2. /\ reg \in Registers /\ mem \in Memories /\ Fits(i.w, RM)
      /\ ~InReg => Cell \in Cells /\ \A j \in 0..3 : Cell + j \in Cells
  BY <1>0, <1>1, RMFits, OperandCells DEF TypeInv
<1>3. /\ InReg => RM = GetReg(reg, i.w, i.rm)
      /\ ~InReg => RM = Fetch(mem, i.w, Cell)
  BY <1>0 DEF RM
<1>4. /\ i.op = "not" => Exec_groupF6
      /\ i.op = "xchg" => Exec_xchg
      /\ i.op = "push" => Exec_groupFE
  BY <1>0, Executes
<1>5. pc' = 2 /\ seg' = seg
  <2>1. Retires /\ UNCHANGED seg
    BY <1>1, <1>4, Zenon DEF Exec_groupF6, Exec_xchg, Exec_groupFE
  <2>. QED
    BY <2>1 DEF Retires
<1>6. SameOperand(I', I)
  BY <1>0, <1>5, TwiceCode
<1>7. (\A j \in AddressRegisters : reg'[j] = reg[j]) => Cell' = Cell /\ (InReg' <=> InReg)
  BY <1>5, <1>6, CellSteady
<1>8. InReg' <=> InReg
  BY <1>6 DEF InReg, SameOperand
<1>9. i.op = "not" => Complemented'
  <2>. SUFFICES ASSUME i.op = "not" PROVE Complemented'
    OBVIOUS
  <2>. DEFINE all == (IF i.w THEN Word ELSE Byte) - 1
  <2>1. StoresRM(all - RM)
    BY <1>0, <1>4 DEF Exec_groupF6
  <2>2. CASE InReg
    <3>1. reg' = SetReg(reg, i.w, i.rm, all - RM) /\ mem' = mem
      BY <1>0, <2>1, <2>2 DEF StoresRM
    <3>. QED
      BY <1>0, <1>3, <1>8, <2>2, <3>1 DEF Complemented
  <2>3. CASE ~InReg
    <3>1. reg' = reg /\ mem' = Write(mem, i.w, Cell, all - RM)
      BY <1>0, <2>1, <2>3 DEF StoresRM
    <3>. QED
      BY <1>0, <1>3, <1>7, <1>8, <2>3, <3>1 DEF Complemented
  <2>. QED
    BY <2>2, <2>3
<1>10. i.op = "xchg" => Traded'
  <2>. SUFFICES ASSUME i.op = "xchg" PROVE Traded'
    OBVIOUS
  <2>1. CASE InReg
    <3>1. /\ reg' = SetReg(SetReg(reg, i.w, i.reg, RM), i.w, i.rm, GetReg(reg, i.w, i.reg))
          /\ mem' = mem
      BY <1>0, <1>4, <2>1 DEF Exec_xchg
    <3>. QED
      BY <1>0, <1>3, <1>8, <2>1, <3>1 DEF Traded, Exchanged
  <2>2. CASE ~InReg
    <3>1. /\ reg' = SetReg(reg, i.w, i.reg, RM)
          /\ mem' = Write(mem, i.w, Cell, GetReg(reg, i.w, i.reg))
      BY <1>0, <1>4, <2>2 DEF Exec_xchg
    <3>2. ~AddressReg(i.w, i.reg)
      BY <1>0, <1>1, <2>2 DEF InMemory, InReg
    <3>3. \A j \in AddressRegisters : reg'[j] = reg[j]
      BY <1>1, <1>2, <3>1, <3>2, KeepsAddress
    <3>. QED
      BY <1>0, <1>3, <1>7, <2>2, <3>1, <3>3 DEF Traded
  <2>. QED
    BY <2>1, <2>2
<1>11. i.op = "push" => PushedOperand'
  <2>. SUFFICES ASSUME i.op = "push" PROVE PushedOperand'
    OBVIOUS
  <2>1. /\ reg' = [reg EXCEPT ![SP] = Pushed]
        /\ mem' = Write(mem, TRUE, Linear(seg["SS"], Pushed), RM)
    BY <1>4 DEF Exec_groupFE
  <2>2. \A j \in AddressRegisters : reg'[j] = reg[j]
    BY <1>2, <2>1 DEF Registers, AddressRegisters, SP, BX, BP, SI, DI
  <2>3. RM = IF InReg THEN start.reg[i.rm] ELSE Fetch(start.mem, TRUE, Cell)
    BY <1>0, <1>1, <1>3 DEF GetReg, Fetch
  <2>4. AfterPush(RM)'  <=> /\ seg' = start'.seg /\ reg' = [start'.reg EXCEPT ![SP] = Below']
                            /\ mem' = Write(start'.mem, TRUE, Top', RM')
    BY DEF AfterPush
  <2>. DEFINE v == IF InReg THEN start.reg[i.rm] ELSE Fetch(start.mem, TRUE, Cell)
  <2>5. /\ seg' = start'.seg /\ reg' = [start'.reg EXCEPT ![SP] = Below']
        /\ mem' = Write(start'.mem, TRUE, Top', v)
    BY <1>0, <1>5, <2>1, <2>3, PushesIt
  <2>6. v = (IF InReg THEN start.reg[First.rm] ELSE Fetch(start.mem, TRUE, Cell))'
    BY <1>0, <1>7, <1>8, <2>2
  <2>. QED
    BY <2>5, <2>6 DEF PushedOperand, AfterPush
<1>. QED
  BY <1>0, <1>5, <1>9, <1>10, <1>11 DEF TwiceInv

\* A complement of the complement, and an exchange of what was exchanged.
LEMMA NotNot ==
    ASSUME NEW w \in BOOLEAN,
           NEW r \in Registers, NEW k \in 0..7,
           NEW m \in Memories, NEW a \in Cells, a + 1 \in Cells,
           NEW all, all = (IF w THEN Word ELSE Byte) - 1,
           NEW q, q = SetReg(r, w, k, all - GetReg(r, w, k)),
           NEW o, o = Write(m, w, a, all - Fetch(m, w, a))
    PROVE  /\ SetReg(q, w, k, all - GetReg(q, w, k)) = r
           /\ Write(o, w, a, all - Fetch(o, w, a)) = m
<1>. DEFINE x == GetReg(r, w, k)
            y == Fetch(m, w, a)
            u == all - x
            v == all - y
<1>1. Fits(w, x) /\ Fits(w, y)
  BY GetRegFits, FetchFits
<1>2. Fits(w, u) /\ Fits(w, v) /\ all - u = x /\ all - v = y
  <2>. HIDE DEF x, y
  <2>. QED
    BY <1>1, NotFits
<1>3. q = SetReg(r, w, k, u) /\ o = Write(m, w, a, v)
  OBVIOUS
<1>. HIDE DEF u, v
<1>4. GetReg(q, w, k) = u
  <2>1. SetTo(q, r, w, k, u)
    BY <1>2, <1>3, GetSet
  <2>. QED
    BY <2>1 DEF SetTo
<1>5. Fetch(o, w, a) = v
  BY <1>2, <1>3, WriteRead
<1>6. SetReg(q, w, k, x) = r
  BY <1>2, <1>3, SetBack
<1>7. Write(o, w, a, y) = m
  BY <1>2, <1>3, WriteBack
<1>. QED
  BY <1>2, <1>4, <1>5, <1>6, <1>7

\* The same for an exchange of a register with memory.
LEMMA TradeTrade ==
    ASSUME NEW w \in BOOLEAN,
           NEW r \in Registers, NEW k \in 0..7,
           NEW m \in Memories, NEW a \in Cells, a + 1 \in Cells,
           NEW q, q = SetReg(r, w, k, Fetch(m, w, a)),
           NEW o, o = Write(m, w, a, GetReg(r, w, k))
    PROVE  /\ SetReg(q, w, k, Fetch(o, w, a)) = r
           /\ Write(o, w, a, GetReg(q, w, k)) = m
<1>. DEFINE x == GetReg(r, w, k)
            y == Fetch(m, w, a)
<1>1. Fits(w, x) /\ Fits(w, y)
  BY GetRegFits, FetchFits
<1>2. q = SetReg(r, w, k, y) /\ o = Write(m, w, a, x)
  OBVIOUS
<1>3. GetReg(q, w, k) = y /\ Fetch(o, w, a) = x
  <2>. HIDE DEF x, y
  <2>1. SetTo(q, r, w, k, y)
    BY <1>1, <1>2, GetSet
  <2>2. Fetch(o, w, a) = x
    BY <1>1, <1>2, WriteRead
  <2>. QED
    BY <2>1, <2>2 DEF SetTo
<1>4. SetReg(q, w, k, x) = r
  <2>1. SetReg(SetReg(r, w, k, y), w, k, GetReg(r, w, k)) = r
    <3>. HIDE DEF y
    <3>. QED
      BY <1>1, SetBack
  <2>. QED
    BY <1>2, <2>1
<1>5. Write(o, w, a, y) = m
  <2>1. Write(Write(m, w, a, x), w, a, Fetch(m, w, a)) = m
    <3>. HIDE DEF x
    <3>. QED
      BY <1>1, WriteBack
  <2>. QED
    BY <1>2, <2>1
<1>. QED
  BY <1>3, <1>4, <1>5

\* A word written where it was read, after other cells have changed.
LEMMA Restored ==
    ASSUME NEW m \in Memories, NEW o \in Memories, NEW a \in Cells, a + 1 \in Cells,
           NEW c \in Cells
    PROVE  \/ Write(o, TRUE, a, Fetch(m, TRUE, a))[c] = o[c]
           \/ Write(o, TRUE, a, Fetch(m, TRUE, a))[c] = m[c]
<1>1. SUFFICES ASSUME NEW w \in BOOLEAN, w
               PROVE  \/ Write(o, w, a, Fetch(m, w, a))[c] = o[c]
                      \/ Write(o, w, a, Fetch(m, w, a))[c] = m[c]
  <2>1. TRUE \in BOOLEAN
    OBVIOUS
  <2>. QED
    BY <1>1, <2>1, Zenon
<1>. DEFINE v == Fetch(m, w, a)
<1>2. Fits(w, v)
  BY FetchFits
<1>3. c - a \in 0..(Width(w) - 1) => ByteOf(v, c - a) = m[a + (c - a)]
  BY FetchByte
<1>4. a + (c - a) = c
  BY DEF Cells
<1>. HIDE DEF v
<1>5. Write(o, w, a, v)[c] = IF c - a \in 0..(Width(w) - 1) THEN ByteOf(v, c - a) ELSE o[c]
  BY <1>2, WriteCell
<1>. QED
  BY <1>3, <1>4, <1>5 DEF v

\* The second of two instructions.
LEMMA TwiceSecond ==
    ASSUME TypeInv, TwiceInv, prog.kind = "twice", pc = 2, Next
    PROVE  TwiceInv'
<1>. DEFINE i == First
            all == (IF i.w THEN Word ELSE Byte) - 1
<1>0. prog' = prog /\ start' = start /\ seg = start.seg /\ First' = First /\ I = prog.code[2]
      /\ BelowStack' = BelowStack
  BY Executes DEF TwiceInv, I, First, BelowStack
<1>1. /\ i.op \in {"not", "xchg", "push"} /\ (i.op = "push" => i.w /\ I.op = "pop")
      /\ i.op \in {"not", "xchg"} => I.op = i.op
      /\ I.w = i.w /\ I.reg = i.reg /\ I.rm = i.rm
      /\ IsInstruction(I) /\ i.w \in BOOLEAN /\ i.reg \in 0..7 /\ i.rm \in 0..7
  <2>1. Undoes(I, i) /\ SameOperand(I, i) /\ I.reg = i.reg /\ IsInstruction(I) /\ IsInstruction(i)
        /\ i \in Instructions
    <3>1. 1 \in 1..Len(prog.code)
      BY TwiceCode
    <3>2. i \in Instructions
      BY <3>1, ProgramAssumption DEF TypeInv, First
    <3>. QED
      BY <1>0, <3>2, TwiceCode
  <2>2. i.op = "push" => I.op = "pop" /\ i.w
    BY <2>1 DEF Undoes, Instructions
  <2>3. i.op \in {"not", "xchg"} => I.op = i.op
    BY <2>1 DEF Undoes
  <2>4. i.op \in {"not", "xchg", "push"}
    BY <2>1 DEF Undoes
  <2>. QED
    BY <2>1, <2>2, <2>3, <2>4 DEF SameOperand, IsInstruction
<1>2. /\ reg \in Registers /\ mem \in Memories
      /\ start.reg \in Registers /\ start.mem \in Memories /\ IsStart(start)
      /\ ~InReg => Cell \in Cells /\ Cell + 1 \in Cells
  BY <1>1, OperandCells DEF TypeInv, IsStart
<1>3. /\ InReg => RM = GetReg(reg, i.w, i.rm)
      /\ ~InReg => RM = Fetch(mem, i.w, Cell)
  BY <1>1 DEF RM
<1>4. /\ i.op = "not" => Exec_groupF6
      /\ i.op = "xchg" => Exec_xchg
      /\ i.op = "push" => Exec_group8F
  BY <1>1, Executes
<1>5. pc' = 3 /\ seg' = seg
  <2>1. Retires /\ UNCHANGED seg
    BY <1>1, <1>4, Zenon DEF Exec_groupF6, Exec_xchg, Exec_group8F
  <2>. QED
    BY <2>1 DEF Retires
<1>6. i.op = "not" => reg' = start.reg /\ mem' = start.mem
  <2>. SUFFICES ASSUME i.op = "not" PROVE reg' = start.reg /\ mem' = start.mem
    OBVIOUS
  <2>0. StoresRM(all - RM) /\ Complemented
    BY <1>1, <1>4 DEF Exec_groupF6, TwiceInv
  <2>1. CASE InReg
    <3>1. reg' = SetReg(reg, i.w, i.rm, all - RM) /\ mem' = mem
      BY <1>1, <2>0, <2>1 DEF StoresRM
    <3>2. mem = start.mem /\ reg = SetReg(start.reg, i.w, i.rm, all - GetReg(start.reg, i.w, i.rm))
      BY <2>0, <2>1 DEF Complemented
    <3>3. 0 \in Cells /\ 0 + 1 \in Cells
      <4>1. 0 \in Words /\ Linear(0, 0) = 0 /\ 1 \in 0..3
        BY WordFacts, WordRange, ByteFacts DEF Linear
      <4>. QED
        BY <4>1, CellOf
    <3>4. \A o : o = Write(mem, i.w, 0, all - Fetch(mem, i.w, 0)) =>
              SetReg(reg, i.w, i.rm, all - GetReg(reg, i.w, i.rm)) = start.reg
      <4>. HIDE DEF i
      <4>. QED
        BY <1>1, <1>2, <3>2, <3>3, NotNot
    <3>. QED
      BY <1>3, <2>1, <3>1, <3>2, <3>4
  <2>2. CASE ~InReg
    <3>1. reg' = reg /\ mem' = Write(mem, i.w, Cell, all - RM)
      BY <1>1, <2>0, <2>2 DEF StoresRM
    <3>2. reg = start.reg /\ mem = Write(start.mem, i.w, Cell, all - Fetch(start.mem, i.w, Cell))
      BY <2>0, <2>2 DEF Complemented
    <3>3. \A q : q = SetReg(reg, i.w, i.rm, all - GetReg(reg, i.w, i.rm)) =>
              Write(mem, i.w, Cell, all - Fetch(mem, i.w, Cell)) = start.mem
      <4>. HIDE DEF i
      <4>. QED
        BY <1>1, <1>2, <2>2, <3>2, NotNot
    <3>. QED
      BY <1>3, <2>2, <3>1, <3>2, <3>3
  <2>. QED
    BY <2>1, <2>2
<1>7. i.op = "xchg" => reg' = start.reg /\ mem' = start.mem
  <2>. SUFFICES ASSUME i.op = "xchg" PROVE reg' = start.reg /\ mem' = start.mem
    OBVIOUS
  <2>0. Exec_xchg /\ Traded
    BY <1>1, <1>4 DEF TwiceInv
  <2>1. CASE InReg
    <3>1. /\ reg' = SetReg(SetReg(reg, i.w, i.reg, RM), i.w, i.rm, GetReg(reg, i.w, i.reg))
          /\ mem' = mem
      BY <1>1, <2>0, <2>1 DEF Exec_xchg
    <3>2. mem = start.mem /\ reg = Exchanged(start.reg, i.w, i.reg, i.rm)
      BY <2>0, <2>1 DEF Traded
    <3>3. reg' = Exchanged(reg, i.w, i.reg, i.rm)
      BY <1>3, <2>1, <3>1 DEF Exchanged
    <3>4. Exchanged(Exchanged(start.reg, i.w, i.reg, i.rm), i.w, i.reg, i.rm) = start.reg
      BY <1>1, <1>2, ExchangedTwice
    <3>. QED
      BY <3>1, <3>2, <3>3, <3>4
  <2>2. CASE ~InReg
    <3>1. /\ reg' = SetReg(reg, i.w, i.reg, RM)
          /\ mem' = Write(mem, i.w, Cell, GetReg(reg, i.w, i.reg))
      BY <1>1, <2>0, <2>2 DEF Exec_xchg
    <3>2. /\ reg = SetReg(start.reg, i.w, i.reg, Fetch(start.mem, i.w, Cell))
          /\ mem = Write(start.mem, i.w, Cell, GetReg(start.reg, i.w, i.reg))
      BY <2>0, <2>2 DEF Traded
    <3>3. /\ SetReg(reg, i.w, i.reg, Fetch(mem, i.w, Cell)) = start.reg
          /\ Write(mem, i.w, Cell, GetReg(reg, i.w, i.reg)) = start.mem
      <4>. HIDE DEF i
      <4>. QED
        BY <1>1, <1>2, <2>2, <3>2, TradeTrade
    <3>. QED
      BY <1>3, <2>2, <3>1, <3>3
  <2>. QED
    BY <2>1, <2>2
<1>8. i.op = "push" =>
        reg' = start.reg /\ \A a \in Cells : mem'[a] = start.mem[a] \/ a \in BelowStack
  <2>. SUFFICES ASSUME i.op = "push"
                PROVE  /\ reg' = start.reg
                       /\ \A a \in Cells : mem'[a] = start.mem[a] \/ a \in BelowStack
    OBVIOUS
  <2>. DEFINE v == IF InReg THEN start.reg[i.rm] ELSE Fetch(start.mem, TRUE, Cell)
              r == [reg EXCEPT ![SP] = (@ + 2) % Word]
              top == Fetch(mem, TRUE, Linear(seg["SS"], reg[SP]))
  <2>0. Exec_group8F /\ AfterPush(v)
    BY <1>1, <1>4 DEF TwiceInv, PushedOperand
  <2>1. v \in Words
    <3>1. InReg => v \in Words
      BY <1>1, <1>2 DEF Registers
    <3>2. ~InReg => Fits(TRUE, Fetch(start.mem, TRUE, Cell))
      BY <1>2, FetchFits
    <3>3. \A x : Fits(TRUE, x) => x \in Words
      BY DEF Fits
    <3>. QED
      BY <3>1, <3>2, <3>3
  <2>2. top = v /\ r = start.reg /\ \A c \in Cells : mem[c] = start.mem[c] \/ c \in BelowStack
    <3>. HIDE DEF v
    <3>. QED
      BY <1>2, <2>0, <2>1, PopsIt
  <2>3. IF InReg THEN reg' = [r EXCEPT ![i.rm] = top] /\ mem' = mem
                 ELSE reg' = r /\ mem' = Write(mem, TRUE, Cell, top)
    BY <1>1, <2>0 DEF Exec_group8F
  <2>. HIDE DEF r, top
  <2>4. CASE InReg
    <3>1. reg' = [start.reg EXCEPT ![i.rm] = start.reg[i.rm]] /\ mem' = mem
      BY <2>2, <2>3, <2>4
    <3>2. reg' = start.reg
      BY <1>1, <1>2, <3>1 DEF Registers
    <3>. QED
      BY <2>2, <3>1, <3>2
  <2>5. CASE ~InReg
    <3>1. reg' = start.reg /\ mem' = Write(mem, TRUE, Cell, Fetch(start.mem, TRUE, Cell))
      BY <2>2, <2>3, <2>5
    <3>2. \A c \in Cells : mem'[c] = mem[c] \/ mem'[c] = start.mem[c]
      BY <1>2, <2>5, <3>1, Restored
    <3>. QED
      BY <2>2, <3>1, <3>2
  <2>. QED
    BY <2>4, <2>5
<1>9. pc' # 1 /\ pc' # 2 /\ seg' = start'.seg
  BY <1>0, <1>5
<1>10. reg' = start'.reg /\ \A a \in Cells :
                mem'[a] = start'.mem[a] \/ (a \in BelowStack' /\ First'.op = "push")
  BY <1>0, <1>1, <1>6, <1>7, <1>8
<1>. QED
  BY <1>9, <1>10, Zenon DEF TwiceInv

\* A program of kind "copy".
CopyInv ==
    prog.kind = "copy" =>
        /\ pc = 1 => reg = start.reg /\ seg = start.seg /\ mem = start.mem
        /\ pc = 2 => AfterPush(Stored)
        /\ pc = 3 => /\ IF prog.dst.in = "reg"
                        THEN /\ reg = [start.reg EXCEPT ![prog.dst.n] = Stored]
                             /\ seg = start.seg
                        ELSE /\ reg = start.reg
                             /\ seg = [start.seg EXCEPT ![SregName[prog.dst.n]] = Stored]
                     /\ \A a \in Cells : mem[a] = start.mem[a] \/ a \in BelowStack

\* The push and the pop of a program of kind "copy".
LEMMA CopyCode ==
    ASSUME TypeInv, prog.kind = "copy"
    PROVE  /\ Len(prog.code) = 2 /\ pc \in 1..3
           /\ OnStack(prog.code[1], prog.src, "pushr", "pushs", "push")
           /\ OnStack(prog.code[2], prog.dst, "popr", "pops", "pop")
           /\ IsInstruction(prog.code[1]) /\ IsInstruction(prog.code[2])
<1>1. /\ Len(prog.code) = 2
      /\ OnStack(prog.code[1], prog.src, "pushr", "pushs", "push")
      /\ OnStack(prog.code[2], prog.dst, "popr", "pops", "pop")
  BY KindsAssumption DEF TypeInv
<1>2. 1 \in 1..Len(prog.code) /\ 2 \in 1..Len(prog.code) /\ pc \in 1..3
  BY <1>1 DEF TypeInv
<1>3. IsInstruction(prog.code[1]) /\ IsInstruction(prog.code[2])
  BY <1>2, CodeType DEF TypeInv
<1>. QED
  BY <1>1, <1>2, <1>3

\* The push,
LEMMA CopyFirst ==
    ASSUME TypeInv, CopyInv, prog.kind = "copy", pc = 1, Next
    PROVE  CopyInv'
<1>1. /\ prog' = prog /\ start' = start /\ seg = start.seg /\ reg = start.reg /\ mem = start.mem
      /\ I = prog.code[1]
  BY Executes DEF CopyInv, I
<1>2. OnStack(I, prog.src, "pushr", "pushs", "push") /\ IsInstruction(I)
  BY <1>1, CopyCode
<1>3. Stored' = Stored
  BY <1>1 DEF Stored
<1>4. /\ pc' = 2 /\ seg' = seg /\ reg' = [reg EXCEPT ![SP] = Pushed]
      /\ mem' = Write(mem, TRUE, Linear(seg["SS"], Pushed), Stored)
  <2>1. CASE I.op = "pushr"
    <3>1. Exec_push
      BY <2>1, Executes
    <3>2. Stored = reg[I.reg]
      BY <1>1, <1>2, <2>1 DEF Stored, OnStack, GetReg
    <3>. QED
      BY <2>1, <3>1, <3>2 DEF Exec_push, Retires
  <2>2. CASE I.op = "pushs"
    <3>1. Exec_push
      BY <2>2, Executes
    <3>2. Stored = seg[SregName[I.reg + 1]]
      BY <1>1, <1>2, <2>2 DEF Stored, OnStack
    <3>. QED
      BY <2>2, <3>1, <3>2 DEF Exec_push, Retires
  <2>3. CASE I.op = "push"
    <3>1. Exec_groupFE
      BY <2>3, Executes
    <3>2. I.w /\ InReg /\ Stored = reg[I.rm]
      BY <1>1, <1>2, <2>3 DEF Stored, OnStack, GetReg, InReg
    <3>3. RM = reg[I.rm]
      BY <3>2 DEF RM, GetReg
    <3>. QED
      BY <3>1, <3>2, <3>3 DEF Exec_groupFE, Retires
  <2>. QED
    BY <1>2, <2>1, <2>2, <2>3 DEF OnStack
<1>5. /\ seg' = start'.seg /\ reg' = [start'.reg EXCEPT ![SP] = Below']
      /\ mem' = Write(start'.mem, TRUE, Top', Stored)
  BY <1>1, <1>4, PushesIt
<1>6. AfterPush(Stored)'
  BY <1>3, <1>5 DEF AfterPush
<1>7. pc' # 1 /\ pc' # 3
  BY <1>4
<1>. QED
  BY <1>6, <1>7, Zenon DEF CopyInv

\* and the pop.
LEMMA CopySecond ==
    ASSUME TypeInv, CopyInv, prog.kind = "copy", pc = 2, Next
    PROVE  CopyInv'
<1>. DEFINE top == Fetch(mem, TRUE, Linear(seg["SS"], reg[SP]))
            r == [reg EXCEPT ![SP] = (@ + 2) % Word]
<1>0. Retires => pc' = 3
  BY DEF Retires
<1>1. /\ prog' = prog /\ start' = start /\ seg = start.seg /\ I = prog.code[2]
      /\ BelowStack' = BelowStack /\ Stored' = Stored /\ AfterPush(Stored)
  BY Executes DEF CopyInv, AfterPush, I, BelowStack, Stored
<1>2. OnStack(I, prog.dst, "popr", "pops", "pop") /\ IsInstruction(I)
  BY <1>1, CopyCode
<1>3. Stored \in Words
  <2>1. OnStack(prog.code[1], prog.src, "pushr", "pushs", "push") /\ IsInstruction(prog.code[1])
    BY CopyCode
  <2>2. /\ prog.code[1].reg \in 0..7 /\ prog.code[1].rm \in 0..7
        /\ prog.code[1].op = "pushs" => prog.code[1].reg \in 0..3
    BY <2>1 DEF IsInstruction
  <2>3. \A k \in 0..7 : start.reg[k] \in Words
    BY DEF TypeInv, IsStart, Registers
  <2>4. \A k \in 0..3 : start.seg[SregName[k + 1]] \in Words
    BY <1>1, SregWord
  <2>. QED
    BY <2>1, <2>2, <2>3, <2>4 DEF OnStack, Stored, GetReg
<1>4. /\ top = Stored /\ r = start.reg
      /\ \A c \in Cells : mem[c] = start.mem[c] \/ c \in BelowStack
  <2>1. IsStart(start)
    BY DEF TypeInv
  <2>. QED
    BY <1>1, <1>3, <2>1, PopsIt
<1>5. /\ pc' = 3 /\ mem' = mem
      /\ IF prog.dst.in = "reg" THEN reg' = [r EXCEPT ![prog.dst.n] = top] /\ seg' = seg
         ELSE reg' = r /\ seg' = [seg EXCEPT ![SregName[prog.dst.n]] = top]
  <2>1. CASE I.op = "popr"
    <3>1. Exec_pop /\ prog.dst.in = "reg" /\ prog.dst.n = I.reg
      BY <1>2, <2>1, Executes DEF OnStack
    <3>2. Retires /\ mem' = mem /\ reg' = [r EXCEPT ![I.reg] = top] /\ seg' = seg
      BY <2>1, <3>1, Zenon DEF Exec_pop
    <3>. QED
      BY <3>1, <3>2, <1>0
  <2>2. CASE I.op = "pops"
    <3>1. Exec_pop /\ prog.dst.in # "reg" /\ prog.dst.n = I.reg + 1 /\ I.op # "popr"
      BY <1>2, <2>2, Executes DEF OnStack
    <3>2. Retires /\ mem' = mem /\ reg' = r /\ seg' = [seg EXCEPT ![SregName[I.reg + 1]] = top]
      BY <3>1, Zenon DEF Exec_pop
    <3>. QED
      BY <3>1, <3>2, <1>0
  <2>3. CASE I.op = "pop"
    <3>1. Exec_group8F /\ prog.dst.in = "reg" /\ prog.dst.n = I.rm /\ InReg
      BY <1>2, <2>3, Executes DEF OnStack, InReg
    <3>2. Retires /\ mem' = mem /\ reg' = [r EXCEPT ![I.rm] = top] /\ seg' = seg
      BY <3>1, Zenon DEF Exec_group8F
    <3>. QED
      BY <3>1, <3>2, <1>0
  <2>. QED
    BY <1>2, <2>1, <2>2, <2>3 DEF OnStack
<1>. HIDE DEF top, r
<1>6. /\ IF prog'.dst.in = "reg"
         THEN reg' = [start'.reg EXCEPT ![prog'.dst.n] = Stored'] /\ seg' = start'.seg
         ELSE reg' = start'.reg /\ seg' = [start'.seg EXCEPT ![SregName[prog'.dst.n]] = Stored']
      /\ \A a \in Cells : mem'[a] = start'.mem[a] \/ a \in BelowStack'
  BY <1>1, <1>4, <1>5
<1>7. pc' # 1 /\ pc' # 2
  BY <1>5
<1>. QED
  BY <1>6, <1>7, Zenon DEF CopyInv

\* Programs that are done and undone.
RoundInv == TwiceInv /\ CopyInv

\* It holds at the start,
LEMMA RoundInit == Init => RoundInv
  BY DEF Init, RoundInv, TwiceInv, CopyInv

\* every step keeps it,
LEMMA RoundNext ==
    ASSUME TypeInv, RoundInv, [Next]_vars
    PROVE  RoundInv'
<1>1. CASE UNCHANGED vars
  <2>0. /\ First' = First /\ SameOperand(I', I) /\ Below' = Below /\ BelowStack' = BelowStack
        /\ prog' = prog /\ pc' = pc /\ reg' = reg /\ seg' = seg /\ mem' = mem /\ start' = start
    BY <1>1 DEF First, I, SameOperand, Below, BelowStack, vars
  <2>1. Cell' = Cell /\ (InReg' <=> InReg) /\ Top' = Top
    BY <2>0, CellSteady DEF Top
  <2>3. (Complemented => Complemented') /\ (Traded => Traded')
    BY <2>0, <2>1 DEF Complemented, Traded
  <2>4. PushedOperand => PushedOperand'
    BY <2>0, <2>1 DEF PushedOperand, AfterPush
  <2>5. TwiceInv'
    BY <2>0, <2>3, <2>4 DEF RoundInv, TwiceInv
  <2>2. CopyInv'
    BY <1>1 DEF RoundInv, CopyInv, AfterPush, Below, Top, Stored, BelowStack, vars
  <2>. QED
    BY <2>2, <2>5 DEF RoundInv
<1>2. CASE Next
  <2>1. prog' = prog /\ pc <= Len(prog.code)
    BY <1>2, Executes
  <2>2. TwiceInv'
    <3>1. CASE prog.kind # "twice"
      BY <2>1, <3>1 DEF TwiceInv
    <3>2. CASE prog.kind = "twice"
      <4>0. Len(prog.code) = 2 /\ pc \in 1..3
        BY <3>2, TwiceCode
      <4>1. pc = 1 \/ pc = 2
        BY <2>1, <4>0
      <4>. QED
        BY <1>2, <3>2, <4>1, TwiceFirst, TwiceSecond DEF RoundInv
    <3>. QED
      BY <3>1, <3>2
  <2>3. CopyInv'
    <3>1. CASE prog.kind # "copy"
      BY <2>1, <3>1 DEF CopyInv
    <3>2. CASE prog.kind = "copy"
      <4>0. Len(prog.code) = 2 /\ pc \in 1..3
        BY <3>2, CopyCode
      <4>1. pc = 1 \/ pc = 2
        BY <2>1, <4>0
      <4>. QED
        BY <1>2, <3>2, <4>1, CopyFirst, CopySecond DEF RoundInv
    <3>. QED
      BY <3>1, <3>2
  <2>. QED
    BY <2>2, <2>3 DEF RoundInv
<1>. QED
  BY <1>1, <1>2

\* and at the end it is what was to be shown.
LEMMA RoundDone ==
    ASSUME TypeInv, RoundInv
    PROVE  RoundTrips
<1>1. prog.kind = "twice" /\ Done => pc = 3 /\ prog.code[1] = First
  BY TwiceCode DEF Done, First
<1>2. prog.kind = "copy" /\ Done => pc = 3 /\ prog.code[1].op \in {"push", "pushr", "pushs"}
  BY CopyCode DEF Done, OnStack
<1>3. ASSUME prog.kind \in {"twice", "copy"}, Done, NEW a \in Cells
      PROVE  \/ mem[a] = start.mem[a]
             \/ /\ a \in BelowStack
                /\ \E k \in 1..pc - 1 : prog.code[k].op \in {"push", "pushr", "pushs"}
  <2>1. pc = 3 /\ 1 \in 1..pc - 1
    BY <1>1, <1>2, <1>3
  <2>2. CASE prog.kind = "twice"
    <3>1. mem[a] = start.mem[a] \/ (a \in BelowStack /\ prog.code[1].op = "push")
      BY <1>1, <1>3, <2>1, <2>2 DEF RoundInv, TwiceInv
    <3>. QED
      BY <2>1, <3>1
  <2>3. CASE prog.kind = "copy"
    <3>1. mem[a] = start.mem[a] \/ a \in BelowStack
      BY <2>1, <2>3 DEF RoundInv, CopyInv
    <3>. QED
      BY <1>2, <1>3, <2>1, <2>3, <3>1
  <2>. QED
    BY <1>3, <2>2, <2>3
<1>4. prog.kind = "twice" /\ Done => reg = start.reg /\ seg = start.seg
  BY <1>1 DEF RoundInv, TwiceInv
<1>5. prog.kind = "copy" /\ Done =>
        IF prog.dst.in = "reg"
        THEN reg = [start.reg EXCEPT ![prog.dst.n] = Stored] /\ seg = start.seg
        ELSE reg = start.reg /\ seg = [start.seg EXCEPT ![SregName[prog.dst.n]] = Stored]
  BY <1>2 DEF RoundInv, CopyInv
<1>. QED
  BY <1>3, <1>4, <1>5, Zenon DEF RoundTrips

\* What is exchanged or complemented twice, and what is pushed and popped, is as it was,
\* for every operand, width and place of the segments; what one instruction pushed another
\* pops (sx86_exec_full_modregrm_xchg, op_not, op_pushmem, op_popmem, pushpop.c).
THEOREM RoundCorrect == Spec => []RoundTrips
<1>1. Init => TypeInv /\ RoundInv
  BY InitType, RoundInit
<1>2. TypeInv /\ RoundInv /\ [Next]_vars => (TypeInv /\ RoundInv)'
  BY NextType, RoundNext
<1>3. TypeInv /\ RoundInv => RoundTrips
  BY RoundDone
<1>. QED
  BY <1>1, <1>2, <1>3, PTL DEF Spec

-----------------------------------------------------------------------------
(***************************************************************************)
(* Stores and loads: the programs of StoredIsLoaded.                       *)
(***************************************************************************)
\* A whole number of words makes no difference.
LEMMA ModShift ==
    ASSUME NEW x \in Int, NEW y \in Int, NEW q \in Int, x = y + (q * Word)
    PROVE  x % Word = y % Word
<1>1. PICK p \in Int : y = (p * Word) + (y % Word)
  BY DivMod
<1>. DEFINE z == y % Word
<1>2. z \in Words /\ z \in Int
  BY ModWord, WordRange
<1>. HIDE DEF z
<1>3. (p + q) * Word = (p * Word) + (q * Word) /\ p * Word \in Int /\ q * Word \in Int
  BY WordFacts
<1>4. y = (p * Word) + z
  BY <1>1 DEF z
<1>5. x = ((p + q) * Word) + z
  BY <1>2, <1>3, <1>4
<1>6. p + q \in Int
  OBVIOUS
<1>7. x % Word = z
  BY <1>2, <1>5, <1>6, ModUnique
<1>. QED
  BY <1>7 DEF z

\* Nothing that an address depends on has changed.
Steady == seg = start.seg /\ \A j \in AddressRegisters : reg[j] = start.reg[j]

\* Where the operand in memory of an instruction is.
Address ==
    IF I.op = "moffs" THEN Linear(IF I.over = "none" THEN seg["DS"] ELSE seg[I.over], I.disp)
    ELSE Cell

\* The registers in an address as the listing names them.
Named == AddressRegs[I.rm + 1]
Sum ==
    (IF BX \in Named THEN start.reg[BX] ELSE 0) + (IF BP \in Named THEN start.reg[BP] ELSE 0)
    + (IF SI \in Named THEN start.reg[SI] ELSE 0) + (IF DI \in Named THEN start.reg[DI] ELSE 0)

\* They are those the engines add up.
LEMMA NamedRegisters ==
    ASSUME TypeInv, IsInstruction(I), Steady, ~(I.mod = 0 /\ I.rm = 6)
    PROVE  Base = Sum /\ Sum \in Int /\ (BP \in Named <=> I.rm \in {2, 3, 6})
<1>. DEFINE bx == start.reg[BX]
            bp == start.reg[BP]
            si == start.reg[SI]
            di == start.reg[DI]
<1>1. bx \in Int /\ bp \in Int /\ si \in Int /\ di \in Int
  BY Names, WordRange DEF TypeInv, IsStart, Registers
<1>2. reg[BX] = bx /\ reg[BP] = bp /\ reg[SI] = si /\ reg[DI] = di
  BY DEF Steady, AddressRegisters
<1>3. I.rm \in 0..7
  BY DEF IsInstruction
<1>4. Sum = (IF BX \in Named THEN bx ELSE 0) + (IF BP \in Named THEN bp ELSE 0)
            + (IF SI \in Named THEN si ELSE 0) + (IF DI \in Named THEN di ELSE 0)
  BY DEF Sum
<1>5. Base = CASE I.rm = 0 -> bx + si [] I.rm = 1 -> bx + di [] I.rm = 2 -> bp + si
               [] I.rm = 3 -> bp + di [] I.rm = 4 -> si [] I.rm = 5 -> di
               [] I.rm = 6 -> bp [] I.rm = 7 -> bx
  BY <1>2 DEF Base
<1>. HIDE DEF bx, bp, si, di
<1>6. CASE I.rm = 0
  <2>1. Named = {BX, SI} /\ Base = bx + si
    BY <1>5, <1>6 DEF Named, AddressRegs
  <2>. QED
    BY <1>1, <1>4, <1>6, <2>1 DEF BX, BP, SI, DI
<1>7. CASE I.rm = 1
  <2>1. Named = {BX, DI} /\ Base = bx + di
    BY <1>5, <1>7 DEF Named, AddressRegs
  <2>. QED
    BY <1>1, <1>4, <1>7, <2>1 DEF BX, BP, SI, DI
<1>8. CASE I.rm = 2
  <2>1. Named = {BP, SI} /\ Base = bp + si
    BY <1>5, <1>8 DEF Named, AddressRegs
  <2>. QED
    BY <1>1, <1>4, <1>8, <2>1 DEF BX, BP, SI, DI
<1>9. CASE I.rm = 3
  <2>1. Named = {BP, DI} /\ Base = bp + di
    BY <1>5, <1>9 DEF Named, AddressRegs
  <2>. QED
    BY <1>1, <1>4, <1>9, <2>1 DEF BX, BP, SI, DI
<1>10. CASE I.rm = 4
  <2>1. Named = {SI} /\ Base = si
    BY <1>5, <1>10 DEF Named, AddressRegs
  <2>. QED
    BY <1>1, <1>4, <1>10, <2>1 DEF BX, BP, SI, DI
<1>11. CASE I.rm = 5
  <2>1. Named = {DI} /\ Base = di
    BY <1>5, <1>11 DEF Named, AddressRegs
  <2>. QED
    BY <1>1, <1>4, <1>11, <2>1 DEF BX, BP, SI, DI
<1>12. CASE I.rm = 6
  <2>1. Named = {BP} /\ Base = bp
    BY <1>5, <1>12 DEF Named, AddressRegs
  <2>. QED
    BY <1>1, <1>4, <1>12, <2>1 DEF BX, BP, SI, DI
<1>13. CASE I.rm = 7
  <2>1. Named = {BX} /\ Base = bx
    BY <1>5, <1>13 DEF Named, AddressRegs
  <2>. QED
    BY <1>1, <1>4, <1>13, <2>1 DEF BX, BP, SI, DI
<1>. QED
  BY <1>3, <1>6, <1>7, <1>8, <1>9, <1>10, <1>11, <1>12, <1>13

\* The displacement as it is listed.
Shown == IF I.mod = 2 THEN I.disp
         ELSE IF I.mod = 0 THEN 0
         ELSE IF I.disp < Byte \div 2 THEN I.disp ELSE I.disp - Byte

\* An operand is where it reads as.
LEMMA Listed ==
    ASSUME TypeInv, IsInstruction(I), Steady, InMemory(I)
    PROVE  /\ Address = ListedCell(I)
           /\ Address \in Cells /\ \A j \in 0..3 : Address + j \in Cells
<1>. DEFINE absolute == I.op = "moffs" \/ (I.mod = 0 /\ I.rm = 6)
<1>0. I.disp \in Words /\ I.disp \in Int /\ 0 <= I.disp /\ I.disp < Word /\ I.mod \in 0..3
      /\ I.rm \in 0..7 /\ (I.mod = 1 => I.disp \in Bytes)
  BY WordRange DEF IsInstruction
<1>1. \A s \in Segments : start.seg[s] \in Words /\ seg[s] = start.seg[s]
  BY DEF TypeInv, IsStart, Places, Steady
<1>2. "SS" \in Segments /\ "DS" \in Segments /\ (I.over # "none" => I.over \in Segments)
  BY DEF Segments, IsInstruction
<1>3. CASE absolute
  <2>1. ListedCell(I) = (start.seg[IF I.over # "none" THEN I.over ELSE "DS"] * Para)
                        + ((I.disp + 0 + 0 + 0 + 0 + Word) % Word)
    BY <1>3, Zenon DEF ListedCell
  <2>2. (I.disp + 0 + 0 + 0 + 0 + Word) % Word = I.disp
    <3>1. I.disp + 0 + 0 + 0 + 0 + Word = (1 * Word) + I.disp
          /\ I.disp + 0 + 0 + 0 + 0 + Word \in Int
      BY <1>0, WordFacts
    <3>. QED
      BY <1>0, <3>1, ModUnique
  <2>3. I.op = "moffs" =>
          Address = Linear(start.seg[IF I.over # "none" THEN I.over ELSE "DS"], I.disp)
    BY <1>1, <1>2 DEF Address
  <2>4. I.op # "moffs" =>
          Address = Linear(start.seg[IF I.over # "none" THEN I.over ELSE "DS"], I.disp)
    <3>. SUFFICES ASSUME I.op # "moffs"
                  PROVE  Cell = Linear(start.seg[IF I.over # "none" THEN I.over ELSE "DS"], I.disp)
      BY DEF Address
    <3>1. I.mod = 0 /\ I.rm = 6
      BY <1>3
    <3>2. Base = 0 /\ Displacement = I.disp
      BY <3>1 DEF Base, Displacement
    <3>3. Offset = I.disp
      <4>1. 0 + I.disp = (0 * Word) + I.disp /\ 0 + I.disp \in Int
        BY <1>0, WordFacts
      <4>2. (0 + I.disp) % Word = I.disp
        BY <1>0, <4>1, ModUnique
      <4>. QED
        BY <3>2, <4>2 DEF Offset
    <3>4. SegOf = start.seg[IF I.over # "none" THEN I.over ELSE "DS"]
      BY <1>1, <1>2, <3>1 DEF SegOf
    <3>. QED
      BY <3>3, <3>4 DEF Cell
  <2>5. Address = ListedCell(I)
    BY <2>1, <2>2, <2>3, <2>4 DEF Linear
  <2>6. start.seg[IF I.over # "none" THEN I.over ELSE "DS"] \in Words
    BY <1>1, <1>2
  <2>. QED
    BY <1>0, <2>3, <2>4, <2>5, <2>6, CellOf
<1>4. CASE ~absolute
  <2>0. I.op # "moffs" /\ ~(I.mod = 0 /\ I.rm = 6) /\ I.mod # 3 /\ ~InReg
    BY <1>4 DEF InMemory, InReg
  <2>1. Base = Sum /\ Sum \in Int /\ (BP \in Named <=> I.rm \in {2, 3, 6})
    BY <2>0, NamedRegisters
  <2>. DEFINE seg0 == start.seg[IF I.over # "none" THEN I.over
                                ELSE IF BP \in Named THEN "SS" ELSE "DS"]
              a == IF BX \in Named THEN start.reg[BX] ELSE 0
              b == IF BP \in Named THEN start.reg[BP] ELSE 0
              c == IF SI \in Named THEN start.reg[SI] ELSE 0
              e == IF DI \in Named THEN start.reg[DI] ELSE 0
  <2>2. ListedCell(I) = (seg0 * Para) + ((Shown + a + b + c + e + Word) % Word)
    BY <1>4, Zenon DEF ListedCell, Named, Shown
  <2>3. Shown \in Int /\ \E q \in Int : Displacement = Shown + (q * Word)
    <3>1. CASE I.mod = 1
      <4>1. Byte \in Int /\ Byte \div 2 \in Int /\ Word \in Int
        BY ByteFacts, WordFacts
      <4>2. Displacement = SignExtended(I.disp)
        BY <3>1 DEF Displacement
      <4>3. Shown = IF I.disp < Byte \div 2 THEN I.disp ELSE I.disp - Byte
        BY <3>1 DEF Shown
      <4>4. CASE I.disp < Byte \div 2
        <5>1. Displacement = Shown + (0 * Word) /\ Shown \in Int
          BY <1>0, <4>1, <4>2, <4>3, <4>4 DEF SignExtended
        <5>. QED
          BY <5>1
      <4>5. CASE ~(I.disp < Byte \div 2)
        <5>1. Displacement = Shown + (1 * Word) /\ Shown \in Int
          BY <1>0, <4>1, <4>2, <4>3, <4>5 DEF SignExtended
        <5>. QED
          BY <5>1
      <4>. QED
        BY <4>4, <4>5
    <3>2. CASE I.mod # 1
      <4>1. Displacement = Shown /\ Shown \in Int
        BY <1>0, <2>0, <3>2 DEF Displacement, Shown
      <4>2. Displacement = Shown + (0 * Word)
        BY <4>1, WordFacts
      <4>. QED
        BY <4>1, <4>2
    <3>. QED
      BY <3>1, <3>2
  <2>4. Offset = (Shown + a + b + c + e + Word) % Word
    <3>1. PICK q \in Int : Displacement = Shown + (q * Word)
      BY <2>3
    <3>2. Sum = a + b + c + e
      BY DEF Sum
    <3>3. a \in Int /\ b \in Int /\ c \in Int /\ e \in Int
      <4>1. /\ start.reg[BX] \in Int /\ start.reg[BP] \in Int
            /\ start.reg[SI] \in Int /\ start.reg[DI] \in Int
        BY Names, WordRange DEF TypeInv, IsStart, Registers
      <4>. QED
        BY <4>1
    <3>. HIDE DEF a, b, c, e
    <3>. DEFINE x == Base + Displacement
                y == Shown + a + b + c + e + Word
                p == q - 1
    <3>4. Word \in Int /\ q * Word \in Int /\ (q - 1) * Word = (q * Word) - Word
      BY WordFacts
    <3>5. x \in Int /\ y \in Int /\ p \in Int /\ x = y + (p * Word)
      BY <2>1, <2>3, <3>1, <3>2, <3>3, <3>4
    <3>. HIDE DEF x, y, p
    <3>6. x % Word = y % Word
      BY <3>5, ModShift
    <3>. QED
      BY <3>6 DEF Offset, x, y
  <2>5. SegOf = seg0
    <3>1. I.over = "none" => SegOf = IF I.rm \in {2, 3, 6} THEN seg["SS"] ELSE seg["DS"]
      BY <1>0, <2>0 DEF SegOf
    <3>2. I.over # "none" => SegOf = seg[I.over]
      BY DEF SegOf
    <3>. QED
      BY <1>1, <1>2, <2>1, <3>1, <3>2
  <2>6. Address = Cell
    BY <2>0 DEF Address
  <2>7. Cell = ListedCell(I)
    BY <2>2, <2>4, <2>5 DEF Cell, Linear
  <2>8. Cell \in Cells /\ \A j \in 0..3 : Cell + j \in Cells
    BY <2>0, OperandCells
  <2>. QED
    BY <2>6, <2>7, <2>8
<1>. QED
  BY <1>3, <1>4

\* What instruction i stores.
Sends(i, r, s) ==
    IF i.op = "groupC6" THEN i.imm
    ELSE IF i.op = "movseg" THEN s[SregName[i.reg + 1]]
    ELSE IF i.op = "moffs" THEN GetReg(r, i.w, AX)
    ELSE GetReg(r, i.w, i.reg)

\* An instruction that stores, whatever it is.
IsStore(i) ==
    /\ InMemory(i) /\ i.op \in {"groupC6", "mov", "xchg", "movseg", "moffs"}
    /\ i.op = "mov" => ~i.swap
    /\ i.op = "xchg" => ~AddressReg(i.w, i.reg)
    /\ i.op = "movseg" => ~i.swap /\ i.reg < 4
    /\ i.op = "moffs" => i.swap

St == prog.code[prog.store]
Ld == prog.code[prog.load]

\* The two operands as they are listed.
StoreCell == ListedCell(St)
LoadCell  == ListedCell(Ld) + prog.at

Kept ==
    \A k \in 0..(Width(prog.dst.w) - 1) :
        ByteOf(Loaded, k) =
            IF LoadCell + k \in StoreCell..(StoreCell + Width(prog.src.w) - 1)
            THEN ByteOf(Stored, LoadCell + k - StoreCell) ELSE start.mem[LoadCell + k]

PairInv ==
    prog.kind = "pair" =>
        /\ pc = 1 => reg = start.reg
        /\ pc <= prog.load => Steady
        /\ pc <= prog.store => mem = start.mem
        /\ pc = prog.store => Sends(St, reg, seg) = Stored
        /\ pc = prog.load => /\ StoreCell \in Cells /\ Fits(prog.src.w, Stored)
                             /\ mem = Write(start.mem, prog.src.w, StoreCell, Stored)
        /\ pc = prog.load + 1 => Kept

\* The instructions of a program of kind "pair".
LEMMA PairCode ==
    ASSUME TypeInv, prog.kind = "pair"
    PROVE  /\ prog.store \in 1..2 /\ prog.load = prog.store + 1 /\ Len(prog.code) = prog.load
           /\ pc \in 1..(prog.store + 2)
           /\ IsInstruction(prog.code[1]) /\ IsInstruction(St) /\ IsInstruction(Ld)
           /\ IsStore(St) /\ prog.src.w = St.w
           /\ LoadsFrom(Ld, prog.dst, prog.at)
           /\ prog.store = 1 => StoresIn(St, prog.src)
           /\ prog.store = 2 => Prepares(prog.code[1], St, prog.src)
<1>1. /\ Len(prog.code) = prog.load /\ prog.load = prog.store + 1
      /\ LoadsFrom(Ld, prog.dst, prog.at)
      /\ \/ prog.store = 1 /\ StoresIn(prog.code[1], prog.src)
         \/ prog.store = 2 /\ Prepares(prog.code[1], prog.code[2], prog.src)
  BY KindsAssumption DEF TypeInv, Ld
<1>2. prog.store \in 1..2 /\ pc \in 1..(prog.store + 2)
  BY <1>1 DEF TypeInv
<1>3. 1 \in 1..Len(prog.code) /\ prog.store \in 1..Len(prog.code) /\ prog.load \in 1..Len(prog.code)
  BY <1>1, <1>2
<1>4. IsInstruction(prog.code[1]) /\ IsInstruction(St) /\ IsInstruction(Ld)
  BY <1>3, CodeType DEF TypeInv, St, Ld
<1>5. /\ prog.store = 1 => StoresIn(St, prog.src)
      /\ prog.store = 2 => Prepares(prog.code[1], St, prog.src)
  BY <1>1 DEF St
<1>6. ASSUME NEW i, NEW src, StoresIn(i, src) PROVE IsStore(i) /\ src.w = i.w
  BY <1>6 DEF StoresIn, IsStore
<1>7. IsStore(St) /\ prog.src.w = St.w
  <2>1. CASE prog.store = 1
    BY <1>5, <1>6, <2>1
  <2>2. CASE prog.store = 2
    <3>. DEFINE h == prog.code[1]
                x == [in |-> "reg", w |-> h.w, n |-> h.reg]
    <3>1. \/ StoresIn(St, x) /\ prog.src.w = h.w
          \/ StoresIn(St, prog.src)
      BY <1>5, <2>2 DEF Prepares
    <3>2. x.w = h.w
      OBVIOUS
    <3>. HIDE DEF x
    <3>. QED
      BY <1>6, <3>1, <3>2
  <2>. QED
    BY <1>2, <2>1, <2>2
<1>. QED
  BY <1>1, <1>2, <1>4, <1>5, <1>7

\* What is listed, stored and loaded depends on the program and the start alone.
LEMMA PairSame ==
    ASSUME prog' = prog, start' = start
    PROVE  /\ St' = St /\ Ld' = Ld /\ StoreCell' = StoreCell /\ LoadCell' = LoadCell
           /\ Stored' = Stored
  BY DEF St, Ld, StoreCell, LoadCell, ListedCell, Stored

\* The value is there to be stored.
LEMMA SendsStored ==
    ASSUME NEW i, IsInstruction(i), StoresIn(i, prog.src), NEW r \in Registers, NEW s,
           s = start.seg,
           prog.src.in = "reg" => GetReg(r, i.w, prog.src.n) = GetReg(start.reg, i.w, prog.src.n)
    PROVE  Sends(i, r, s) = Stored
  BY DEF StoresIn, Sends, Stored

\* It fits the width of the operand.
LEMMA SendsFits ==
    ASSUME TypeInv, NEW i, IsInstruction(i), IsStore(i)
    PROVE  Fits(i.w, Sends(i, reg, seg))
<1>0. i.w \in BOOLEAN /\ i.reg \in 0..7 /\ AX \in 0..7 /\ reg \in Registers
  BY Names DEF IsInstruction, TypeInv
<1>1. CASE i.op = "groupC6"
  BY <1>1 DEF Sends, IsInstruction
<1>2. CASE i.op = "movseg"
  <2>1. i.reg \in 0..3 /\ i.w
    BY <1>0, <1>2 DEF IsStore, IsInstruction
  <2>. QED
    BY <1>2, <2>1, SregWord DEF Sends, Fits
<1>3. CASE i.op \notin {"groupC6", "movseg"}
  BY <1>0, <1>3, GetRegFits DEF Sends
<1>. QED
  BY <1>1, <1>2, <1>3

\* The instruction before the store, if there is one.
LEMMA PrepareStep ==
    ASSUME TypeInv, PairInv, prog.kind = "pair", pc < prog.store, Next
    PROVE  PairInv'
<1>. DEFINE h == prog.code[1]
<1>0. pc = 1 /\ prog.store = 2 /\ prog.load = 3 /\ I = h
  <2>1. prog.store \in 1..2 /\ pc \in 1..(prog.store + 2) /\ prog.load = prog.store + 1
    BY PairCode
  <2>2. pc = 1 /\ prog.store = 2 /\ prog.load = 3
    BY <2>1
  <2>. QED
    BY <2>2 DEF I
<1>1. /\ prog' = prog /\ start' = start /\ reg = start.reg /\ mem = start.mem /\ Steady
      /\ reg \in Registers
  BY <1>0, Executes DEF PairInv, TypeInv
<1>2. IsInstruction(h) /\ IsInstruction(St) /\ Prepares(h, St, prog.src) /\ IsStore(St)
      /\ h.reg \in 0..7 /\ h.w \in BOOLEAN /\ Fits(h.w, h.imm) /\ St.w \in BOOLEAN
  BY <1>0, PairCode DEF IsInstruction
<1>3. CASE h.op = "movi"
  <2>1. Exec_mov_imm
    BY <1>0, <1>3, Executes
  <2>2. pc' = 2 /\ seg' = seg /\ mem' = mem /\ reg' = SetReg(reg, h.w, h.reg, h.imm)
    BY <1>0, <2>1 DEF Exec_mov_imm, Retires
  <2>. DEFINE x == [in |-> "reg", w |-> h.w, n |-> h.reg]
  <2>3. /\ ~AddressReg(h.w, h.reg) /\ StoresIn(St, x)
        /\ prog.src.in = "imm" /\ prog.src.n = h.imm
    BY <1>2, <1>3 DEF Prepares
  <2>4. \A j \in AddressRegisters : reg'[j] = reg[j]
    BY <1>1, <1>2, <2>2, <2>3, KeepsAddress
  <2>5. SetTo(reg', reg, h.w, h.reg, h.imm)
    BY <1>1, <1>2, <2>2, GetSet
  <2>6. GetReg(reg', h.w, h.reg) = h.imm
    BY <1>2, <2>5 DEF SetTo
  <2>7. Sends(St, reg', seg') = h.imm
    <3>1. x.in = "reg" /\ x.w = h.w /\ x.n = h.reg
      OBVIOUS
    <3>. HIDE DEF x
    <3>2. St.w = h.w /\ \/ St.op \in {"mov", "xchg"} /\ St.reg = h.reg
                        \/ St.op = "moffs" /\ h.reg = AX
      BY <2>3, <3>1 DEF StoresIn
    <3>. QED
      BY <2>6, <3>2 DEF Sends
  <2>8. Stored = h.imm
    BY <2>3 DEF Stored
  <2>. QED
    BY <1>0, <1>1, <2>2, <2>4, <2>7, <2>8, PairSame DEF PairInv, Steady
<1>4. CASE h.op = "lea"
  <2>1. Exec_lea
    BY <1>0, <1>4, Executes
  <2>2. /\ pc' = 2 /\ seg' = seg /\ mem' = mem
        /\ reg' = IF InReg THEN reg ELSE [reg EXCEPT ![h.reg] = Offset]
    BY <1>0, <2>1 DEF Exec_lea, Retires
  <2>3. /\ ~AddressReg(TRUE, h.reg) /\ StoresIn(St, prog.src)
        /\ prog.src.in = "reg" => prog.src.n # h.reg /\ (~prog.src.w => prog.src.n # h.reg + 4)
    BY <1>2, <1>4 DEF Prepares
  <2>4. \A j \in 0..7 : j # h.reg => reg'[j] = reg[j]
    BY <1>1, <1>2, <2>2 DEF Registers
  <2>5. \A j \in AddressRegisters : j # h.reg /\ j \in 0..7
    BY <2>3, Names DEF AddressReg, AddressRegisters
  <2>6. prog.src.in = "reg" => GetReg(reg', St.w, prog.src.n) = GetReg(start.reg, St.w, prog.src.n)
    <3>. SUFFICES ASSUME prog.src.in = "reg"
                  PROVE  GetReg(reg', St.w, prog.src.n) = GetReg(start.reg, St.w, prog.src.n)
      OBVIOUS
    <3>. DEFINE n == prog.src.n
    <3>1. n \in 0..7 /\ n # h.reg /\ prog.src.w = St.w /\ (~St.w => n # h.reg + 4)
      BY <1>2, <2>3, Names DEF StoresIn, IsInstruction
    <3>. HIDE DEF n
    <3>2. CASE St.w
      BY <1>1, <2>4, <3>1, <3>2 DEF GetReg, n
    <3>3. CASE ~St.w /\ n < 4
      <4>1. reg'[n] = start.reg[n]
        BY <1>1, <2>4, <3>1
      <4>. QED
        BY <3>3, <4>1 DEF GetReg, ByteReg, n
    <3>4. CASE ~St.w /\ ~(n < 4)
      <4>1. n - 4 \in 0..7 /\ n - 4 # h.reg
        BY <1>2, <3>1, <3>4
      <4>2. reg'[n - 4] = start.reg[n - 4]
        BY <1>1, <2>4, <4>1
      <4>. QED
        BY <3>4, <4>2 DEF GetReg, ByteReg, n
    <3>. QED
      BY <3>2, <3>3, <3>4
  <2>7. reg' \in Registers /\ seg' = start.seg
    BY <1>1, <2>2, NextType DEF TypeInv, Steady
  <2>8. Sends(St, reg', seg') = Stored
    BY <1>2, <2>3, <2>6, <2>7, SendsStored
  <2>. QED
    BY <1>0, <1>1, <2>2, <2>4, <2>5, <2>8, PairSame DEF PairInv, Steady
<1>. QED
  BY <1>2, <1>3, <1>4 DEF Prepares

\* A store stores where it reads as storing.
LEMMA StoreEffect ==
    ASSUME TypeInv, Next, IsInstruction(I), IsStore(I)
    PROVE  /\ pc' = pc + 1 /\ seg' = seg
           /\ mem' = Write(mem, I.w, Address, Sends(I, reg, seg))
           /\ \A j \in AddressRegisters : reg'[j] = reg[j]
<1>. DEFINE v == Sends(I, reg, seg)
<1>0. /\ I.w \in BOOLEAN /\ I.reg \in 0..7 /\ reg \in Registers
      /\ Fits(I.w, RM) /\ (I.op # "moffs" => ~InReg)
  BY RMFits DEF IsInstruction, TypeInv, IsStore, InMemory, InReg
<1>1. CASE I.op = "groupC6"
  <2>1. Exec_groupC6
    BY <1>1, Executes
  <2>2. Retires /\ seg' = seg /\ StoresRM(I.imm)
    BY <2>1 DEF Exec_groupC6
  <2>3. mem' = Write(mem, I.w, Cell, I.imm) /\ reg' = reg
    BY <1>0, <1>1, <2>2 DEF StoresRM
  <2>. QED
    BY <1>1, <2>2, <2>3 DEF Retires, Address, Sends
<1>2. CASE I.op = "mov"
  <2>1. Exec_mov /\ ~I.swap
    BY <1>2, Executes DEF IsStore
  <2>2. Retires /\ seg' = seg /\ StoresRM(GetReg(reg, I.w, I.reg))
    BY <2>1 DEF Exec_mov
  <2>3. mem' = Write(mem, I.w, Cell, GetReg(reg, I.w, I.reg)) /\ reg' = reg
    BY <1>0, <1>2, <2>2 DEF StoresRM
  <2>. QED
    BY <1>2, <2>2, <2>3 DEF Retires, Address, Sends
<1>3. CASE I.op = "xchg"
  <2>1. Exec_xchg /\ ~AddressReg(I.w, I.reg)
    BY <1>3, Executes DEF IsStore
  <2>2. /\ Retires /\ seg' = seg /\ reg' = SetReg(reg, I.w, I.reg, RM)
        /\ mem' = Write(mem, I.w, Cell, GetReg(reg, I.w, I.reg))
    BY <1>0, <1>3, <2>1 DEF Exec_xchg
  <2>3. \A j \in AddressRegisters : reg'[j] = reg[j]
    BY <1>0, <2>1, <2>2, KeepsAddress
  <2>. QED
    BY <1>3, <2>2, <2>3 DEF Retires, Address, Sends
<1>4. CASE I.op = "movseg"
  <2>1. Exec_mov_sreg /\ ~I.swap /\ ~(I.reg >= 4)
    BY <1>0, <1>4, Executes DEF IsStore
  <2>2. Retires /\ seg' = seg /\ StoresRM(seg[SregName[I.reg + 1]])
    BY <2>1 DEF Exec_mov_sreg
  <2>3. mem' = Write(mem, I.w, Cell, seg[SregName[I.reg + 1]]) /\ reg' = reg
    BY <1>0, <1>4, <2>2 DEF StoresRM
  <2>. QED
    BY <1>4, <2>2, <2>3 DEF Retires, Address, Sends
<1>5. CASE I.op = "moffs"
  <2>1. Exec_mov_moffs /\ I.swap
    BY <1>5, Executes DEF IsStore
  <2>2. Retires /\ seg' = seg /\ reg' = reg /\ mem' = Write(mem, I.w, Address, GetReg(reg, I.w, AX))
    BY <1>5, <2>1 DEF Exec_mov_moffs, Address
  <2>. QED
    BY <1>5, <2>2 DEF Retires, Sends
<1>. QED
  BY <1>1, <1>2, <1>3, <1>4, <1>5 DEF IsStore

\* So the store leaves the value in memory.
LEMMA StoreStep ==
    ASSUME TypeInv, PairInv, prog.kind = "pair", pc = prog.store, Next
    PROVE  PairInv'
<1>1. /\ prog.store \in 1..2 /\ prog.load = prog.store + 1
      /\ IsInstruction(St) /\ IsStore(St) /\ prog.src.w = St.w
  BY PairCode
<1>2. I = St
  BY DEF I, St
<1>3. /\ prog' = prog /\ start' = start /\ Steady /\ mem = start.mem
      /\ Sends(St, reg, seg) = Stored
  BY <1>1, Executes DEF PairInv
<1>4. Address = StoreCell /\ StoreCell \in Cells
  BY <1>1, <1>2, <1>3, Listed DEF IsStore, StoreCell
<1>5. Fits(prog.src.w, Stored)
  BY <1>1, <1>3, SendsFits
<1>6. /\ pc' = prog.store + 1 /\ seg' = seg
      /\ mem' = Write(mem, prog.src.w, StoreCell, Stored)
      /\ \A j \in AddressRegisters : reg'[j] = reg[j]
  BY <1>1, <1>2, <1>3, <1>4, StoreEffect
<1>7. Steady'
  BY <1>3, <1>6 DEF Steady
<1>8. /\ pc' # 1 /\ ~(pc' <= prog'.store) /\ pc' # prog'.store /\ pc' # prog'.load + 1
  BY <1>1, <1>3, <1>6
<1>9. /\ StoreCell' \in Cells /\ Fits(prog'.src.w, Stored')
      /\ mem' = Write(start'.mem, prog'.src.w, StoreCell', Stored')
  BY <1>3, <1>4, <1>5, <1>6, PairSame
<1>. QED
  BY <1>7, <1>8, <1>9, Zenon DEF PairInv

\* What a load loads.
LEMMA LoadEffect ==
    ASSUME TypeInv, Next, IsInstruction(I), LoadsFrom(I, prog.dst, prog.at)
    PROVE  /\ pc' = pc + 1 /\ Loaded' = Fetch(mem, prog.dst.w, Address + prog.at)
           /\ prog.dst.w \in BOOLEAN /\ prog.at \in {0, 2}
<1>0. /\ I.w \in BOOLEAN /\ I.reg \in 0..7 /\ reg \in Registers /\ seg \in Places
      /\ Fits(I.w, RM) /\ (I.op # "moffs" => ~InReg) /\ prog' = prog
      /\ (~InReg => Cell \in Cells) /\ (~InReg => RM = Fetch(mem, I.w, Cell))
  BY RMFits, OperandCells, Executes DEF IsInstruction, TypeInv, LoadsFrom, InMemory, InReg, RM
<1>1. Loaded' = IF prog.dst.in = "reg" THEN GetReg(reg', prog.dst.w, prog.dst.n)
                ELSE seg'[SregName[prog.dst.n]]
  BY <1>0 DEF Loaded
<1>2. \A c \in Cells : c + 0 = c
  BY DEF Cells
<1>3. ASSUME NEW w \in BOOLEAN, NEW k \in 0..7, NEW v, Fits(w, v)
      PROVE  GetReg(SetReg(reg, w, k, v), w, k) = v
  <2>1. SetTo(SetReg(reg, w, k, v), reg, w, k, v)
    BY <1>0, <1>3, GetSet
  <2>. QED
    BY <2>1 DEF SetTo
<1>4. CASE I.op = "mov"
  <2>1. Exec_mov /\ I.swap /\ prog.dst.in = "reg" /\ prog.dst.w = I.w /\ prog.dst.n = I.reg
        /\ prog.at = 0
    BY <1>4, Executes DEF LoadsFrom
  <2>2. Retires /\ reg' = SetReg(reg, I.w, I.reg, RM)
    BY <2>1 DEF Exec_mov
  <2>3. Loaded' = RM
    BY <1>0, <1>1, <1>3, <2>1, <2>2
  <2>. QED
    BY <1>0, <1>2, <1>4, <2>1, <2>2, <2>3 DEF Retires, Address
<1>5. CASE I.op = "xchg"
  <2>1. Exec_xchg /\ prog.dst.in = "reg" /\ prog.dst.w = I.w /\ prog.dst.n = I.reg
        /\ prog.at = 0
    BY <1>5, Executes DEF LoadsFrom
  <2>2. Retires /\ reg' = SetReg(reg, I.w, I.reg, RM)
    BY <1>0, <1>5, <2>1 DEF Exec_xchg
  <2>3. Loaded' = RM
    BY <1>0, <1>1, <1>3, <2>1, <2>2
  <2>. QED
    BY <1>0, <1>2, <1>5, <2>1, <2>2, <2>3 DEF Retires, Address
<1>6. CASE I.op = "movseg"
  <2>1. /\ Exec_mov_sreg /\ I.swap /\ ~(I.reg >= 4) /\ prog.dst.in = "seg"
        /\ prog.dst.w /\ I.w /\ prog.dst.n = I.reg + 1 /\ prog.at = 0
    <3>1. Exec_mov_sreg /\ I.w
      BY <1>6, Executes DEF IsInstruction
    <3>2. I.swap /\ I.reg < 4
      BY <1>6 DEF LoadsFrom
    <3>3. prog.dst.in = "seg" /\ prog.dst.w /\ prog.dst.n = I.reg + 1 /\ prog.at = 0
      BY <1>6 DEF LoadsFrom
    <3>4. ~(I.reg >= 4)
      BY <1>0, <3>2
    <3>. QED
      BY <3>1, <3>2, <3>3, <3>4
  <2>2. Retires /\ seg' = [seg EXCEPT ![SregName[I.reg + 1]] = RM]
    BY <2>1 DEF Exec_mov_sreg
  <2>3. SregName[I.reg + 1] \in Segments
    BY <1>0, <2>1, SregWord
  <2>4. Loaded' = RM
    BY <1>0, <1>1, <2>1, <2>2, <2>3 DEF Places
  <2>. QED
    BY <1>0, <1>2, <1>6, <2>1, <2>2, <2>4 DEF Retires, Address, Fetch
<1>7. CASE I.op = "moffs"
  <2>1. Exec_mov_moffs /\ ~I.swap /\ prog.dst.in = "reg" /\ prog.dst.w = I.w /\ prog.dst.n = AX
        /\ prog.at = 0
    BY <1>7, Executes DEF LoadsFrom
  <2>2. Retires /\ reg' = SetReg(reg, I.w, AX, Fetch(mem, I.w, Address))
    BY <1>7, <2>1 DEF Exec_mov_moffs, Address
  <2>3. Address \in Cells /\ Address + 1 \in Cells /\ AX \in 0..7 /\ mem \in Memories
    <3>1. I.disp \in Words /\ 1 \in 0..3
      BY DEF IsInstruction
    <3>2. Address \in Cells /\ Address + 1 \in Cells
      BY <1>7, <3>1, SegWord, CellOf DEF Address
    <3>. QED
      BY <3>2, Names DEF TypeInv
  <2>4. Fits(I.w, Fetch(mem, I.w, Address))
    BY <1>0, <2>3, FetchFits
  <2>5. Loaded' = Fetch(mem, I.w, Address)
    BY <1>0, <1>1, <1>3, <2>1, <2>2, <2>3, <2>4
  <2>. QED
    BY <1>0, <1>2, <2>1, <2>2, <2>3, <2>5 DEF Retires
<1>8. CASE I.op \in {"les", "lds"}
  <2>. DEFINE name == IF I.op = "les" THEN "ES" ELSE "DS"
  <2>1. Exec_les
    BY <1>8, Executes
  <2>2. /\ Retires /\ reg' = [reg EXCEPT ![I.reg] = Fetch(mem, TRUE, Cell)]
        /\ seg' = [seg EXCEPT ![name] = Fetch(mem, TRUE, Cell + 2)]
    BY <1>0, <1>8, <2>1 DEF Exec_les, LoadsFar
  <2>3. prog.dst.w /\ Address = Cell
    BY <1>8 DEF LoadsFrom, Address
  <2>4. CASE prog.dst.in = "reg"
    <3>1. prog.dst.n = I.reg /\ prog.at = 0
      BY <1>8, <2>4 DEF LoadsFrom
    <3>2. Loaded' = Fetch(mem, TRUE, Cell)
      BY <1>0, <1>1, <2>2, <2>3, <2>4, <3>1 DEF GetReg, Registers
    <3>. QED
      BY <1>0, <1>2, <1>8, <2>2, <2>3, <3>1, <3>2 DEF Retires, Fetch
  <2>5. CASE prog.dst.in # "reg"
    <3>1. prog.dst.in = "seg" /\ prog.at = 2 /\ SregName[prog.dst.n] = name /\ name \in Segments
      BY <1>8, <2>5 DEF LoadsFrom, SregName, Segments
    <3>2. Loaded' = Fetch(mem, TRUE, Cell + 2)
      BY <1>0, <1>1, <2>2, <3>1 DEF Places
    <3>. QED
      BY <1>8, <2>2, <2>3, <3>1, <3>2 DEF Retires, Fetch
  <2>. QED
    BY <2>4, <2>5
<1>. QED
  BY <1>4, <1>5, <1>6, <1>7, <1>8 DEF LoadsFrom

\* So what was stored is loaded.
LEMMA LoadStep ==
    ASSUME TypeInv, PairInv, prog.kind = "pair", pc = prog.load, Next
    PROVE  PairInv'
<1>1. /\ prog.store \in 1..2 /\ prog.load = prog.store + 1 /\ prog.src.w \in BOOLEAN
      /\ IsInstruction(Ld) /\ LoadsFrom(Ld, prog.dst, prog.at)
  BY PairCode DEF IsInstruction
<1>2. I = Ld
  BY DEF I, Ld
<1>3. /\ prog' = prog /\ start' = start /\ Steady /\ Fits(prog.src.w, Stored)
      /\ mem = Write(start.mem, prog.src.w, StoreCell, Stored) /\ mem \in Memories
      /\ start.mem \in Memories
  BY <1>1, Executes DEF PairInv, TypeInv, IsStart
<1>4. Address = ListedCell(Ld) /\ Address \in Cells /\ \A j \in 0..3 : Address + j \in Cells
  BY <1>1, <1>2, <1>3, Listed DEF LoadsFrom
<1>5. /\ pc' = prog.load + 1 /\ Loaded' = Fetch(mem, prog.dst.w, LoadCell)
      /\ prog.dst.w \in BOOLEAN /\ prog.at \in {0, 2}
  BY <1>1, <1>2, <1>4, LoadEffect DEF LoadCell
<1>6. LoadCell \in Cells /\ LoadCell + 1 \in Cells
  <2>. DEFINE a == Address
  <2>1. a \in Int /\ a + 0 \in Cells /\ a + 1 \in Cells /\ a + 2 \in Cells /\ a + 3 \in Cells
    BY <1>4 DEF Cells
  <2>2. LoadCell = a + prog.at
    BY <1>4 DEF LoadCell
  <2>. HIDE DEF a
  <2>3. a + 2 + 1 = a + 3 /\ a + 0 + 1 = a + 1
    BY <2>1
  <2>. QED
    BY <1>5, <2>1, <2>2, <2>3
<1>7. StoreCell \in Cells
  BY <1>1 DEF PairInv
<1>8. ASSUME NEW k \in 0..(Width(prog.dst.w) - 1)
      PROVE  ByteOf(Loaded', k) =
                IF LoadCell + k \in StoreCell..(StoreCell + Width(prog.src.w) - 1)
                THEN ByteOf(Stored, LoadCell + k - StoreCell) ELSE start.mem[LoadCell + k]
  <2>1. ByteOf(Loaded', k) = mem[LoadCell + k] /\ LoadCell + k \in Cells
    BY <1>3, <1>5, <1>6, FetchByte
  <2>0. LoadCell + k - StoreCell = (LoadCell + k) - StoreCell
    <3>1. LoadCell \in Int /\ StoreCell \in Int
      BY <1>6, <1>7 DEF Cells
    <3>2. k \in Int
      BY <1>5 DEF Width
    <3>. QED
      BY <3>1, <3>2
  <2>. DEFINE w == prog.src.w
              c == LoadCell + k
              s == StoreCell
              v == Stored
  <2>2. c \in Cells /\ s \in Cells /\ w \in BOOLEAN /\ Fits(w, v)
        /\ mem = Write(start.mem, w, s, v) /\ c \in Int /\ s \in Int /\ ByteOf(Loaded', k) = mem[c]
    BY <1>1, <1>3, <1>7, <2>1 DEF Cells
  <2>. HIDE DEF c, s, v, w
  <2>3. mem[c] = IF c - s \in 0..(Width(w) - 1) THEN ByteOf(v, c - s) ELSE start.mem[c]
    BY <1>3, <2>2, WriteCell
  <2>4. c - s \in 0..(Width(w) - 1) <=> c \in s..(s + Width(w) - 1)
    BY <2>2 DEF Width
  <2>5. ByteOf(Loaded', k) = IF c \in s..(s + Width(w) - 1) THEN ByteOf(v, c - s) ELSE start.mem[c]
    BY <2>2, <2>3, <2>4
  <2>6. c = LoadCell + k /\ s = StoreCell /\ v = Stored /\ w = prog.src.w
    BY DEF c, s, v, w
  <2>. QED
    BY <2>0, <2>5, <2>6
<1>9. Kept'
  BY <1>3, <1>8, PairSame DEF Kept
<1>10. /\ pc' # 1 /\ ~(pc' <= prog'.load) /\ ~(pc' <= prog'.store)
       /\ pc' # prog'.store /\ pc' # prog'.load
  BY <1>1, <1>3, <1>5
<1>. QED
  BY <1>9, <1>10, Zenon DEF PairInv

\* The invariant holds at the start,
LEMMA PairInit == Init => PairInv
<1>. SUFFICES ASSUME Init, prog.kind = "pair" PROVE PairInv
  BY DEF PairInv
<1>1. TypeInv /\ pc = 1 /\ reg = start.reg /\ seg = start.seg /\ mem = start.mem
  BY InitType DEF Init
<1>2. /\ prog.store \in 1..2 /\ prog.load = prog.store + 1 /\ IsInstruction(St)
      /\ prog.store = 1 => StoresIn(St, prog.src)
  BY <1>1, PairCode
<1>3. Steady
  BY <1>1 DEF Steady
<1>4. prog.store = 1 => Sends(St, reg, seg) = Stored
  <2>1. reg \in Registers
    BY <1>1 DEF TypeInv
  <2>. QED
    BY <1>1, <1>2, <2>1, SendsStored
<1>5. pc = prog.store => prog.store = 1
  BY <1>1
<1>6. pc # prog.load /\ pc # prog.load + 1
  BY <1>1, <1>2
<1>. QED
  BY <1>1, <1>3, <1>4, <1>5, <1>6 DEF PairInv

\* every step keeps it,
LEMMA PairNext ==
    ASSUME TypeInv, PairInv, [Next]_vars
    PROVE  PairInv'
<1>1. CASE UNCHANGED vars
  <2>1. /\ prog' = prog /\ pc' = pc /\ reg' = reg /\ seg' = seg /\ mem' = mem /\ start' = start
    BY <1>1 DEF vars
  <2>2. Steady' = Steady /\ Sends(St', reg', seg') = Sends(St, reg, seg) /\ Loaded' = Loaded
    BY <2>1, PairSame DEF Steady, Loaded
  <2>3. Kept => Kept'
    BY <2>1, <2>2, PairSame DEF Kept
  <2>. QED
    BY <2>1, <2>2, <2>3, PairSame DEF PairInv
<1>2. CASE Next
  <2>1. prog' = prog /\ pc <= Len(prog.code)
    BY <1>2, Executes
  <2>2. CASE prog.kind # "pair"
    BY <2>1, <2>2 DEF PairInv
  <2>3. CASE prog.kind = "pair"
    <3>1. /\ prog.store \in 1..2 /\ prog.load = prog.store + 1 /\ Len(prog.code) = prog.load
          /\ pc \in 1..(prog.store + 2)
      BY <2>3, PairCode
    <3>2. pc < prog.store \/ pc = prog.store \/ pc = prog.load
      BY <2>1, <3>1
    <3>. QED
      BY <1>2, <2>3, <3>2, PrepareStep, StoreStep, LoadStep
  <2>. QED
    BY <2>2, <2>3
<1>. QED
  BY <1>1, <1>2

\* and at the end it is what was to be shown.
LEMMA PairDone ==
    ASSUME TypeInv, PairInv
    PROVE  StoredIsLoaded
<1>. SUFFICES ASSUME Pair PROVE StoredIsLoaded
  BY DEF StoredIsLoaded
<1>1. prog.kind = "pair" /\ pc = prog.load + 1
  BY PairCode DEF Pair, Done
<1>2. Kept
  BY <1>1 DEF PairInv
<1>. QED
  BY <1>2, Zenon DEF StoredIsLoaded, Kept, StoreCell, LoadCell, St, Ld

\* What one instruction stores another loads, whichever forms and widths the two use, if
\* and only if their operands read as overlapping addresses in a listing, for every width
\* of byte and word and place of the segments (sx86_exec_full_..., mov.c, les and lds).
THEOREM StoreCorrect == Spec => []StoredIsLoaded
<1>1. Init => TypeInv /\ PairInv
  BY InitType, PairInit
<1>2. TypeInv /\ PairInv /\ [Next]_vars => (TypeInv /\ PairInv)'
  BY NextType, PairNext
<1>3. TypeInv /\ PairInv => StoredIsLoaded
  BY PairDone
<1>. QED
  BY <1>1, <1>2, <1>3, PTL DEF Spec

=============================================================================
