---------------------------- MODULE Softx86Stack ----------------------------
(***************************************************************************)
(* The stack of softx86: softx86_stack_pushw and popw over the bytes at     *)
(* SS:SP, and the instructions built from them (softx86/pushpop.c,          *)
(* procframe.c, the calls of jumpy.c and groupies.c, and the interrupt      *)
(* frame).                                                                 *)
(*                                                                         *)
(* Programs are arbitrary but disciplined: what an instruction opens (a     *)
(* pushed word, a call, an interrupt, a stack frame, PUSHA) is closed by    *)
(* its counterpart, innermost first.  "open" remembers, for the properties  *)
(* only, the registers at each opening; no instruction reads a value of it. *)
(***************************************************************************)
EXTENDS Integers, Sequences

CONSTANTS
    Byte, Word,     \* moduli of bytes and of the 16-bit registers
    Level,          \* CPU level: 0 = 8088, 1 = 8086, 2 = 80186, 3 = 80286
    StartSP,        \* values of SP a program may start with
    StartIP,        \* values of IP a program may start with
    Targets,        \* where calls and interrupts go: [seg, ofs]
    Pushed,         \* registers programs push, and pop into, one by one
    Through,        \* registers programs call and jump through
    Sizes, Levels,  \* operands of ENTER: bytes of locals, nesting level
    Args,           \* operands of RET n and RETF n, in bytes
    MaxOps          \* bound: instructions executed in a behaviour, closings included

General == {"ax", "cx", "dx", "bx", "si", "di"}
Regs    == General \cup {"sp", "bp"}
Words   == 0..Word - 1
Kinds   == {"word", "flags", "near", "far", "int", "frame", "all"}

\* At least three values of a byte, for the registers to start different.
ASSUME ByteAssumption ==
    /\ Byte \in Nat \ 0..2 /\ Word = Byte * Byte /\ Word % 2 = 0
    /\ Level \in 0..3

ASSUME OperandAssumption ==
    /\ StartSP \subseteq Words /\ StartIP \subseteq Words
    /\ Targets \subseteq [seg : Words, ofs : Words]
    /\ Pushed \subseteq Regs /\ Through \subseteq Regs
    /\ \A n \in Sizes \cup Args : n \in Nat /\ n % 2 = 0
    /\ Levels \subseteq 0..31
    /\ MaxOps \in Nat

VARIABLES
    reg,        \* general registers, SP and BP
    mem,        \* bytes of the stack segment and the byte after it
    flags,      \* reg_flags, of which only IF: 0 or 1
    cs, ip,     \* IP is a 32-bit field
    decrement_sp_before_store,  \* bug switch: PUSH SP of a CPU before the 286
    open,       \* openings not yet closed, innermost first
    depth,      \* bytes of stack in use
    ops         \* instructions executed so far (bounded)

vars == <<reg, mem, flags, cs, ip, decrement_sp_before_store, open, depth, ops>>

-----------------------------------------------------------------------------
(***************************************************************************)
(* softx86_stack_pushw and softx86_stack_popw.  SP wraps; the address of    *)
(* the second byte of a word does not.                                     *)
(***************************************************************************)
Stack == [sp |-> reg["sp"], mem |-> mem]

\* Mutant: the word is stored first and SP decremented after.
pushw_late(s, w) ==
    [sp  |-> (s.sp - 2) % Word,
     mem |-> [s.mem EXCEPT ![s.sp] = w % Byte, ![s.sp + 1] = (w \div Byte) % Byte]]

\* Mutant: SP is decremented without wrapping.
pushw_nowrap(s, w) ==
    [sp  |-> s.sp - 2,
     mem |-> [s.mem EXCEPT ![s.sp - 2] = w % Byte, ![s.sp - 1] = (w \div Byte) % Byte]]

pushw(s, w) ==
    LET sp == (s.sp - 2) % Word
    IN  [sp  |-> sp,
         mem |-> [s.mem EXCEPT ![sp] = w % Byte, ![sp + 1] = (w \div Byte) % Byte]]

pushw2(s, v, w)    == pushw(pushw(s, v), w)
pushw3(s, u, v, w) == pushw(pushw2(s, u, v), w)

WordAt(a) == mem[a] + Byte * mem[a + 1]

\* The k-th word from the top, 0 being the one the next popw returns.
Popped(k) == WordAt((reg["sp"] + 2 * k) % Word)
Above(n)  == (reg["sp"] + n) % Word     \* SP once n bytes are popped or discarded

-----------------------------------------------------------------------------
(***************************************************************************)
(* Openings and closings.                                                  *)
(***************************************************************************)
Fetch == ops < MaxOps /\ ops' = ops + 1 /\ UNCHANGED decrement_sp_before_store

\* The bound leaves room to close everything that is open.
Left(n) == Len(open) + n < MaxOps - ops

\* The program keeps its stack within the segment.
Room(n) == depth + n <= Word

Opens(kind, n, next, word) ==
    /\ Left(1) /\ Room(n) /\ depth' = depth + n
    /\ open' = <<[kind |-> kind, reg |-> reg, flags |-> flags, cs |-> cs, ip |-> next,
                  word |-> word, depth |-> depth]>> \o open

\* The k-th opening and those inside it are closed, and n more bytes discarded.
Closes(k, n) ==
    /\ open' = SubSeq(open, k + 1 + n \div 2, Len(open))
    /\ depth' = open[k].depth - n

Innermost(kind) == open # << >> /\ Head(open).kind = kind

\* n bytes of argument words lie below the innermost opening.
Arguments(n) ==
    \A k \in 2..(n \div 2) + 1 : k <= Len(open) /\ open[k].kind = "word"

Store(s) == reg' = [reg EXCEPT !["sp"] = s.sp] /\ mem' = s.mem

-----------------------------------------------------------------------------
Init ==
    /\ \E sp \in StartSP :
          reg = [r \in Regs |-> CASE r = "sp" -> sp [] r = "ax" -> 1 [] r = "cx" -> 2
                                  [] r = "dx" -> 3 [] r = "bx" -> 4 [] OTHER -> 5]
    /\ mem = [a \in 0..Word |-> 0]
    /\ flags = 0 /\ cs = 0 /\ ip \in StartIP
    /\ decrement_sp_before_store \in BOOLEAN
    /\ open = << >> /\ depth = 0 /\ ops = 0

\* softx86_setbug(SX86_BUG_SP_DECREMENT_BEFORE_STORE), between two instructions.
setbug ==
    /\ decrement_sp_before_store' = ~decrement_sp_before_store
    /\ UNCHANGED <<reg, mem, flags, cs, ip, open, depth, ops>>

\* The rest of the instruction set: registers change, STI is executed.
Compute ==
    /\ Fetch /\ Left(0) /\ ip' = ip + 1
    /\ reg' = [r \in Regs |-> IF r \in General THEN (reg[r] + 1) % Word ELSE reg[r]]
    /\ flags' = 1
    /\ UNCHANGED <<mem, cs, open, depth>>

PushValue(r) == IF r = "sp" /\ decrement_sp_before_store THEN (reg["sp"] - 2) % Word ELSE reg[r]

Exec_push(r) ==
    /\ Fetch /\ ip' = ip + 1
    /\ Opens("word", 2, ip, PushValue(r))
    /\ Store(pushw(Stack, PushValue(r)))
    /\ UNCHANGED <<flags, cs>>

Exec_pushf ==
    /\ Fetch /\ ip' = ip + 1
    /\ Opens("flags", 2, ip, flags)
    /\ Store(pushw(Stack, flags))
    /\ UNCHANGED <<flags, cs>>

\* POP SP and POP BP are left out: they are no closing of a PUSH.
Exec_pop(r) ==
    /\ Fetch /\ ip' = ip + 1
    /\ Innermost("word") /\ Closes(1, 0)
    /\ reg' = [reg EXCEPT !["sp"] = Above(2), ![r] = Popped(0)]
    /\ UNCHANGED <<mem, flags, cs>>

Exec_popf ==
    /\ Fetch /\ ip' = ip + 1
    /\ Innermost("flags") /\ Closes(1, 0)
    /\ reg' = [reg EXCEPT !["sp"] = Above(2)] /\ flags' = Popped(0)
    /\ UNCHANGED <<mem, cs>>

\* The fifth word is SP: as it was before PUSHA, or on an old CPU as it is by then.
Exec_pusha ==
    LET s  == pushw(pushw3(Stack, reg["ax"], reg["cx"], reg["dx"]), reg["bx"])
        sp == IF decrement_sp_before_store THEN s.sp ELSE reg["sp"]
    IN  /\ Level >= 2 /\ Fetch /\ ip' = ip + 1
        /\ Opens("all", 16, ip, sp)
        /\ Store(pushw3(pushw(s, sp), reg["bp"], reg["si"], reg["di"]))
        /\ UNCHANGED <<flags, cs>>

\* Mutant: POPA takes the word PUSHA stored for SP as the new SP.
Exec_popa_sp ==
    /\ Level >= 2 /\ Fetch /\ ip' = ip + 1
    /\ Innermost("all") /\ Closes(1, 0)
    /\ reg' = [reg EXCEPT !["di"] = Popped(0), !["si"] = Popped(1), !["bp"] = Popped(2),
                          !["bx"] = Popped(4), !["dx"] = Popped(5), !["cx"] = Popped(6),
                          !["ax"] = Popped(7), !["sp"] = Popped(3)]
    /\ UNCHANGED <<mem, flags, cs>>

Exec_popa ==
    /\ Level >= 2 /\ Fetch /\ ip' = ip + 1
    /\ Innermost("all") /\ Closes(1, 0)
    /\ reg' = [reg EXCEPT !["di"] = Popped(0), !["si"] = Popped(1), !["bp"] = Popped(2),
                          !["bx"] = Popped(4), !["dx"] = Popped(5), !["cx"] = Popped(6),
                          !["ax"] = Popped(7), !["sp"] = Above(16)]
    /\ UNCHANGED <<mem, flags, cs>>

-----------------------------------------------------------------------------
(***************************************************************************)
(* Calls, interrupts and returns.                                          *)
(***************************************************************************)
Call_near(t) ==
    /\ Fetch
    /\ Opens("near", 2, ip + 3, 0)
    /\ Store(pushw(Stack, (ip + 3) % Word))
    /\ ip' = t.ofs
    /\ UNCHANGED <<flags, cs>>

\* Mutant: the mistake of two early releases, offset before segment.
Call_far_swapped(t) ==
    /\ Fetch
    /\ Opens("far", 4, ip + 5, 0)
    /\ Store(pushw2(Stack, (ip + 5) % Word, cs))
    /\ cs' = t.seg /\ ip' = t.ofs
    /\ UNCHANGED flags

Call_far(t) ==
    /\ Fetch
    /\ Opens("far", 4, ip + 5, 0)
    /\ Store(pushw2(Stack, cs, (ip + 5) % Word))
    /\ cs' = t.seg /\ ip' = t.ofs
    /\ UNCHANGED flags

\* CALL and JMP through an operand, here a register r (two bytes of code) or memory
\* at BP (three), which is read before anything is pushed.
PointerAtBP == reg["bp"] + 3 <= Word
NearTargets ==
    {[ofs |-> reg[r], len |-> 2] : r \in Through}
    \cup (IF PointerAtBP THEN {[ofs |-> WordAt(reg["bp"]), len |-> 3]} ELSE {})

Call_rm(t) ==
    /\ Fetch
    /\ Opens("near", 2, ip + t.len, 0)
    /\ Store(pushw(Stack, (ip + t.len) % Word))
    /\ ip' = t.ofs
    /\ UNCHANGED <<flags, cs>>

Call_far_rm ==
    /\ Fetch /\ PointerAtBP
    /\ Opens("far", 4, ip + 3, 0)
    /\ Store(pushw2(Stack, cs, (ip + 3) % Word))
    /\ cs' = WordAt(reg["bp"] + 2) /\ ip' = WordAt(reg["bp"])
    /\ UNCHANGED flags

Jmp_rm(t) ==
    /\ Fetch /\ Left(0) /\ ip' = t.ofs
    /\ UNCHANGED <<reg, mem, flags, cs, open, depth>>

\* A procedure called near is left by a far jump only within its segment.
Jmp_far_rm ==
    /\ Fetch /\ Left(0) /\ PointerAtBP
    /\ \/ WordAt(reg["bp"] + 2) = cs
       \/ \A k \in 1..Len(open) :
             open[k].kind = "near" => \E j \in 1..k - 1 : open[j].kind \in {"far", "int"}
    /\ cs' = WordAt(reg["bp"] + 2) /\ ip' = WordAt(reg["bp"])
    /\ UNCHANGED <<reg, mem, flags, open, depth>>

\* Mutant: IF is cleared before the flags are pushed.
go_int_frame_cleared(t, n) ==
    /\ Fetch
    /\ Opens("int", 6, ip + n, 0)
    /\ Store(pushw3(Stack, 0, cs, (ip + n) % Word))
    /\ flags' = 0 /\ cs' = t.seg /\ ip' = t.ofs

\* INT n takes two bytes of code, an interrupt of the hardware none.
go_int_frame(t, n) ==
    /\ Fetch
    /\ Opens("int", 6, ip + n, 0)
    /\ Store(pushw3(Stack, flags, cs, (ip + n) % Word))
    /\ flags' = 0 /\ cs' = t.seg /\ ip' = t.ofs

Ret(n) ==
    /\ Fetch
    /\ Innermost("near") /\ Arguments(n) /\ Closes(1, n)
    /\ ip' = Popped(0) /\ reg' = [reg EXCEPT !["sp"] = Above(2 + n)]
    /\ UNCHANGED <<mem, flags, cs>>

Retf(n) ==
    /\ Fetch
    /\ Innermost("far") /\ Arguments(n) /\ Closes(1, n)
    /\ ip' = Popped(0) /\ cs' = Popped(1) /\ reg' = [reg EXCEPT !["sp"] = Above(4 + n)]
    /\ UNCHANGED <<mem, flags>>

Iret ==
    /\ Fetch
    /\ Innermost("int") /\ Closes(1, 0)
    /\ ip' = Popped(0) /\ cs' = Popped(1) /\ flags' = Popped(2)
    /\ reg' = [reg EXCEPT !["sp"] = Above(6)]
    /\ UNCHANGED mem

-----------------------------------------------------------------------------
(***************************************************************************)
(* ENTER and LEAVE.  SP is set from BP, so the display that ENTER pushes     *)
(* does not count: it lies where the locals are, or below SP.              *)
(***************************************************************************)
\* The loop of ENTER: BP itself, two less each time, is pushed l - 1 times.
Display(s, l) ==
    LET d[i \in Nat] == IF i = 0 THEN s ELSE pushw(d[i - 1], (reg["bp"] - 2 * i) % Word)
    IN  d[l - 1]

\* Mutant: BP is taken after the display instead of before it.
Enter_late(size, l) ==
    LET s == pushw(Stack, reg["bp"])
        t == IF l > 0 THEN pushw(Display(s, l), s.sp) ELSE s
    IN  /\ Level >= 1 /\ Fetch /\ ip' = ip + 4
        /\ Room(2 + 2 * l) /\ Opens("frame", 2 + size, ip, 0)
        /\ reg' = [reg EXCEPT !["bp"] = t.sp, !["sp"] = (t.sp - size) % Word]
        /\ mem' = t.mem
        /\ UNCHANGED <<flags, cs>>

Enter(size, l) ==
    LET s == pushw(Stack, reg["bp"])
        t == IF l > 0 THEN pushw(Display(s, l), s.sp) ELSE s
    IN  /\ Level >= 1 /\ Fetch /\ ip' = ip + 4
        /\ Room(2 + 2 * l) /\ Opens("frame", 2 + size, ip, 0)
        /\ reg' = [reg EXCEPT !["bp"] = s.sp, !["sp"] = (s.sp - size) % Word]
        /\ mem' = t.mem
        /\ UNCHANGED <<flags, cs>>

\* LEAVE drops the locals and whatever words were pushed inside the frame.
Leave ==
    /\ Level >= 1 /\ Fetch /\ ip' = ip + 1
    /\ \E k \in 1..Len(open) :
          /\ open[k].kind = "frame" /\ \A j \in 1..k - 1 : open[j].kind \in {"word", "flags"}
          /\ Closes(k, 0)
    /\ reg' = [reg EXCEPT !["bp"] = WordAt(reg["bp"]), !["sp"] = (reg["bp"] + 2) % Word]
    /\ UNCHANGED <<mem, flags, cs>>

Next ==
    \/ setbug \/ Compute
    \/ \E r \in Pushed : Exec_push(r)
    \/ \E r \in Pushed \cap General : Exec_pop(r)
    \/ Exec_pushf \/ Exec_popf \/ Exec_pusha \/ Exec_popa
    \/ \E t \in Targets : Call_near(t) \/ Call_far(t) \/ \E n \in {0, 2} : go_int_frame(t, n)
    \/ \E n \in Args : Ret(n) \/ Retf(n)
    \/ Iret
    \/ \E t \in NearTargets : Call_rm(t) \/ Jmp_rm(t)
    \/ Call_far_rm \/ Jmp_far_rm
    \/ \E size \in Sizes, l \in Levels : Enter(size, l)
    \/ Leave

Spec == Init /\ [][Next]_vars

-----------------------------------------------------------------------------
(***************************************************************************)
(* Properties.                                                             *)
(***************************************************************************)
Opening == [kind : Kinds, reg : [Regs -> Words], flags : 0..1, cs : Words, ip : Nat,
            word : Words, depth : 0..Word]

\* Types: registers stay within 16 bits and bytes within 8; IP may not.
TypeOK ==
    /\ reg \in [Regs -> Words] /\ mem \in [0..Word -> 0..Byte - 1]
    /\ flags \in 0..1 /\ cs \in Words /\ ip \in Nat /\ decrement_sp_before_store \in BOOLEAN
    /\ open \in Seq(Opening)
    /\ depth \in 0..Word /\ ops \in 0..MaxOps

\* The words an opening e has on the stack, first pushed first (of ENTER, the saved BP).
Saved(e) ==
    CASE e.kind = "word"  -> <<e.word>>
      [] e.kind = "flags" -> <<e.flags>>
      [] e.kind = "near"  -> <<e.ip % Word>>
      [] e.kind = "far"   -> <<e.cs, e.ip % Word>>
      [] e.kind = "int"   -> <<e.flags, e.cs, e.ip % Word>>
      [] e.kind = "frame" -> <<e.reg["bp"]>>
      [] e.kind = "all"   -> <<e.reg["ax"], e.reg["cx"], e.reg["dx"], e.reg["bx"],
                               e.word, e.reg["bp"], e.reg["si"], e.reg["di"]>>

\* What each opening stored is in memory, untouched, until it is closed, however
\* deep calls, frames and interrupts nest above it and even when the stack wraps
\* around or fills its whole segment; and SP agrees with the bytes in use.
StackImage ==
    \A k \in 1..Len(open) :
        LET e == open[k]
        IN  /\ \A i \in 1..Len(Saved(e)) :
                  WordAt((e.reg["sp"] - 2 * i) % Word) = Saved(e)[i]
            /\ (e.reg["sp"] + e.depth) % Word = (reg["sp"] + depth) % Word

\* RET and RETF go back to the instruction after their call, in the caller's
\* segment, with the arguments gone and BP as the caller had it.
CallsReturn ==
    [][\A n \in Args : Ret(n) \/ Retf(n) =>
          LET e == Head(open)
          IN  /\ cs' = e.cs /\ ip' = e.ip % Word
              /\ reg'["sp"] = (e.reg["sp"] + n) % Word /\ reg'["bp"] = e.reg["bp"]]_vars

\* An interrupt, whatever its handler calls and pushes, gives back CS:IP, the
\* flags and both stack registers of the program it interrupted.
InterruptsTransparent ==
    [][Iret => LET e == Head(open)
               IN  /\ cs' = e.cs /\ ip' = e.ip % Word /\ flags' = e.flags
                   /\ reg'["sp"] = e.reg["sp"] /\ reg'["bp"] = e.reg["bp"]]_vars

\* LEAVE undoes ENTER of any nesting level: SP and BP are the caller's again,
\* whatever was left on the stack inside the frame.
FramesUnwind ==
    [][Leave => \E k \in 1..Len(open) :
                   /\ open[k].kind = "frame" /\ open' = SubSeq(open, k + 1, Len(open))
                   /\ reg'["sp"] = open[k].reg["sp"] /\ reg'["bp"] = open[k].reg["bp"]]_vars

\* POPA gives back every register PUSHA saved, SP included, on old and new CPUs.
RegistersBack == [][Exec_popa => reg' = Head(open).reg]_vars

=============================================================================
