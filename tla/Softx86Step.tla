---------------------------- MODULE Softx86Step ----------------------------
(***************************************************************************)
(* softx86_step and the interrupt logic around it (softx86/softx86.c), with *)
(* the opcode handlers that decide how a step ends: prefixes, HLT/WAIT,     *)
(* CLI/STI, software interrupts, IRET, jumps and the string instructions.   *)
(*                                                                         *)
(* One call of softx86_step is a sequence of actions, cut where the library *)
(* calls back into the host application.  The host may raise interrupts     *)
(* from those callbacks as well as between two calls.                       *)
(*                                                                         *)
(* Code is a function from linear addresses to decoded instructions; the    *)
(* operand bytes of an instruction take room but hold no instruction.       *)
(***************************************************************************)
EXTENDS Integers, Sequences

CONSTANTS
    Word,           \* modulus of the 16-bit registers
    Para,           \* bytes per segment step: SEGMENT_TO_LINEAR(x) = x * Para
    StepLimit,      \* iterations softx86_step allows one instruction (16 in C)
    IntNo,          \* interrupt numbers the model uses
    NmiVector,      \* number pushed through the vector table by an NMI (2 in C)
    Vector,         \* interrupt vector table: IntNo -> [seg, ofs]
    Entry,          \* CS:IP the host sets after a reset (Cpu.reset)
    Program, Code,  \* the programs to run, and the code memory of each:
                    \* Code[p] is a function from linear addresses to Instr
    Level,          \* CPU level: 0 = 8088, 1 = 8086, 2 = 80186, 3 = 80286
    SetBugValues,   \* values the host may pass to softx86_setbug
    Junk,           \* what IRET can find on an empty stack
    MaxHostCalls,   \* bound: interrupts and resets the host issues in a behaviour
    MaxFrames       \* bound: the host stops stepping above this stack depth

PrefixOps == {"segover", "rep", "repnz", "lock"}
StringOps  == {"movs", "scas"}
Ops == PrefixOps \cup StringOps \cup
       {"hlt", "wait", "cli", "sti", "int3", "intn", "into", "iret", "jmp",
        "jmpf", "jc", "jcxz", "loop", "loopz", "movcx", "movdi", "nop", "bad"}

FarPtr == [seg : Nat, ofs : Nat]
Instr  == [op : Ops, arg : Int, seg : Nat]
Frame  == [fl : BOOLEAN, cs : Nat, ip : Nat]

ASSUME WidthAssumption ==
    /\ Word \in Nat \ {0}
    /\ Para \in Nat \ {0}
    /\ StepLimit \in Nat \ {0, 1}
    /\ MaxHostCalls \in Nat
    /\ MaxFrames \in Nat
    /\ Level \in 0..3
    /\ SetBugValues \subseteq BOOLEAN

ASSUME VectorAssumption ==
    /\ IntNo \subseteq Nat
    /\ {NmiVector, 3, 4} \subseteq IntNo
    /\ Vector \in [IntNo -> FarPtr]
    /\ Entry \in FarPtr
    /\ Junk \subseteq Frame

ASSUME ProgramAssumption ==
    \A p \in Program :
        /\ DOMAIN Code[p] \subseteq Nat
        /\ \A a \in DOMAIN Code[p] :
               /\ Code[p][a] \in Instr
               /\ Code[p][a].op = "intn" => Code[p][a].arg \in IntNo

VARIABLES
    program,                    \* the program in memory, fixed for a behaviour
    cs, reg_ip,                 \* CS with its hidden base; IP is a 32-bit field
    int_enable,                 \* IF in reg_flags
    reg_cx, reg_di,             \* CX, and DI in elements moved
    frames,                     \* interrupt frames on the stack, newest first
    rep_flag,                   \* 0, 1 = REPNZ, 2 = REP
    is_segment_override,
    int_hw_flag, int_hw, int_nmi,
    preemptible_after_prefix,   \* the 8086 bug switch
    reg_cs_exec_initial, reg_ip_exec_initial,
    pc,                         \* where the call of softx86_step is
    count, can_hwint, restart, err, opcode,     \* its locals; err is its result
    host_calls                  \* interrupts and resets issued so far (bounded)

regs   == <<cs, reg_ip, int_enable, reg_cx, reg_di, frames>>
prefix == <<rep_flag, is_segment_override>>
lines  == <<int_hw_flag, int_hw, int_nmi, host_calls>>
saved  == <<reg_cs_exec_initial, reg_ip_exec_initial>>
locals == <<pc, count, can_hwint, restart, err, opcode>>
host   == <<program, preemptible_after_prefix>>
vars   == <<regs, prefix, lines, saved, locals, host>>

-----------------------------------------------------------------------------
Linear(seg) == seg * Para
SegVal(seg) == [val |-> seg, cached_linear |-> Linear(seg)]

Unmapped == [op |-> "bad", arg |-> 0, seg |-> 0]
MemAt(p, a) == IF a \in DOMAIN Code[p] THEN Code[p][a] ELSE Unmapped

\* Operand bytes that follow the opcode byte.
Operands(op) == CASE op \in {"intn", "jmp", "jc", "jcxz", "loop", "loopz"} -> 1
                  [] op \in {"movcx", "movdi"} -> 2
                  [] op = "jmpf" -> 4
                  [] OTHER -> 0

Past   == reg_ip + Operands(opcode.op)      \* IP once the operands are fetched
Target == (Past + opcode.arg) % Word        \* of a relative jump

set_instruction_ptr(seg, ip) == cs' = SegVal(seg) /\ reg_ip' = ip

\* Mutant: the frame returns to the instruction that took the interrupt.
FrameAtStart(ip) == [fl |-> int_enable, cs |-> cs.val, ip |-> reg_ip_exec_initial % Word]

FrameAt(ip) == [fl |-> int_enable, cs |-> cs.val, ip |-> ip % Word]

\* Mutant: CS is loaded before it is pushed.
go_int_frame_late(i, ip) ==
    /\ frames' = <<[FrameAt(ip) EXCEPT !.cs = Vector[i].seg]>> \o frames
    /\ int_enable' = FALSE
    /\ set_instruction_ptr(Vector[i].seg, Vector[i].ofs)

go_int_frame(i, ip) ==
    /\ frames' = <<FrameAt(ip)>> \o frames
    /\ int_enable' = FALSE
    /\ set_instruction_ptr(Vector[i].seg, Vector[i].ofs)

\* softx86_reset followed by the host's softx86_set_instruction_ptr.
Init ==
    /\ program \in Program
    /\ cs = SegVal(Entry.seg) /\ reg_ip = Entry.ofs
    /\ int_enable = FALSE /\ reg_cx = 0 /\ reg_di = 0 /\ frames = << >>
    /\ rep_flag = 0 /\ is_segment_override = FALSE
    /\ int_hw_flag = FALSE /\ int_hw = 0 /\ int_nmi = FALSE /\ host_calls = 0
    /\ preemptible_after_prefix = IF Level <= 1 THEN TRUE ELSE FALSE
    /\ reg_cs_exec_initial = 0 /\ reg_ip_exec_initial = 0
    /\ pc = "host" /\ count = StepLimit /\ can_hwint = TRUE
    /\ restart = FALSE /\ err = FALSE /\ opcode = Unmapped

-----------------------------------------------------------------------------
(***************************************************************************)
(* The host application.                                                   *)
(***************************************************************************)
\* Places where the host runs: between steps, in the two acknowledge
\* callbacks, and in the memory callback of the opcode fetch.
HostRuns == pc \in {"host", "nmi_ack", "int_ack", "exec"}

ext_hw_signal(i) ==
    /\ HostRuns /\ host_calls < MaxHostCalls
    /\ ~int_hw_flag
    /\ int_hw_flag' = TRUE /\ int_hw' = i /\ host_calls' = host_calls + 1
    /\ UNCHANGED <<regs, prefix, int_nmi, saved, locals, host>>

ext_hw_nmi_signal ==
    /\ HostRuns /\ host_calls < MaxHostCalls
    /\ ~int_nmi
    /\ int_nmi' = TRUE /\ host_calls' = host_calls + 1
    /\ UNCHANGED <<regs, prefix, int_hw_flag, int_hw, saved, locals, host>>

setbug(on) ==
    /\ pc = "host" /\ preemptible_after_prefix # on
    /\ preemptible_after_prefix' = on
    /\ UNCHANGED <<regs, prefix, lines, saved, locals, program>>

\* softx86_reset leaves int_hw, the prefix state and the saved pointer alone.
reset ==
    /\ pc = "host" /\ host_calls < MaxHostCalls
    /\ set_instruction_ptr(Entry.seg, Entry.ofs)
    /\ int_enable' = FALSE /\ reg_cx' = 0 /\ reg_di' = 0 /\ frames' = << >>
    /\ int_hw_flag' = FALSE /\ int_nmi' = FALSE
    /\ preemptible_after_prefix' = IF Level <= 1 THEN TRUE ELSE FALSE
    /\ host_calls' = host_calls + 1
    /\ UNCHANGED <<prefix, int_hw, saved, locals, program>>

Host == \/ \E i \in IntNo : ext_hw_signal(i)
        \/ ext_hw_nmi_signal
        \/ \E on \in SetBugValues : setbug(on)
        \/ reset

-----------------------------------------------------------------------------
(***************************************************************************)
(* softx86_step: prologue, head of the loop, acknowledge, fetch, epilogue.  *)
(***************************************************************************)
\* Mutant: the prologue forgets to clear the prefixes of the last step.
StepBeginStale ==
    /\ pc = "host" /\ Len(frames) <= MaxFrames
    /\ reg_cs_exec_initial' = cs.val /\ reg_ip_exec_initial' = reg_ip
    /\ count' = StepLimit /\ can_hwint' = TRUE /\ restart' = FALSE /\ err' = FALSE
    /\ pc' = "loop"
    /\ UNCHANGED <<regs, prefix, lines, opcode, host>>

StepBegin ==
    /\ pc = "host" /\ Len(frames) <= MaxFrames
    /\ rep_flag' = 0 /\ is_segment_override' = FALSE
    /\ reg_cs_exec_initial' = cs.val /\ reg_ip_exec_initial' = reg_ip
    /\ count' = StepLimit /\ can_hwint' = TRUE /\ restart' = FALSE /\ err' = FALSE
    /\ pc' = "loop"
    /\ UNCHANGED <<regs, lines, opcode, host>>

\* Mutant: interrupts are looked at with the bug switch on only.
MayInterruptBug == preemptible_after_prefix

MayInterrupt == can_hwint \/ preemptible_after_prefix

\* Mutant: can_hwint stays set after the first iteration.
EnterLoopOpen(next) ==
    /\ pc = "loop" /\ count > 0
    /\ count' = count - 1 /\ UNCHANGED can_hwint
    /\ pc' = next

\* while (lp && count-- > 0): the decrement happens on both outcomes.
EnterLoop(next) ==
    /\ pc = "loop" /\ count > 0
    /\ count' = count - 1 /\ can_hwint' = FALSE
    /\ pc' = next

TakeNmi ==
    /\ EnterLoop("nmi_ack")
    /\ MayInterrupt /\ int_nmi
    /\ go_int_frame(NmiVector, reg_ip)
    /\ UNCHANGED <<reg_cx, reg_di, prefix, lines, saved, restart, err, opcode, host>>

\* Mutant: the INT line is looked at before the NMI.
TakeIntFirst ==
    /\ EnterLoop("int_ack")
    /\ MayInterrupt /\ int_enable /\ int_hw_flag
    /\ go_int_frame(int_hw, reg_ip)
    /\ UNCHANGED <<reg_cx, reg_di, prefix, lines, saved, restart, err, opcode, host>>

TakeInt ==
    /\ EnterLoop("int_ack")
    /\ MayInterrupt /\ ~int_nmi /\ int_enable /\ int_hw_flag
    /\ go_int_frame(int_hw, reg_ip)
    /\ UNCHANGED <<reg_cx, reg_di, prefix, lines, saved, restart, err, opcode, host>>

NoInterrupt ==
    /\ EnterLoop("fetch")
    /\ ~(MayInterrupt /\ (int_nmi \/ (int_enable /\ int_hw_flag)))
    /\ UNCHANGED <<regs, prefix, lines, saved, restart, err, opcode, host>>

LoopExhausted ==
    /\ pc = "loop" /\ count <= 0
    /\ count' = count - 1
    /\ pc' = "end"
    /\ UNCHANGED <<regs, prefix, lines, saved, can_hwint, restart, err, opcode, host>>

\* Mutant: the latch is left set after the acknowledge.
ext_hw_ack_kept ==
    /\ pc = "int_ack" /\ pc' = "fetch"
    /\ UNCHANGED <<regs, prefix, lines, saved,
                   count, can_hwint, restart, err, opcode, host>>

\* The line is cleared after the callback returns.
ext_hw_nmi_ack ==
    /\ pc = "nmi_ack"
    /\ int_nmi' = FALSE /\ pc' = "fetch"
    /\ UNCHANGED <<regs, prefix, int_hw_flag, int_hw, host_calls, saved,
                   count, can_hwint, restart, err, opcode, host>>

ext_hw_ack ==
    /\ pc = "int_ack"
    /\ int_hw_flag' = FALSE /\ int_hw' = 0 /\ pc' = "fetch"
    /\ UNCHANGED <<regs, prefix, int_nmi, host_calls, saved,
                   count, can_hwint, restart, err, opcode, host>>

\* IP is not wrapped: it is a 32-bit field and the wrap is left as a TODO.
fetch_exec_byte ==
    /\ pc = "fetch"
    /\ opcode' = MemAt(program, cs.cached_linear + reg_ip)
    /\ reg_ip' = reg_ip + 1
    /\ pc' = "exec"
    /\ UNCHANGED <<cs, int_enable, reg_cx, reg_di, frames, prefix, lines, saved,
                   count, can_hwint, restart, err, host>>

\* A restart puts back the value of CS and IP, not the hidden base of CS.
StepEnd ==
    /\ pc = "end"
    /\ LET rollback == restart \/ count <= 0
       IN  /\ cs' = IF rollback THEN [cs EXCEPT !.val = reg_cs_exec_initial] ELSE cs
           /\ reg_ip' = IF rollback THEN reg_ip_exec_initial ELSE reg_ip
    /\ err' = (err \/ count <= 0)
    /\ pc' = "host"
    /\ UNCHANGED <<int_enable, reg_cx, reg_di, frames, prefix, lines, saved,
                   count, can_hwint, restart, opcode, host>>

-----------------------------------------------------------------------------
(***************************************************************************)
(* Opcode handlers.  A handler returns 0 = not recognised, 1 = done,        *)
(* 2 = prefix, keep parsing, 3 = not finished, run it again.                *)
(***************************************************************************)
Executes(ops) == pc = "exec" /\ opcode.op \in ops

\* Mutant: an unfinished string instruction is not run again.
ReturnNoRerun(x) ==
    /\ pc' = IF x = 2 THEN "loop" ELSE "end"
    /\ restart' = (restart \/ x = 0)
    /\ err' = (err \/ x = 0)
    /\ UNCHANGED <<program, preemptible_after_prefix, lines, saved, count, can_hwint, opcode>>

Return(x) ==
    /\ pc' = IF x = 2 THEN "loop" ELSE "end"
    /\ restart' = (restart \/ x \in {0, 3})
    /\ err' = (err \/ x = 0)
    /\ UNCHANGED <<program, preemptible_after_prefix, lines, saved, count, can_hwint, opcode>>

Exec_segover ==
    /\ Executes({"segover"})
    /\ is_segment_override' = TRUE
    /\ Return(2) /\ UNCHANGED <<regs, rep_flag>>

Exec_repetition ==
    /\ Executes({"rep", "repnz"})
    /\ IF rep_flag > 0
         THEN Return(0) /\ UNCHANGED rep_flag
         ELSE Return(2) /\ rep_flag' = IF opcode.op = "rep" THEN 2 ELSE 1
    /\ UNCHANGED <<regs, is_segment_override>>

Exec_lock == Executes({"lock"}) /\ Return(2) /\ UNCHANGED <<regs, prefix>>

Exec_duhhh ==
    /\ Executes({"hlt", "wait"})
    /\ Return(IF opcode.op = "wait" \/ int_hw_flag \/ int_nmi THEN 1 ELSE 3)
    /\ UNCHANGED <<regs, prefix>>

Exec_clx ==
    /\ Executes({"cli", "sti"})
    /\ int_enable' = (opcode.op = "sti")
    /\ Return(1)
    /\ UNCHANGED <<cs, reg_ip, reg_cx, reg_di, frames, prefix>>

\* INTO takes its interrupt when OF is set; OF is not modelled, so either way.
Exec_int ==
    /\ Executes({"int3", "intn", "into"})
    /\ \/ LET i == IF opcode.op = "int3" THEN 3
                   ELSE IF opcode.op = "into" THEN 4 ELSE opcode.arg
          IN  go_int_frame(i, Past)
       \/ opcode.op = "into" /\ UNCHANGED <<cs, reg_ip, int_enable, frames>>
    /\ Return(1)
    /\ UNCHANGED <<reg_cx, reg_di, prefix>>

\* Mutant: IRET writes CS directly instead of through softx86_setsegval.
ResumeDirect(f) ==
    cs' = [cs EXCEPT !.val = f.cs] /\ reg_ip' = f.ip /\ int_enable' = f.fl

\* IRET, with an arbitrary frame when the stack holds none of ours.
Resume(f) == set_instruction_ptr(f.cs, f.ip) /\ int_enable' = f.fl

Exec_returns ==
    /\ Executes({"iret"})
    /\ \/ frames # << >> /\ Resume(Head(frames)) /\ frames' = Tail(frames)
       \/ frames = << >> /\ UNCHANGED frames /\ \E f \in Junk : Resume(f)
    /\ Return(1)
    /\ UNCHANGED <<reg_cx, reg_di, prefix>>

Exec_jmp ==
    /\ Executes({"jmp", "jmpf"})
    /\ IF opcode.op = "jmp"
         THEN reg_ip' = Target /\ UNCHANGED cs
         ELSE set_instruction_ptr(opcode.seg, opcode.arg % Word)
    /\ Return(1)
    /\ UNCHANGED <<int_enable, reg_cx, reg_di, frames, prefix>>

\* A taken conditional jump goes through set_instruction_ptr(CS.val, ...).
Branch(taken) == IF taken THEN set_instruction_ptr(cs.val, Target)
                          ELSE reg_ip' = Past /\ UNCHANGED cs

\* Jcc: the arithmetic flags are not modelled, so either outcome; JCXZ exactly.
Exec_jc ==
    /\ Executes({"jc", "jcxz"})
    /\ \E taken \in IF opcode.op = "jcxz" THEN {reg_cx = 0} ELSE BOOLEAN : Branch(taken)
    /\ Return(1)
    /\ UNCHANGED <<int_enable, reg_cx, reg_di, frames, prefix>>

\* Mutant: CX is decremented without wrapping.
Exec_loop_nowrap ==
    /\ Executes({"loop", "loopz"})
    /\ reg_cx' = reg_cx - 1
    /\ \E zf \in IF opcode.op = "loop" THEN {TRUE} ELSE BOOLEAN : Branch(zf /\ reg_cx' # 0)
    /\ Return(1)
    /\ UNCHANGED <<int_enable, reg_di, frames, prefix>>

\* LOOP, and LOOPZ or LOOPNZ, whose ZF is arbitrary.
Exec_loop ==
    /\ Executes({"loop", "loopz"})
    /\ reg_cx' = (reg_cx - 1) % Word
    /\ \E zf \in IF opcode.op = "loop" THEN {TRUE} ELSE BOOLEAN : Branch(zf /\ reg_cx' # 0)
    /\ Return(1)
    /\ UNCHANGED <<int_enable, reg_di, frames, prefix>>

Exec_mov ==
    /\ Executes({"movcx", "movdi"})
    /\ IF opcode.op = "movcx" THEN reg_cx' = opcode.arg % Word /\ UNCHANGED reg_di
                              ELSE reg_di' = opcode.arg % Word /\ UNCHANGED reg_cx
    /\ reg_ip' = Past
    /\ Return(1)
    /\ UNCHANGED <<cs, int_enable, frames, prefix>>

\* ZF after a CMPS or SCAS is arbitrary; "matched" is its terminal condition.
Exec_shovel ==
    /\ Executes(StringOps)
    /\ IF rep_flag > 0 /\ reg_cx = 0
         THEN Return(1) /\ UNCHANGED <<reg_cx, reg_di>>
         ELSE /\ reg_di' = (reg_di + 1) % Word
              /\ reg_cx' = IF rep_flag > 0 THEN (reg_cx - 1) % Word ELSE reg_cx
              /\ \E matched \in IF opcode.op = "scas" THEN BOOLEAN ELSE {FALSE} :
                     Return(IF rep_flag = 0 \/ reg_cx' = 0 \/ matched THEN 1 ELSE 3)
    /\ UNCHANGED <<cs, reg_ip, int_enable, frames, prefix>>

Exec_nop     == Executes({"nop"}) /\ Return(1) /\ UNCHANGED <<regs, prefix>>
Exec_default == Executes({"bad"}) /\ Return(0) /\ UNCHANGED <<regs, prefix>>

Exec == \/ Exec_segover \/ Exec_repetition \/ Exec_lock
        \/ Exec_duhhh \/ Exec_clx \/ Exec_int \/ Exec_returns
        \/ Exec_jmp \/ Exec_jc \/ Exec_loop \/ Exec_mov \/ Exec_shovel
        \/ Exec_nop \/ Exec_default

Step == \/ StepBegin \/ TakeNmi \/ TakeInt \/ NoInterrupt \/ LoopExhausted
        \/ ext_hw_nmi_ack \/ ext_hw_ack \/ fetch_exec_byte \/ Exec \/ StepEnd

Next == Host \/ Step

Spec     == Init /\ [][Next]_vars
\* The host keeps calling softx86_step (Cpu.run, the debugger's run loop).
FairSpec == Spec /\ WF_vars(Step)

-----------------------------------------------------------------------------
(***************************************************************************)
(* Properties.                                                             *)
(***************************************************************************)
Phases == {"host", "loop", "nmi_ack", "int_ack", "fetch", "exec", "end"}

RegsOK ==
    /\ cs \in [val : Nat, cached_linear : Nat] /\ reg_ip \in Nat
    /\ int_enable \in BOOLEAN
    /\ reg_cx \in 0..Word - 1 /\ reg_di \in 0..Word - 1
    /\ frames \in Seq(Frame)

PrefixOK ==
    /\ rep_flag \in 0..2 /\ is_segment_override \in BOOLEAN
    /\ reg_cs_exec_initial \in Nat /\ reg_ip_exec_initial \in Nat

LinesOK ==
    /\ int_hw_flag \in BOOLEAN /\ int_nmi \in BOOLEAN
    /\ int_hw \in Nat /\ (int_hw_flag => int_hw \in IntNo)
    /\ host_calls \in 0..MaxHostCalls

LocalsOK ==
    /\ pc \in Phases
    /\ count \in -1..StepLimit /\ (pc \notin {"host", "end"} => count >= 0)
    /\ can_hwint \in BOOLEAN /\ restart \in BOOLEAN /\ err \in BOOLEAN
    /\ opcode \in Instr /\ (opcode.op = "intn" => opcode.arg \in IntNo)

\* Types of the state: CS and its hidden base, IP (a 32-bit field), the
\* interrupt latches and the locals of softx86_step keep their ranges.
TypeOK ==
    /\ RegsOK
    /\ PrefixOK
    /\ LinesOK
    /\ LocalsOK
    /\ program \in Program /\ preemptible_after_prefix \in BOOLEAN

\* An opcode that ends a step whatever prefixes were seen, without a restart.
Retires(op) == op \in Ops \ (PrefixOps \cup StringOps \cup {"hlt", "bad"})

\* Every interrupt handler opens with such an opcode.
HandlersRetire(p) ==
    \A i \in IntNo : Retires(MemAt(p, Linear(Vector[i].seg) + Vector[i].ofs).op)

\* No instruction carries as many prefixes as use up the iteration limit.
NoPrefixRun(p) ==
    ~ \E a \in DOMAIN Code[p] : \A k \in 0..StepLimit - 2 : MemAt(p, a + k).op \in PrefixOps

WellBehaved == {p \in Program : HandlersRetire(p) /\ NoPrefixRun(p)}

Coherent == cs.cached_linear = Linear(cs.val)

\* The hidden base of CS is the one of its visible value in every state of
\* every step, whatever interrupts are raised, for code whose handlers retire
\* their first instruction and which has no over-long prefix run: the restart
\* that ends softx86_step then never undoes a change of CS.
CacheCoherent == program \in WellBehaved => Coherent

\* The number of prefixes this step has parsed when an opcode is executed.
Parsed == StepLimit - count - 1

\* Why CacheCoherent holds, point by point of a step.  Either the step still reads
\* prefixes of the instruction it began with, n of them, and CS is untouched; or
\* an interrupt has moved CS to a handler, whose first opcode cannot end in a
\* restart; and a step that is over has not moved CS if it has to restart.
PrefixesRead(n) ==
    \A k \in 0..n - 1 :
        MemAt(program, cs.cached_linear + reg_ip_exec_initial + k).op \in PrefixOps

StillReading(n, ip) ==
    /\ cs.val = reg_cs_exec_initial
    /\ reg_ip = reg_ip_exec_initial + ip
    /\ PrefixesRead(n)

HandlerEntry ==
    /\ \E i \in IntNo : cs = SegVal(Vector[i].seg) /\ reg_ip = Vector[i].ofs
    /\ count > 0

StepPoint ==
    /\ pc = "loop" => StillReading(StepLimit - count, StepLimit - count)
    /\ pc \in {"nmi_ack", "int_ack"} => HandlerEntry
    /\ pc = "fetch" => StillReading(Parsed, Parsed) \/ HandlerEntry
    /\ pc = "exec" =>
          \/ /\ StillReading(Parsed, Parsed + 1)
             /\ opcode = MemAt(program, cs.cached_linear + reg_ip - 1)
          \/ Retires(opcode.op) /\ count > 0
    /\ pc = "end" => cs.val = reg_cs_exec_initial \/ (~restart /\ count > 0)

CoherenceInv ==
    program \in WellBehaved =>
        /\ Coherent
        /\ pc \notin {"host", "end"} => ~restart
        /\ StepPoint

\* What the comment on softx86_setsegval promises of a segment register,
\* "a segment register and all hidden register information", for any code.
CacheAlwaysCoherent == Coherent

\* Prefix state <<rep, over>> is the one of the n bytes of p before address a.
SeenBefore(rep, over, p, n, a) ==
    /\ rep = 2 <=> \E k \in 1..n : MemAt(p, a - k).op = "rep"
    /\ rep = 1 <=> \E k \in 1..n : MemAt(p, a - k).op = "repnz"
    /\ over <=> \E k \in 1..n : MemAt(p, a - k).op = "segover"

PrefixesSeen(n, a) == SeenBefore(rep_flag, is_segment_override, program, n, a)

\* PrefixOps belong to the instruction they precede: when the bug switch is off,
\* the opcode that softx86_step executes sees the repetition and override
\* flags of the bytes just before it and of nothing else, so no prefix
\* outlives its step or leaks into an interrupt handler.
PrefixOwned ==
    (pc = "exec" /\ ~preemptible_after_prefix) =>
        PrefixesSeen(Parsed, cs.cached_linear + reg_ip - 1)

\* The same at the other points of a step; an interrupt finds no prefix parsed.
PrefixInv ==
    ~preemptible_after_prefix =>
        /\ pc = "loop" => PrefixesSeen(StepLimit - count, cs.cached_linear + reg_ip)
        /\ pc \in {"nmi_ack", "int_ack"} => Parsed = 0
        /\ pc \in {"nmi_ack", "int_ack", "fetch"} =>
              PrefixesSeen(Parsed, cs.cached_linear + reg_ip)
        /\ pc = "exec" =>
              /\ PrefixesSeen(Parsed, cs.cached_linear + reg_ip - 1)
              /\ opcode = MemAt(program, cs.cached_linear + reg_ip - 1)

\* The interrupt contract, with a request read as taken from the moment its
\* frame is pushed (the latch itself is cleared after the callback), and the
\* time between two instructions reaching into the head of the first iteration.
Taken == INSTANCE InterruptContract WITH
    int   <- IF int_hw_flag /\ pc # "int_ack" THEN int_hw ELSE -1,
    nmi   <- int_nmi /\ pc # "nmi_ack",
    ie    <- int_enable,
    torn  <- preemptible_after_prefix,
    phase <- IF pc = "host" \/ (pc = "loop" /\ can_hwint) THEN "boundary" ELSE "running"

\* Interrupts may be taken at the head of the first iteration only (and, with the
\* bug switch on, of the later ones), and an iteration costs one of the count.
HeadInv ==
    /\ pc \in {"nmi_ack", "int_ack", "fetch", "exec"} => ~can_hwint
    /\ pc = "loop" /\ can_hwint => count = StepLimit
    /\ pc \in {"nmi_ack", "int_ack", "fetch", "exec"} => count < StepLimit

(***************************************************************************)
(* Programs whose jumps and handlers keep to the start of an instruction.   *)
(***************************************************************************)
\* Offset ip of segment seg does not lie between a prefix and its opcode.
StartsInstr(p, seg, ip) ==
    /\ ip \in 0..Word - 1
    /\ MemAt(p, Linear(seg) + ip - 1).op \notin PrefixOps

\* The instruction at ip is followed by the start of one, and so is its jump.
LeadsToStart(p, seg, ip) ==
    LET i    == MemAt(p, Linear(seg) + ip)
        past == ip + 1 + Operands(i.op)
    IN  /\ i.op \in PrefixOps => past < Word
        /\ i.op \notin PrefixOps \cup {"bad", "iret", "jmp", "jmpf"} => StartsInstr(p, seg, past)
        /\ i.op \in {"jmp", "jc", "jcxz", "loop", "loopz"} =>
              StartsInstr(p, seg, (past + i.arg) % Word)
        /\ i.op = "jmpf" => StartsInstr(p, i.seg, i.arg % Word)

\* Every value CS can get.
Segments(p) ==
    {Entry.seg} \cup {Vector[i].seg : i \in IntNo} \cup {f.cs : f \in Junk}
      \cup {Code[p][a].seg : a \in {b \in DOMAIN Code[p] : Code[p][b].op = "jmpf"}}

Unsplit ==
    {p \in WellBehaved :
        /\ StartsInstr(p, Entry.seg, Entry.ofs)
        /\ \A i \in IntNo : StartsInstr(p, Vector[i].seg, Vector[i].ofs)
        /\ \A f \in Junk : StartsInstr(p, f.cs, f.ip)
        /\ \A seg \in Segments(p), ip \in 0..Word - 1 : LeadsToStart(p, seg, ip)}

\* No return address lies between a prefix and its opcode, nor does CS:IP when
\* softx86_step is called, on a CPU without the prefix bug: an interrupt, even one that
\* is raised while prefixes are parsed, never cuts an instruction in two.
NoTornInstruction ==
    (program \in Unsplit /\ Level > 1 /\ TRUE \notin SetBugValues) =>
        /\ pc = "host" => StartsInstr(program, cs.val, reg_ip)
        /\ \A k \in 1..Len(frames) : StartsInstr(program, frames[k].cs, frames[k].ip)

\* Programs that enter and leave the segments of the handlers by interrupt and IRET.
Separate ==
    {p \in WellBehaved :
        /\ \A i \in IntNo : Vector[i].seg # Entry.seg
        /\ \A f \in Junk : f.cs = Entry.seg
        /\ \A seg \in Segments(p), a \in DOMAIN Code[p] :
              Code[p][a].op = "jmpf" /\ a >= Linear(seg) =>
                  (Code[p][a].seg = Entry.seg <=> seg = Entry.seg)}

\* The CPU is in a handler exactly when the stack holds a frame, the oldest frame
\* returns to the main program, and the frame below a nested handler returns to a
\* handler: a restart never leaves a handler with its frame still pushed.
HandlerNesting ==
    program \in Separate =>
        /\ frames = << >> <=> cs.val = Entry.seg
        /\ \A k \in 1..Len(frames) : frames[k].cs = Entry.seg <=> k = Len(frames)

\* softx86_step and the signal calls implement the interrupt contract: latched
\* requests, NMI first, IF respected, nothing taken inside an instruction unless
\* the bug switch is on, and no instruction started past a takeable request.
ImplementsContract == Taken!Spec

\* A pending interrupt is taken (or dropped by a reset) if the host keeps
\* stepping a program that does not leave interrupts disabled for ever.
IntServiced == int_hw_flag ~> ~int_hw_flag
NmiServiced == int_nmi ~> ~int_nmi

=============================================================================
