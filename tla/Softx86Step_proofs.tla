------------------------- MODULE Softx86Step_proofs -------------------------
(***************************************************************************)
(* Proofs about Softx86Step: the types (TypeCorrect), the hidden base of CS *)
(* (CacheCorrect, by CoherenceInv), the interrupt contract                  *)
(* (ContractCorrect, by HeadInv and the mapping that Taken spells out), the *)
(* prefixes (PrefixCorrect, by PrefixInv), the nesting of handlers          *)
(* (NestingCorrect, by CoherenceInv and SegmentInv), and that instructions  *)
(* are not cut in two (WholeInstructions, by all of these and SplitInv).    *)
(***************************************************************************)
EXTENDS Softx86Step, TLAPS

\* A value reduced to the register width fits the register.
LEMMA ModRange ==
    ASSUME NEW x \in Int PROVE x % Word \in 0..Word - 1
  BY WidthAssumption

\* The linear base of a segment is a natural number.
LEMMA LinearType ==
    ASSUME NEW x \in Nat PROVE Linear(x) \in Nat
  BY WidthAssumption DEF Linear

\* What a fetch finds, an instruction or an unmapped byte, is an instruction.
LEMMA MemAtType ==
    ASSUME NEW p \in Program, NEW a
    PROVE  /\ MemAt(p, a) \in Instr
           /\ MemAt(p, a).op = "intn" => MemAt(p, a).arg \in IntNo
<1>1. CASE a \in DOMAIN Code[p]
  BY <1>1, ProgramAssumption DEF MemAt
<1>2. CASE a \notin DOMAIN Code[p]
  BY <1>2 DEF MemAt, Unmapped, Instr, Ops
<1> QED BY <1>1, <1>2

\* Pushing a frame leaves a sequence of frames.
LEMMA PushType ==
    ASSUME NEW f \in Frame, NEW s \in Seq(Frame)
    PROVE  <<f>> \o s \in Seq(Frame)
  OBVIOUS

\* An entry of the vector table is a far pointer.
LEMMA VectorType ==
    ASSUME NEW i \in IntNo
    PROVE  Vector[i].seg \in Nat /\ Vector[i].ofs \in Nat
  BY VectorAssumption DEF FarPtr

\* Loading CS leaves it well typed.
LEMMA SegValType ==
    ASSUME NEW seg \in Nat
    PROVE  SegVal(seg) \in [val : Nat, cached_linear : Nat]
  BY LinearType DEF SegVal

(***************************************************************************)
(* The registers after each of the ways code changes them.                  *)
(***************************************************************************)
\* The frame an interrupt pushes is well typed (IP is truncated by pushw).
LEMMA FrameType ==
    ASSUME RegsOK, NEW ip \in Int PROVE FrameAt(ip) \in Frame
  BY ModRange, WidthAssumption DEF RegsOK, FrameAt, Frame

\* Entering an interrupt keeps the registers well typed.
LEMMA GoIntFrameType ==
    ASSUME RegsOK, NEW i \in IntNo, NEW ip \in Int, go_int_frame(i, ip),
           UNCHANGED <<reg_cx, reg_di>>
    PROVE  RegsOK'
  BY FrameType, PushType, VectorType, SegValType DEF RegsOK, go_int_frame, set_instruction_ptr


(***************************************************************************)
(* Every action keeps the types.                                            *)
(***************************************************************************)
\* The host's calls keep the types.
LEMMA HostTypeOK ==
    ASSUME TypeOK, Host PROVE TypeOK'
<1> USE DEF TypeOK
<1>1. ASSUME NEW i \in IntNo, ext_hw_signal(i) PROVE TypeOK'
  BY <1>1, WidthAssumption, VectorAssumption
     DEF ext_hw_signal, RegsOK, PrefixOK, LinesOK, LocalsOK, regs, prefix, saved, locals, host
<1>2. CASE ext_hw_nmi_signal
  BY <1>2, WidthAssumption
     DEF ext_hw_nmi_signal, RegsOK, PrefixOK, LinesOK, LocalsOK, regs, prefix, saved, locals, host
<1>3. ASSUME NEW on \in SetBugValues, setbug(on) PROVE TypeOK'
  BY <1>3, WidthAssumption
     DEF setbug, RegsOK, PrefixOK, LinesOK, LocalsOK, regs, prefix, lines, saved, locals
<1>4. CASE reset
  <2>a. Entry.seg \in Nat /\ Entry.ofs \in Nat
    BY VectorAssumption DEF FarPtr
  <2>b. cs' \in [val : Nat, cached_linear : Nat] /\ reg_ip' \in Nat
    BY <1>4, <2>a, SegValType DEF reset, set_instruction_ptr
  <2>c. 0 \in 0..Word - 1
    BY WidthAssumption
  <2>d. << >> \in Seq(Frame)
    OBVIOUS
  <2>1. RegsOK'
    BY <1>4, <2>b, <2>c, <2>d, Zenon DEF reset, RegsOK
  <2>e. host_calls' \in 0..MaxHostCalls
    BY <1>4, WidthAssumption DEF reset, LinesOK
  <2>2. LinesOK'
    BY <1>4, <2>e, Zenon DEF reset, LinesOK
  <2>3. PrefixOK' /\ LocalsOK'
    BY <1>4 DEF reset, PrefixOK, LocalsOK, prefix, saved, locals
  <2>4. program' \in Program
    BY <1>4 DEF reset
  <2>5. preemptible_after_prefix' \in BOOLEAN
    BY <1>4, Zenon DEF reset
  <2> QED BY <2>1, <2>2, <2>3, <2>4, <2>5
<1> QED BY <1>1, <1>2, <1>3, <1>4 DEF Host

\* The prologue, loop head, acknowledges, fetch and epilogue keep the types.
LEMMA LoopTypeOK ==
    ASSUME TypeOK,
           StepBegin \/ TakeNmi \/ TakeInt \/ NoInterrupt \/ LoopExhausted \/ ext_hw_nmi_ack
             \/ ext_hw_ack \/ fetch_exec_byte \/ StepEnd
    PROVE  TypeOK'
<1> USE DEF TypeOK
<1>1. CASE StepBegin
  <2>1. StepLimit \in -1..StepLimit /\ StepLimit >= 0
    BY WidthAssumption
  <2>b. 0 \in 0..2 /\ reg_cs_exec_initial' \in Nat /\ reg_ip_exec_initial' \in Nat
    BY <1>1 DEF StepBegin, RegsOK
  <2>2. PrefixOK'
    BY <1>1, <2>b, Zenon DEF StepBegin, PrefixOK
  <2>a. opcode' = opcode /\ "loop" \in Phases
    BY <1>1 DEF StepBegin, Phases
  <2>3. LocalsOK'
    BY <1>1, <2>1, <2>a, Zenon DEF StepBegin, LocalsOK
  <2>4. RegsOK' /\ LinesOK'
    BY <1>1 DEF StepBegin, RegsOK, LinesOK, regs, lines
  <2> QED BY <1>1, <2>2, <2>3, <2>4 DEF StepBegin, host
<1>2. ASSUME NEW next \in Phases, EnterLoop(next), UNCHANGED <<restart, err, opcode>>
      PROVE  LocalsOK'
  <2>1. count' \in -1..StepLimit /\ count' >= 0
    BY <1>2, WidthAssumption DEF EnterLoop, LocalsOK
  <2> QED BY <1>2, <2>1, Zenon DEF EnterLoop, LocalsOK
<1>3. CASE TakeNmi
  <2>1. RegsOK'
    BY <1>3, GoIntFrameType, VectorAssumption DEF TakeNmi, RegsOK
  <2>2. PrefixOK' /\ LinesOK'
    BY <1>3 DEF TakeNmi, PrefixOK, LinesOK, prefix, lines, saved
  <2>3. LocalsOK'
    BY <1>2, <1>3 DEF TakeNmi, Phases
  <2> QED BY <1>3, <2>1, <2>2, <2>3 DEF TakeNmi, host
<1>4. CASE TakeInt
  <2>1. RegsOK'
    BY <1>4, GoIntFrameType DEF TakeInt, RegsOK, LinesOK
  <2>2. PrefixOK' /\ LinesOK'
    BY <1>4 DEF TakeInt, PrefixOK, LinesOK, prefix, lines, saved
  <2>3. LocalsOK'
    BY <1>2, <1>4 DEF TakeInt, Phases
  <2> QED BY <1>4, <2>1, <2>2, <2>3 DEF TakeInt, host
<1>5. CASE NoInterrupt
  <2>1. LocalsOK'
    BY <1>2, <1>5 DEF NoInterrupt, Phases
  <2> QED BY <1>5, <2>1 DEF NoInterrupt, RegsOK, PrefixOK, LinesOK, regs, prefix, lines, saved, host
<1>6. CASE LoopExhausted
  BY <1>6, WidthAssumption DEF LoopExhausted, RegsOK, PrefixOK, LinesOK, LocalsOK, Phases,
                               regs, prefix, lines, saved, host
<1>7. CASE ext_hw_nmi_ack
  BY <1>7 DEF ext_hw_nmi_ack, RegsOK, PrefixOK, LinesOK, LocalsOK, Phases,
              regs, prefix, saved, host
<1>8. CASE ext_hw_ack
  BY <1>8 DEF ext_hw_ack, RegsOK, PrefixOK, LinesOK, LocalsOK, Phases,
              regs, prefix, saved, host
<1>9. CASE fetch_exec_byte
  BY <1>9, MemAtType DEF fetch_exec_byte, RegsOK, PrefixOK, LinesOK, LocalsOK, Phases,
                         prefix, lines, saved, host
<1>10. CASE StepEnd
  BY <1>10 DEF StepEnd, RegsOK, PrefixOK, LinesOK, LocalsOK, Phases,
               prefix, lines, saved, host
<1> QED BY <1>1, <1>3, <1>4, <1>5, <1>6, <1>7, <1>8, <1>9, <1>10


(***************************************************************************)
(* The opcode handlers.                                                     *)
(***************************************************************************)
\* The result of a handler keeps the locals of softx86_step well typed.
LEMMA ReturnType ==
    ASSUME TypeOK, pc = "exec", NEW x, Return(x)
    PROVE  /\ LinesOK' /\ LocalsOK'
           /\ program' \in Program /\ preemptible_after_prefix' \in BOOLEAN
<1> USE DEF TypeOK
<1>1. LinesOK' /\ program' \in Program /\ preemptible_after_prefix' \in BOOLEAN
  BY DEF Return, LinesOK, lines
<1>2. /\ pc' \in Phases /\ opcode' = opcode /\ can_hwint' = can_hwint
      /\ count' \in -1..StepLimit /\ count' >= 0
  BY DEF Return, LocalsOK, Phases
<1>3. restart' \in BOOLEAN /\ err' \in BOOLEAN
  BY Zenon DEF Return, LocalsOK
<1>4. LocalsOK'
  BY <1>2, <1>3, Zenon DEF LocalsOK
<1> QED BY <1>1, <1>4

\* IP past the operands, and the target of a relative jump, are naturals.
LEMMA OperandTypes ==
    ASSUME TypeOK, pc = "exec"
    PROVE  /\ Past \in Nat
           /\ Target \in 0..Word - 1 /\ Target \in Nat
           /\ opcode.arg \in Int /\ opcode.seg \in Nat
           /\ opcode.arg % Word \in 0..Word - 1 /\ opcode.arg % Word \in Nat
<1>1. opcode \in Instr /\ reg_ip \in Nat
  BY DEF TypeOK, LocalsOK, RegsOK
<1>2. opcode.arg \in Int /\ opcode.seg \in Nat
  BY <1>1 DEF Instr
<1>3. Operands(opcode.op) \in Nat
  BY DEF Operands
<1>4. Past \in Nat
  BY <1>1, <1>3 DEF Past
<1> QED BY <1>2, <1>4, ModRange, WidthAssumption DEF Target

\* The opcode handlers keep the types.
LEMMA ExecTypeOK ==
    ASSUME TypeOK, Exec PROVE TypeOK'
<1> USE DEF TypeOK, Executes
<1>1. CASE Exec_segover
  <2>1. Return(2) /\ pc = "exec" /\ RegsOK' /\ rep_flag' = rep_flag /\ saved' = saved
    BY <1>1 DEF Exec_segover, RegsOK, regs, Return
  <2>2. PrefixOK'
    BY <1>1, <2>1 DEF Exec_segover, PrefixOK, saved
  <2> QED BY <2>1, <2>2, ReturnType
<1>2. CASE Exec_repetition
  <2>1. PICK x \in {0, 2} : Return(x)
    BY <1>2 DEF Exec_repetition
  <2>2. RegsOK'
    BY <1>2 DEF Exec_repetition, RegsOK, regs
  <2>3. rep_flag' \in 0..2 /\ is_segment_override' = is_segment_override
    BY <1>2 DEF Exec_repetition, PrefixOK
  <2>4. PrefixOK'
    BY <2>1, <2>3 DEF PrefixOK, Return, saved
  <2> QED BY <1>2, <2>1, <2>2, <2>4, ReturnType DEF Exec_repetition
<1>b. ASSUME NEW x, Return(x), pc = "exec", UNCHANGED <<regs, prefix>>
      PROVE  TypeOK'
  <2>1. RegsOK' /\ PrefixOK'
    BY <1>b DEF RegsOK, PrefixOK, regs, prefix, Return, saved
  <2> QED BY <1>b, <2>1, ReturnType
<1>3. CASE Exec_lock
  BY <1>3, <1>b DEF Exec_lock
<1>4. CASE Exec_duhhh
  BY <1>4, <1>b DEF Exec_duhhh
<1>5. CASE Exec_clx
  <2>1. int_enable' \in BOOLEAN
    BY <1>5, Zenon DEF Exec_clx
  <2>2. RegsOK'
    BY <1>5, <2>1 DEF Exec_clx, RegsOK
  <2>3. PrefixOK'
    BY <1>5 DEF Exec_clx, PrefixOK, prefix, Return, saved
  <2> QED BY <1>5, <2>2, <2>3, ReturnType DEF Exec_clx
<1>6. CASE Exec_int
  <2> DEFINE i == IF opcode.op = "int3" THEN 3 ELSE IF opcode.op = "into" THEN 4 ELSE opcode.arg
  <2>1. i \in IntNo
    BY <1>6, VectorAssumption DEF Exec_int, LocalsOK
  <2>2. ASSUME go_int_frame(i, Past) PROVE RegsOK'
    BY <1>6, <2>1, <2>2, OperandTypes, GoIntFrameType DEF Exec_int
  <2>3. ASSUME UNCHANGED <<cs, reg_ip, int_enable, frames>> PROVE RegsOK'
    BY <1>6, <2>3 DEF Exec_int, RegsOK
  <2>4. RegsOK'
    BY <1>6, <2>2, <2>3 DEF Exec_int
  <2>5. PrefixOK'
    BY <1>6 DEF Exec_int, PrefixOK, prefix, Return, saved
  <2> QED BY <1>6, <2>4, <2>5, ReturnType DEF Exec_int
<1>7. CASE Exec_returns
  <2>1. ASSUME NEW f \in Frame, NEW s \in Seq(Frame), Resume(f), frames' = s,
               UNCHANGED <<reg_cx, reg_di>>
        PROVE  RegsOK'
    <3>1. f.fl \in BOOLEAN /\ f.cs \in Nat /\ f.ip \in Nat
      BY DEF Frame
    <3>2. cs' \in [val : Nat, cached_linear : Nat] /\ reg_ip' \in Nat
      BY <2>1, <3>1, SegValType DEF Resume, set_instruction_ptr
    <3> QED BY <2>1, <3>1, <3>2, Zenon DEF Resume, RegsOK
  <2>2. ASSUME frames # << >>, Resume(Head(frames)), frames' = Tail(frames)
        PROVE  RegsOK'
    <3>1. Head(frames) \in Frame /\ Tail(frames) \in Seq(Frame)
      BY <2>2 DEF RegsOK
    <3> QED BY <1>7, <2>1, <2>2, <3>1 DEF Exec_returns
  <2>3. ASSUME NEW f \in Junk, UNCHANGED frames, Resume(f)
        PROVE  RegsOK'
    BY <1>7, <2>1, <2>3, VectorAssumption DEF Exec_returns, RegsOK
  <2>4. RegsOK'
    BY <1>7, <2>2, <2>3 DEF Exec_returns
  <2>5. PrefixOK'
    BY <1>7 DEF Exec_returns, PrefixOK, prefix, Return, saved
  <2> QED BY <1>7, <2>4, <2>5, ReturnType DEF Exec_returns
<1>8. CASE Exec_jmp
  <2>1. cs' \in [val : Nat, cached_linear : Nat] /\ reg_ip' \in Nat
    BY <1>8, OperandTypes, SegValType DEF Exec_jmp, set_instruction_ptr, RegsOK
  <2>2. RegsOK'
    BY <1>8, <2>1 DEF Exec_jmp, RegsOK
  <2>3. PrefixOK'
    BY <1>8 DEF Exec_jmp, PrefixOK, prefix, Return, saved
  <2> QED BY <1>8, <2>2, <2>3, ReturnType DEF Exec_jmp
<1>a. ASSUME NEW taken, Branch(taken), pc = "exec"
      PROVE  cs' \in [val : Nat, cached_linear : Nat] /\ reg_ip' \in Nat
  BY <1>a, OperandTypes, SegValType DEF Branch, set_instruction_ptr, RegsOK
<1>9. CASE Exec_jc
  <2>1. cs' \in [val : Nat, cached_linear : Nat] /\ reg_ip' \in Nat
    BY <1>9, <1>a DEF Exec_jc
  <2>2. RegsOK'
    BY <1>9, <2>1 DEF Exec_jc, RegsOK
  <2>3. PrefixOK'
    BY <1>9 DEF Exec_jc, PrefixOK, prefix, Return, saved
  <2> QED BY <1>9, <2>2, <2>3, ReturnType DEF Exec_jc
<1>10. CASE Exec_loop
  <2>1. cs' \in [val : Nat, cached_linear : Nat] /\ reg_ip' \in Nat
    BY <1>10, <1>a DEF Exec_loop
  <2>2. reg_cx' \in 0..Word - 1
    BY <1>10, ModRange DEF Exec_loop, RegsOK
  <2>3. RegsOK'
    BY <1>10, <2>1, <2>2 DEF Exec_loop, RegsOK
  <2>4. PrefixOK'
    BY <1>10 DEF Exec_loop, PrefixOK, prefix, Return, saved
  <2> QED BY <1>10, <2>3, <2>4, ReturnType DEF Exec_loop
<1>11. CASE Exec_mov
  <2>1. RegsOK'
    BY <1>11, OperandTypes DEF Exec_mov, RegsOK
  <2>2. PrefixOK'
    BY <1>11 DEF Exec_mov, PrefixOK, prefix, Return, saved
  <2> QED BY <1>11, <2>1, <2>2, ReturnType DEF Exec_mov
<1>12. CASE Exec_shovel
  <2>1. reg_cx' \in 0..Word - 1 /\ reg_di' \in 0..Word - 1
    <3>1. (reg_cx - 1) % Word \in 0..Word - 1 /\ (reg_di + 1) % Word \in 0..Word - 1
      <4>1. reg_cx - 1 \in Int /\ reg_di + 1 \in Int
        BY WidthAssumption DEF RegsOK
      <4> QED BY <4>1, ModRange
    <3> QED BY <1>12, <3>1 DEF Exec_shovel, RegsOK
  <2>2. RegsOK'
    BY <1>12, <2>1 DEF Exec_shovel, RegsOK
  <2>3. PICK x : Return(x)
    BY <1>12 DEF Exec_shovel
  <2>4. PrefixOK'
    BY <1>12, <2>3 DEF Exec_shovel, PrefixOK, prefix, Return, saved
  <2> QED BY <1>12, <2>2, <2>3, <2>4, ReturnType DEF Exec_shovel
<1>13. CASE Exec_nop
  BY <1>13, <1>b DEF Exec_nop
<1>14. CASE Exec_default
  BY <1>14, <1>b DEF Exec_default
<1> QED
  BY <1>1, <1>2, <1>3, <1>4, <1>5, <1>6, <1>7, <1>8, <1>9, <1>10, <1>11, <1>12,
     <1>13, <1>14 DEF Exec


\* The state after a reset is well typed.
LEMMA InitTypeOK == Init => TypeOK
<1> SUFFICES ASSUME Init PROVE TypeOK
  OBVIOUS
<1>1. Entry.seg \in Nat /\ Entry.ofs \in Nat /\ 0 \in 0..Word - 1 /\ << >> \in Seq(Frame)
  BY WidthAssumption, VectorAssumption DEF FarPtr
<1>2. RegsOK
  BY <1>1, SegValType, Zenon DEF Init, RegsOK
<1>a. 0 \in Nat /\ 0 \in 0..2 /\ 0 \in 0..MaxHostCalls
  BY WidthAssumption
<1>3. PrefixOK
  BY <1>a, Zenon DEF Init, PrefixOK
<1>4. LinesOK
  BY <1>a, Zenon DEF Init, LinesOK
<1>b. /\ "host" \in Phases /\ StepLimit \in -1..StepLimit
      /\ Unmapped \in Instr /\ Unmapped.op # "intn"
  BY WidthAssumption DEF Phases, Unmapped, Instr, Ops
<1>5. LocalsOK
  BY <1>b, Zenon DEF Init, LocalsOK
<1>6. program \in Program /\ preemptible_after_prefix \in BOOLEAN
  BY DEF Init
<1> QED BY <1>2, <1>3, <1>4, <1>5, <1>6 DEF TypeOK

\* A stuttering step keeps the types.
LEMMA StutterTypeOK == TypeOK /\ UNCHANGED vars => TypeOK'
  BY DEF TypeOK, RegsOK, PrefixOK, LinesOK, LocalsOK, vars, regs, prefix, lines, saved, locals, host

\* The state of the processor keeps its types, for every program, vector table,
\* register width and iteration limit.
THEOREM TypeCorrect == Spec => []TypeOK
<1>1. TypeOK /\ [Next]_vars => TypeOK'
  BY HostTypeOK, LoopTypeOK, ExecTypeOK, StutterTypeOK DEF Next, Step
<1> QED BY InitTypeOK, <1>1, PTL DEF Spec


-----------------------------------------------------------------------------
(***************************************************************************)
(* The hidden base of CS.                                                   *)
(***************************************************************************)
\* softx86_setsegval leaves a segment register coherent.
LEMMA SegValCoherent ==
    ASSUME NEW seg PROVE SegVal(seg).cached_linear = Linear(SegVal(seg).val)
  BY DEF SegVal

\* A well-behaved program has no room for StepLimit - 1 prefixes in a row.
LEMMA ShortPrefix ==
    ASSUME TypeOK, program \in WellBehaved, NEW n \in Nat, PrefixesRead(n)
    PROVE  n <= StepLimit - 2
<1> SUFFICES ASSUME n > StepLimit - 2 PROVE FALSE
  BY WidthAssumption
<1> DEFINE a == cs.cached_linear + reg_ip_exec_initial
<1>1. \A k \in 0..StepLimit - 2 : MemAt(program, a + k).op \in PrefixOps
  BY WidthAssumption DEF PrefixesRead
<1>2. MemAt(program, a + 0).op \in PrefixOps
  BY <1>1, WidthAssumption
<1>3. a \in DOMAIN Code[program]
  <2>1. a + 0 = a
    BY DEF TypeOK, RegsOK, PrefixOK
  <2> QED BY <1>2, <2>1 DEF MemAt, Unmapped, PrefixOps
<1>4. NoPrefixRun(program)
  BY DEF WellBehaved
<1> QED BY <1>1, <1>3, <1>4 DEF NoPrefixRun


\* The host's calls keep the coherence invariant: reset loads CS whole.
LEMMA HostCoherent ==
    ASSUME TypeOK, CoherenceInv, Host PROVE CoherenceInv'
<1> SUFFICES ASSUME program' \in WellBehaved
             PROVE  Coherent' /\ (pc \notin {"host", "end"} => ~restart)' /\ StepPoint'
  BY DEF CoherenceInv
<1>1. CASE reset
  BY <1>1, SegValCoherent
     DEF reset, set_instruction_ptr, Coherent, StepPoint, locals
<1>2. CASE UNCHANGED <<regs, saved, locals, program>>
  BY <1>2 DEF regs, saved, locals, CoherenceInv, Coherent, StepPoint, StillReading,
              PrefixesRead, HandlerEntry, Parsed
<1>3. UNCHANGED <<regs, saved, locals, program>> \/ reset
  BY DEF Host, ext_hw_signal, ext_hw_nmi_signal, setbug, host
<1> QED BY <1>1, <1>2, <1>3

\* The parts of softx86_step around the handlers keep the coherence invariant.
LEMMA LoopCoherent ==
    ASSUME TypeOK, CoherenceInv,
           StepBegin \/ TakeNmi \/ TakeInt \/ NoInterrupt \/ LoopExhausted \/ ext_hw_nmi_ack
             \/ ext_hw_ack \/ fetch_exec_byte \/ StepEnd
    PROVE  CoherenceInv'
<1> SUFFICES ASSUME program' \in WellBehaved
             PROVE  Coherent' /\ (pc \notin {"host", "end"} => ~restart)' /\ StepPoint'
  BY DEF CoherenceInv
<1>0. program' = program /\ program \in WellBehaved
  BY DEF StepBegin, TakeNmi, TakeInt, NoInterrupt, LoopExhausted, ext_hw_nmi_ack,
         ext_hw_ack, fetch_exec_byte, StepEnd, host
<1>a. Coherent /\ (pc \notin {"host", "end"} => ~restart) /\ StepPoint
  BY <1>0 DEF CoherenceInv
<1>b. /\ cs \in [val : Nat, cached_linear : Nat] /\ reg_ip \in Nat
      /\ reg_ip_exec_initial \in Nat /\ reg_cs_exec_initial \in Nat
      /\ count \in -1..StepLimit /\ StepLimit \in Nat /\ StepLimit >= 2
      /\ pc \notin {"host", "end"} => count >= 0
  BY WidthAssumption DEF TypeOK, RegsOK, PrefixOK, LocalsOK
<1>1. CASE StepBegin
  <2>1. Coherent' /\ pc' = "loop" /\ ~restart'
    BY <1>1, <1>a DEF StepBegin, Coherent, regs
  <2>2. StillReading(StepLimit - count, StepLimit - count)'
    BY <1>1, <1>b DEF StepBegin, StillReading, PrefixesRead, regs
  <2> QED BY <2>1, <2>2 DEF StepPoint
<1>2. ASSUME NEW i \in IntNo, NEW next \in {"nmi_ack", "int_ack"}, EnterLoop(next),
             go_int_frame(i, reg_ip), restart' = restart
      PROVE  Coherent' /\ (pc \notin {"host", "end"} => ~restart)' /\ StepPoint'
  <2>1. count > 1
    <3>1. StillReading(StepLimit - count, StepLimit - count) /\ count > 0
      BY <1>a, <1>2 DEF StepPoint, EnterLoop
    <3> QED BY <1>0, <1>b, <3>1, ShortPrefix DEF StillReading
  <2>2. HandlerEntry'
    BY <1>2, <1>b, <2>1 DEF HandlerEntry, EnterLoop, go_int_frame, set_instruction_ptr
  <2>3. Coherent'
    BY <1>2, SegValCoherent DEF Coherent, go_int_frame, set_instruction_ptr
  <2>4. ~restart'
    BY <1>2, <1>a DEF EnterLoop
  <2> QED BY <1>2, <2>2, <2>3, <2>4 DEF StepPoint, EnterLoop
<1>3. CASE TakeNmi
  BY <1>2, <1>3, VectorAssumption DEF TakeNmi
<1>4. CASE TakeInt
  BY <1>2, <1>4 DEF TakeInt, TypeOK, LinesOK
<1>5. CASE NoInterrupt
  <2>1. StillReading(StepLimit - count, StepLimit - count)
    BY <1>5, <1>a DEF NoInterrupt, EnterLoop, StepPoint
  <2>2. Parsed' = StepLimit - count
    BY <1>5, <1>b DEF NoInterrupt, EnterLoop, Parsed
  <2>3. StillReading(Parsed, Parsed)'
    BY <1>5, <2>1, <2>2 DEF NoInterrupt, StillReading, PrefixesRead, regs, saved, host
  <2> QED BY <1>5, <1>a, <2>3 DEF NoInterrupt, EnterLoop, StepPoint, Coherent, regs
<1>6. CASE LoopExhausted
  BY <1>6, <1>a DEF LoopExhausted, Coherent, StepPoint, StillReading, regs, saved
<1>7. CASE ext_hw_nmi_ack \/ ext_hw_ack
  <2>1. HandlerEntry /\ ~restart
    BY <1>7, <1>a DEF ext_hw_nmi_ack, ext_hw_ack, StepPoint
  <2>2. HandlerEntry' /\ ~restart' /\ Coherent' /\ pc' = "fetch"
    BY <1>7, <1>a, <2>1 DEF ext_hw_nmi_ack, ext_hw_ack, HandlerEntry, Coherent, regs
  <2> QED BY <2>2 DEF StepPoint
<1>8. CASE fetch_exec_byte
  <2>1. /\ Coherent' /\ ~restart' /\ pc' = "exec"
        /\ opcode' = MemAt(program, cs.cached_linear + reg_ip)
        /\ reg_ip' = reg_ip + 1 /\ cs' = cs /\ count' = count
        /\ reg_ip_exec_initial' = reg_ip_exec_initial
        /\ reg_cs_exec_initial' = reg_cs_exec_initial
    BY <1>8, <1>a DEF fetch_exec_byte, Coherent, saved
  <2>2. CASE StillReading(Parsed, Parsed)
    <3>1. Parsed' = Parsed /\ Parsed \in Int
      BY <1>b, <2>1 DEF Parsed
    <3>2. reg_ip' = reg_ip_exec_initial' + (Parsed' + 1)
      BY <1>b, <2>1, <2>2, <3>1 DEF StillReading
    <3>3. PrefixesRead(Parsed)' /\ cs'.val = reg_cs_exec_initial'
      BY <1>0, <2>1, <2>2, <3>1 DEF StillReading, PrefixesRead
    <3>4. cs'.cached_linear + reg_ip' - 1 = cs.cached_linear + reg_ip
      BY <1>b, <2>1
    <3> QED BY <1>0, <2>1, <3>2, <3>3, <3>4 DEF StepPoint, StillReading
  <2>3. CASE HandlerEntry
    <3>1. PICK i \in IntNo : cs = SegVal(Vector[i].seg) /\ reg_ip = Vector[i].ofs
      BY <2>3 DEF HandlerEntry
    <3>2. HandlersRetire(program)
      BY <1>0 DEF WellBehaved
    <3>3. Retires(opcode'.op)
      BY <2>1, <3>1, <3>2 DEF HandlersRetire, SegVal
    <3> QED BY <2>1, <2>3, <3>3 DEF StepPoint, HandlerEntry
  <2> QED BY <1>8, <1>a, <2>2, <2>3 DEF fetch_exec_byte, StepPoint
<1>9. CASE StepEnd
  <2>1. cs.val = reg_cs_exec_initial \/ (~restart /\ count > 0)
    BY <1>9, <1>a DEF StepEnd, StepPoint
  <2>2. cs' = cs
    BY <1>9, <1>b, <2>1 DEF StepEnd
  <2> QED BY <1>9, <1>a, <2>2 DEF StepEnd, Coherent, StepPoint
<1> QED BY <1>1, <1>3, <1>4, <1>5, <1>6, <1>7, <1>8, <1>9


\* An opcode that does not retire leaves CS and IP alone; one that retires gives
\* CS a coherent value and ends the step without a restart.
LEMMA ExecEffect ==
    ASSUME Exec
    PROVE  \/ /\ Retires(opcode.op)
              /\ Return(1)
              /\ cs' = cs \/ \E seg : cs' = SegVal(seg)
           \/ /\ opcode.op \in PrefixOps
              /\ Return(0) \/ Return(2)
              /\ UNCHANGED <<cs, reg_ip>>
           \/ /\ \E x : Return(x) /\ x # 2
              /\ ~Retires(opcode.op)
              /\ UNCHANGED <<cs, reg_ip>>
<1> USE DEF Executes, Retires, PrefixOps, StringOps, Ops
<1>1. CASE Exec_segover \/ Exec_repetition \/ Exec_lock
  BY <1>1 DEF Exec_segover, Exec_repetition, Exec_lock, regs
<1>2. CASE Exec_duhhh
  BY <1>2 DEF Exec_duhhh, regs
<1>3. CASE Exec_clx \/ Exec_mov \/ Exec_nop
  BY <1>3 DEF Exec_clx, Exec_mov, Exec_nop, regs
<1>4. CASE Exec_int
  BY <1>4 DEF Exec_int, go_int_frame, set_instruction_ptr
<1>5. CASE Exec_returns
  BY <1>5 DEF Exec_returns, Resume, set_instruction_ptr
<1>6. CASE Exec_jmp \/ Exec_jc \/ Exec_loop
  BY <1>6 DEF Exec_jmp, Exec_jc, Exec_loop, Branch, set_instruction_ptr
<1>7. CASE Exec_shovel
  <2>1. PICK x \in {1, 3} : Return(x)
    BY <1>7, Zenon DEF Exec_shovel
  <2>2. opcode.op \in StringOps /\ UNCHANGED <<cs, reg_ip>>
    BY <1>7 DEF Exec_shovel
  <2>3. x # 2
    BY <2>1
  <2> QED BY <2>1, <2>2, <2>3
<1>8. CASE Exec_default
  BY <1>8 DEF Exec_default, regs
<1> QED BY <1>1, <1>2, <1>3, <1>4, <1>5, <1>6, <1>7, <1>8 DEF Exec

\* What a handler's result does to the restart flag and the place in the step.
LEMMA ReturnEffect ==
    ASSUME ~restart
    PROVE  /\ Return(1) => pc' = "end" /\ ~restart'
           /\ Return(2) => pc' = "loop" /\ ~restart'
<1>1. 1 \notin {0, 3} /\ 1 # 2 /\ 2 \notin {0, 3}
  OBVIOUS
<1> QED BY <1>1, Zenon DEF Return

\* The opcode handlers keep the coherence invariant.
LEMMA ExecCoherent ==
    ASSUME TypeOK, CoherenceInv, Exec PROVE CoherenceInv'
<1> SUFFICES ASSUME program' \in WellBehaved
             PROVE  Coherent' /\ (pc \notin {"host", "end"} => ~restart)' /\ StepPoint'
  BY DEF CoherenceInv
<1>0. PICK x : Return(x)
  BY ExecEffect
<1>1. /\ program \in WellBehaved /\ pc = "exec"
      /\ count' = count /\ reg_cs_exec_initial' = reg_cs_exec_initial
      /\ reg_ip_exec_initial' = reg_ip_exec_initial /\ program' = program
  BY <1>0 DEF Return, saved, Exec, Executes, Exec_segover, Exec_repetition, Exec_lock,
     Exec_duhhh, Exec_clx, Exec_int, Exec_returns, Exec_jmp, Exec_jc, Exec_loop, Exec_mov,
     Exec_shovel, Exec_nop, Exec_default
<1>a. Coherent /\ ~restart /\ StepPoint
  BY <1>1 DEF CoherenceInv
<1>b. /\ cs \in [val : Nat, cached_linear : Nat] /\ reg_ip \in Nat
      /\ reg_ip_exec_initial \in Nat /\ reg_cs_exec_initial \in Nat
      /\ count \in -1..StepLimit /\ StepLimit \in Nat /\ StepLimit >= 2 /\ count >= 0
  BY <1>1, WidthAssumption DEF TypeOK, RegsOK, PrefixOK, LocalsOK
<1>c. \/ /\ StillReading(Parsed, Parsed + 1)
         /\ opcode = MemAt(program, cs.cached_linear + reg_ip - 1)
      \/ Retires(opcode.op) /\ count > 0
  BY <1>1, <1>a DEF StepPoint
<1>2. CASE /\ Retires(opcode.op) /\ Return(1)
           /\ cs' = cs \/ \E seg : cs' = SegVal(seg)
  <2>1. count > 0
    <3>1. CASE StillReading(Parsed, Parsed + 1)
      <4>1. Parsed \in Int
        BY <1>b DEF Parsed
      <4>2. CASE Parsed >= 0
        BY <1>1, <1>b, <3>1, <4>1, <4>2, ShortPrefix DEF StillReading, Parsed
      <4>3. CASE Parsed < 0
        BY <1>b, <4>3 DEF Parsed
      <4> QED BY <4>1, <4>2, <4>3
    <3> QED BY <1>c, <3>1
  <2>2. pc' = "end" /\ ~restart' /\ Coherent'
    BY <1>2, <1>a, SegValCoherent, ReturnEffect DEF Coherent
  <2> QED BY <1>1, <2>1, <2>2 DEF StepPoint
<1>3. CASE /\ ~Retires(opcode.op) /\ UNCHANGED <<cs, reg_ip>>
           /\ \E y : Return(y) /\ y # 2
  <2>1. pc' = "end" /\ Coherent' /\ cs'.val = reg_cs_exec_initial'
    BY <1>1, <1>3, <1>a, <1>c DEF Return, Coherent, StillReading
  <2> QED BY <2>1 DEF StepPoint
<1>4. CASE opcode.op \in PrefixOps /\ Return(2) /\ UNCHANGED <<cs, reg_ip>>
  <2>1. pc' = "loop" /\ Coherent' /\ ~restart'
    BY <1>4, <1>a, ReturnEffect DEF Coherent
  <2>2. StillReading(Parsed, Parsed + 1) /\ opcode = MemAt(program, cs.cached_linear + reg_ip - 1)
    BY <1>4, <1>c DEF Retires
  <2>3. (StepLimit - count)' = Parsed + 1 /\ Parsed \in Int
    BY <1>1, <1>b DEF Parsed
  <2>4. cs.cached_linear + reg_ip - 1 = cs.cached_linear + reg_ip_exec_initial + Parsed
    BY <1>b, <2>2, <2>3 DEF StillReading
  <2>5. MemAt(program, cs.cached_linear + reg_ip_exec_initial + Parsed).op \in PrefixOps
    BY <1>4, <2>2, <2>4
  <2>6. ASSUME NEW k \in 0..(Parsed + 1) - 1
        PROVE  MemAt(program, cs.cached_linear + reg_ip_exec_initial + k).op \in PrefixOps
    BY <2>2, <2>3, <2>5 DEF StillReading, PrefixesRead
  <2>7. StillReading(StepLimit - count, StepLimit - count)'
    BY <1>1, <1>4, <2>2, <2>3, <2>6 DEF StillReading, PrefixesRead
  <2> QED BY <2>1, <2>7 DEF StepPoint
<1> QED
  BY <1>2, <1>3, <1>4, ExecEffect DEF Retires

\* A stuttering step keeps the coherence invariant.
LEMMA StutterCoherent == CoherenceInv /\ UNCHANGED vars => CoherenceInv'
  BY DEF CoherenceInv, Coherent, StepPoint, StillReading, PrefixesRead, HandlerEntry, Parsed,
         vars, regs, saved, locals, host

\* CoherenceInv holds at every point of every step.
LEMMA CoherenceInvariant == Spec => []CoherenceInv
<1>1. Init => CoherenceInv
  BY SegValCoherent DEF Init, CoherenceInv, Coherent, StepPoint
<1>2. TypeOK /\ CoherenceInv /\ [Next]_vars => CoherenceInv'
  BY HostCoherent, LoopCoherent, ExecCoherent, StutterCoherent DEF Next, Step
<1> QED BY TypeCorrect, <1>1, <1>2, PTL DEF Spec

\* The hidden base of CS follows its visible value in every state of every step,
\* for every well-behaved program and whatever interrupts the host raises.
THEOREM CacheCorrect == Spec => []CacheCoherent
<1>1. CoherenceInv => CacheCoherent
  BY DEF CoherenceInv, CacheCoherent
<1> QED BY CoherenceInvariant, <1>1, PTL

-----------------------------------------------------------------------------
(***************************************************************************)
(* The interrupt contract.                                                  *)
(***************************************************************************)
\* No handler touches the interrupt latches, the bug switch or can_hwint.
LEMMA ExecFrame ==
    ASSUME Exec
    PROVE  /\ pc = "exec" /\ pc' \in {"loop", "end"}
           /\ UNCHANGED <<lines, saved, count, can_hwint, program, preemptible_after_prefix>>
<1>1. PICK x : Return(x)
  BY ExecEffect
<1>2. pc = "exec"
  BY DEF Exec, Executes, Exec_segover, Exec_repetition, Exec_lock, Exec_duhhh, Exec_clx,
         Exec_int, Exec_returns, Exec_jmp, Exec_jc, Exec_loop, Exec_mov, Exec_shovel,
         Exec_nop, Exec_default
<1> QED BY <1>1, <1>2 DEF Return

\* can_hwint is set at the head of a step's first iteration and nowhere later, and
\* an iteration that has begun has used up one of the count.
LEMMA HeadInvariant == Spec => []HeadInv
<1>1. Init => HeadInv
  BY DEF Init, HeadInv
<1>2. TypeOK /\ HeadInv /\ [Next]_vars => HeadInv'
  <2> SUFFICES ASSUME TypeOK, HeadInv, [Next]_vars PROVE HeadInv'
    OBVIOUS
  <2>1. CASE Host \/ UNCHANGED vars
    <3>1. UNCHANGED locals
      BY <2>1 DEF Host, ext_hw_signal, ext_hw_nmi_signal, setbug, reset, vars
    <3> QED BY <3>1 DEF HeadInv, locals
  <2>2. CASE StepBegin \/ LoopExhausted \/ StepEnd
    BY <2>2 DEF StepBegin, LoopExhausted, StepEnd, HeadInv
  <2>3. CASE TakeNmi \/ TakeInt \/ NoInterrupt
    <3>1. pc = "loop" /\ pc' # "loop" /\ ~can_hwint' /\ count' = count - 1
      BY <2>3 DEF TakeNmi, TakeInt, NoInterrupt, EnterLoop
    <3>2. count' < StepLimit
      BY <3>1, WidthAssumption DEF TypeOK, LocalsOK
    <3> QED BY <3>1, <3>2 DEF HeadInv
  <2>4. CASE ext_hw_nmi_ack \/ ext_hw_ack \/ fetch_exec_byte
    BY <2>4 DEF ext_hw_nmi_ack, ext_hw_ack, fetch_exec_byte, HeadInv
  <2>5. CASE Exec
    BY <2>5, ExecFrame DEF HeadInv
  <2> QED BY <2>1, <2>2, <2>3, <2>4, <2>5 DEF Next, Step
<1> QED BY TypeCorrect, <1>1, <1>2, PTL DEF Spec

\* The request, the NMI line and the phase as the contract sees them, as in the
\* substitution of Taken.
AbsInt   == IF int_hw_flag /\ pc # "int_ack" THEN int_hw ELSE -1
AbsNmi   == int_nmi /\ pc # "nmi_ack"
AbsPhase == IF pc = "host" \/ (pc = "loop" /\ can_hwint) THEN "boundary" ELSE "running"

\* A step that leaves the abstract state alone is a stutter of the contract.
LEMMA ContractStutter ==
    ASSUME UNCHANGED <<AbsInt, AbsNmi, int_enable, preemptible_after_prefix, AbsPhase>>
    PROVE  UNCHANGED Taken!vars
  BY DEF Taken!vars, AbsInt, AbsNmi, AbsPhase

\* Each call of the host is a step of the contract.
LEMMA HostContract ==
    ASSUME TypeOK, HeadInv, Host PROVE [Taken!Next]_(Taken!vars)
<1>1. ASSUME NEW i \in IntNo, ext_hw_signal(i) PROVE [Taken!Next]_(Taken!vars)
  <2>1. CASE pc = "int_ack"
    <3>1. AbsInt' = AbsInt /\ AbsNmi' = AbsNmi /\ AbsPhase' = AbsPhase
      BY <1>1, <2>1 DEF ext_hw_signal, AbsInt, AbsNmi, AbsPhase, locals
    <3> QED BY <1>1, <3>1, ContractStutter DEF ext_hw_signal, regs, host
  <2>2. CASE pc # "int_ack"
    BY <1>1, <2>2 DEF ext_hw_signal, locals, regs, host, Taken!Next, Taken!Raise, Taken!NoInt
  <2> QED BY <2>1, <2>2
<1>2. CASE ext_hw_nmi_signal
  <2>1. CASE pc = "nmi_ack"
    <3>1. AbsInt' = AbsInt /\ AbsNmi' = AbsNmi /\ AbsPhase' = AbsPhase
      BY <1>2, <2>1 DEF ext_hw_nmi_signal, AbsInt, AbsNmi, AbsPhase, locals
    <3> QED BY <1>2, <3>1, ContractStutter DEF ext_hw_nmi_signal, regs, host
  <2>2. CASE pc # "nmi_ack"
    BY <1>2, <2>2 DEF ext_hw_nmi_signal, locals, regs, host, Taken!Next, Taken!RaiseNmi
  <2> QED BY <2>1, <2>2
<1>3. ASSUME NEW on \in SetBugValues, setbug(on) PROVE Taken!Switch
  BY <1>3, WidthAssumption DEF setbug, locals, regs, lines, Taken!Switch
<1>4. ASSUME reset PROVE Taken!Reset
  BY <1>4 DEF reset, locals, Taken!Reset, Taken!NoInt
<1> QED BY <1>1, <1>2, <1>3, <1>4 DEF Host, Taken!Next

\* Taking an interrupt, passing the head and ending a step are contract steps.
LEMMA LoopContract ==
    ASSUME TypeOK, HeadInv,
           StepBegin \/ TakeNmi \/ TakeInt \/ NoInterrupt \/ LoopExhausted \/ ext_hw_nmi_ack
             \/ ext_hw_ack \/ fetch_exec_byte \/ StepEnd
    PROVE  [Taken!Next]_(Taken!vars)
<1>1. CASE StepBegin
  BY <1>1, ContractStutter DEF StepBegin, regs, lines, host, AbsInt, AbsNmi, AbsPhase
<1>2. CASE TakeNmi
  BY <1>2 DEF TakeNmi, EnterLoop, MayInterrupt, go_int_frame, lines, host, Taken!Next,
              Taken!DeliverNmi
<1>3. CASE TakeInt
  BY <1>3, VectorAssumption DEF TakeInt, EnterLoop, MayInterrupt, go_int_frame, lines, host,
     TypeOK, LinesOK, Taken!Next, Taken!DeliverInt, Taken!NoInt
<1>4. CASE NoInterrupt
  <2>1. CASE can_hwint
    BY <1>4, <2>1 DEF NoInterrupt, EnterLoop, MayInterrupt, regs, lines, host,
                      Taken!Next, Taken!Begin, Taken!NoInt
  <2>2. CASE ~can_hwint
    BY <1>4, <2>2, ContractStutter
       DEF NoInterrupt, EnterLoop, regs, lines, host, AbsInt, AbsNmi, AbsPhase
  <2> QED BY <2>1, <2>2
<1>5. CASE LoopExhausted
  <2>1. ~can_hwint
    BY <1>5, WidthAssumption DEF LoopExhausted, HeadInv
  <2> QED BY <1>5, <2>1, ContractStutter
          DEF LoopExhausted, regs, lines, host, AbsInt, AbsNmi, AbsPhase
<1>6. CASE ext_hw_nmi_ack
  BY <1>6, ContractStutter DEF ext_hw_nmi_ack, regs, host, AbsInt, AbsNmi, AbsPhase
<1>7. CASE ext_hw_ack
  BY <1>7, ContractStutter DEF ext_hw_ack, regs, host, AbsInt, AbsNmi, AbsPhase
<1>8. CASE fetch_exec_byte
  BY <1>8, ContractStutter DEF fetch_exec_byte, lines, host, AbsInt, AbsNmi, AbsPhase
<1>9. CASE StepEnd
  BY <1>9 DEF StepEnd, lines, host, Taken!Next, Taken!Finish
<1> QED BY <1>1, <1>2, <1>3, <1>4, <1>5, <1>6, <1>7, <1>8, <1>9

\* An opcode handler is a step of the contract that may change IF.
LEMMA ExecContract ==
    ASSUME TypeOK, TypeOK', HeadInv, Exec PROVE Taken!Run
  BY ExecFrame DEF HeadInv, TypeOK, RegsOK, lines, Taken!Run

\* softx86_step and the signal calls implement the interrupt contract, for every
\* program: this is the safety of interrupt delivery.
THEOREM ContractCorrect == Spec => ImplementsContract
<1>1. Init => Taken!Init
  BY DEF Init, Taken!Init, Taken!NoInt
<1>2. TypeOK /\ TypeOK' /\ HeadInv /\ [Next]_vars => [Taken!Next]_(Taken!vars)
  <2>1. UNCHANGED vars => UNCHANGED Taken!vars
    BY DEF vars, regs, lines, locals, host, Taken!vars
  <2> QED BY <2>1, HostContract, LoopContract, ExecContract DEF Next, Step, Taken!Next
<1> QED BY TypeCorrect, HeadInvariant, <1>1, <1>2, PTL DEF Spec, ImplementsContract, Taken!Spec

(***************************************************************************)
(* Prefixes.                                                               *)
(***************************************************************************)
\* Before any byte is read the prefix state does not depend on where the step is.
LEMMA NothingSeen ==
    ASSUME NEW r, NEW s, NEW p, NEW a, NEW b, SeenBefore(r, s, p, 0, a)
    PROVE  SeenBefore(r, s, p, 0, b)
<1>1. 1..0 = {}
  OBVIOUS
<1> QED BY <1>1, Zenon DEF SeenBefore

\* The prologue leaves no prefix behind.
LEMMA ClearedSeen == ASSUME NEW p, NEW a PROVE SeenBefore(0, FALSE, p, 0, a)
<1>1. 1..0 = {}
  OBVIOUS
<1>2. 0 # 1 /\ 0 # 2
  OBVIOUS
<1> QED BY <1>1, <1>2, Zenon DEF SeenBefore

\* Reading one more byte shifts those already read by one.
LEMMA OneMoreByte ==
    ASSUME NEW n \in Nat, NEW a \in Int, NEW o, NEW p
    PROVE  (\E k \in 1..n + 1 : MemAt(p, a + 1 - k).op = o) <=>
              (MemAt(p, a).op = o \/ \E k \in 1..n : MemAt(p, a - k).op = o)
<1>1. ASSUME NEW k \in 1..n + 1, MemAt(p, a + 1 - k).op = o
      PROVE  MemAt(p, a).op = o \/ \E j \in 1..n : MemAt(p, a - j).op = o
  <2>1. CASE k = 1
    <3>1. a + 1 - k = a
      BY <2>1
    <3> QED BY <3>1, <1>1
  <2>2. CASE k # 1
    <3>1. k - 1 \in 1..n /\ a - (k - 1) = a + 1 - k
      BY <2>2
    <3> QED BY <3>1, <1>1
  <2> QED BY <2>1, <2>2
<1>2. ASSUME MemAt(p, a).op = o
      PROVE  \E k \in 1..n + 1 : MemAt(p, a + 1 - k).op = o
  <2>1. 1 \in 1..n + 1 /\ a + 1 - 1 = a
    OBVIOUS
  <2> QED BY <2>1, <1>2
<1>3. ASSUME NEW j \in 1..n, MemAt(p, a - j).op = o
      PROVE  \E k \in 1..n + 1 : MemAt(p, a + 1 - k).op = o
  <2>1. j + 1 \in 1..n + 1 /\ a + 1 - (j + 1) = a - j
    OBVIOUS
  <2> QED BY <2>1, <1>3
<1> QED BY <1>1, <1>2, <1>3

\* The prefix state after a byte that records itself and nothing else.
LEMMA RecordedSeen ==
    ASSUME NEW n \in Nat, NEW a \in Int, NEW r, NEW s, NEW r1, NEW s1, NEW p,
           SeenBefore(r, s, p, n, a),
           r1 = 2 <=> MemAt(p, a).op = "rep" \/ r = 2,
           r1 = 1 <=> MemAt(p, a).op = "repnz" \/ r = 1,
           s1 <=> MemAt(p, a).op = "segover" \/ s
    PROVE  SeenBefore(r1, s1, p, n + 1, a + 1)
<1>1. \A o : (\E k \in 1..n + 1 : MemAt(p, a + 1 - k).op = o) <=>
                (MemAt(p, a).op = o \/ \E k \in 1..n : MemAt(p, a - k).op = o)
  BY OneMoreByte
<1>2. r1 = 2 <=> \E k \in 1..n + 1 : MemAt(p, a + 1 - k).op = "rep"
  BY <1>1, Zenon DEF SeenBefore
<1>3. r1 = 1 <=> \E k \in 1..n + 1 : MemAt(p, a + 1 - k).op = "repnz"
  BY <1>1, Zenon DEF SeenBefore
<1>4. s1 <=> \E k \in 1..n + 1 : MemAt(p, a + 1 - k).op = "segover"
  BY <1>1, Zenon DEF SeenBefore
<1> QED BY <1>2, <1>3, <1>4 DEF SeenBefore

\* A prefix opcode that is recognised records itself and nothing else.
LEMMA PrefixExec ==
    ASSUME TypeOK, Exec, pc' = "loop"
    PROVE  /\ UNCHANGED <<cs, reg_ip, count>>
           /\ rep_flag' = 2 <=> opcode.op = "rep" \/ rep_flag = 2
           /\ rep_flag' = 1 <=> opcode.op = "repnz" \/ rep_flag = 1
           /\ is_segment_override' <=> opcode.op = "segover" \/ is_segment_override
<1>1. \/ Exec_segover \/ Exec_repetition \/ Exec_lock
  BY DEF Exec, Exec_duhhh, Exec_clx, Exec_int, Exec_returns, Exec_jmp, Exec_jc, Exec_loop,
         Exec_mov, Exec_shovel, Exec_nop, Exec_default, Return
<1>2. UNCHANGED <<cs, reg_ip, count>>
  BY <1>1 DEF Exec_segover, Exec_repetition, Exec_lock, Return, regs
<1>3. rep_flag \in 0..2
  BY DEF TypeOK, PrefixOK
<1>4. rep_flag' = 2 <=> opcode.op = "rep" \/ rep_flag = 2
  BY <1>1, <1>3 DEF Exec_segover, Exec_repetition, Exec_lock, Executes, Return, prefix
<1>5. rep_flag' = 1 <=> opcode.op = "repnz" \/ rep_flag = 1
  BY <1>1, <1>3 DEF Exec_segover, Exec_repetition, Exec_lock, Executes, Return, prefix
<1>6. is_segment_override' <=> opcode.op = "segover" \/ is_segment_override
  BY <1>1 DEF Exec_segover, Exec_repetition, Exec_lock, Executes, prefix
<1> QED BY <1>2, <1>4, <1>5, <1>6, Zenon

\* The head of the loop, the acknowledges and the fetch keep PrefixInv: with the bug
\* switch off an interrupt is taken before the first byte only.
LEMMA LoopPrefix ==
    ASSUME TypeOK, HeadInv, PrefixInv,
           TakeNmi \/ TakeInt \/ NoInterrupt \/ LoopExhausted
             \/ ext_hw_nmi_ack \/ ext_hw_ack \/ fetch_exec_byte \/ StepEnd
    PROVE  PrefixInv'
<1>1. StepLimit \in Nat /\ count \in Int /\ reg_ip \in Nat /\ cs.cached_linear \in Nat
  BY WidthAssumption DEF TypeOK, LocalsOK, RegsOK
<1> SUFFICES ASSUME ~preemptible_after_prefix' PROVE PrefixInv'
  BY Zenon DEF PrefixInv
<1>2. UNCHANGED <<program, preemptible_after_prefix, rep_flag, is_segment_override>>
  BY DEF TakeNmi, TakeInt, NoInterrupt, LoopExhausted, ext_hw_nmi_ack, ext_hw_ack,
         fetch_exec_byte, StepEnd, host, prefix
<1>3. ~preemptible_after_prefix
  BY <1>2, Zenon
<1>4. CASE TakeNmi \/ TakeInt
  <2>1. pc = "loop" /\ can_hwint
    BY <1>3, <1>4 DEF TakeNmi, TakeInt, EnterLoop, MayInterrupt
  <2>2. count = StepLimit
    BY <2>1 DEF HeadInv
  <2>3. pc' \in {"nmi_ack", "int_ack"} /\ count' = count - 1
    BY <1>4 DEF TakeNmi, TakeInt, EnterLoop
  <2>4. Parsed' = 0 /\ StepLimit - count = 0
    BY <1>1, <2>2, <2>3 DEF Parsed
  <2>5. PrefixesSeen(0, cs.cached_linear + reg_ip)
    BY <1>3, <2>1, <2>4 DEF PrefixInv
  <2>6. PrefixesSeen(Parsed, cs.cached_linear + reg_ip)'
    BY <1>2, <2>4, <2>5, NothingSeen DEF PrefixesSeen
  <2> QED BY <2>3, <2>4, <2>6 DEF PrefixInv
<1>5. CASE NoInterrupt
  <2>1. pc = "loop" /\ pc' = "fetch" /\ count' = count - 1 /\ UNCHANGED <<cs, reg_ip>>
    BY <1>5 DEF NoInterrupt, EnterLoop, regs
  <2>2. PrefixesSeen(StepLimit - count, cs.cached_linear + reg_ip)
    BY <2>1, <1>3 DEF PrefixInv
  <2>3. Parsed' = StepLimit - count
    BY <1>1, <2>1 DEF Parsed
  <2>4. PrefixesSeen(Parsed, cs.cached_linear + reg_ip)'
    BY <2>1, <2>2, <2>3, <1>2 DEF PrefixesSeen
  <2> QED BY <2>1, <2>4 DEF PrefixInv
<1>6. CASE ext_hw_nmi_ack \/ ext_hw_ack
  <2>1. pc \in {"nmi_ack", "int_ack"} /\ pc' = "fetch" /\ UNCHANGED <<cs, reg_ip, count>>
    BY <1>6 DEF ext_hw_nmi_ack, ext_hw_ack, regs
  <2>2. PrefixesSeen(Parsed, cs.cached_linear + reg_ip)
    BY <2>1, <1>3 DEF PrefixInv
  <2>3. PrefixesSeen(Parsed, cs.cached_linear + reg_ip)'
    BY <2>1, <2>2, <1>2 DEF PrefixesSeen, Parsed
  <2> QED BY <2>1, <2>3 DEF PrefixInv
<1>7. CASE fetch_exec_byte
  <2>1. /\ pc = "fetch" /\ pc' = "exec" /\ UNCHANGED <<cs, count>>
        /\ reg_ip' = reg_ip + 1
        /\ opcode' = MemAt(program, cs.cached_linear + reg_ip)
    BY <1>7 DEF fetch_exec_byte
  <2>2. PrefixesSeen(Parsed, cs.cached_linear + reg_ip)
    BY <2>1, <1>3 DEF PrefixInv
  <2>3. (cs.cached_linear + reg_ip - 1)' = cs.cached_linear + reg_ip
    BY <1>1, <2>1
  <2>4. PrefixesSeen(Parsed, cs.cached_linear + reg_ip - 1)'
    BY <2>1, <2>2, <2>3, <1>2 DEF PrefixesSeen, Parsed
  <2>5. opcode' = MemAt(program', (cs.cached_linear + reg_ip - 1)')
    BY <2>1, <2>3, <1>2
  <2> QED BY <2>1, <2>4, <2>5 DEF PrefixInv
<1>8. CASE LoopExhausted \/ StepEnd
  BY <1>8 DEF LoopExhausted, StepEnd, PrefixInv
<1> QED BY <1>4, <1>5, <1>6, <1>7, <1>8

\* The opcode handlers keep PrefixInv: only a prefix goes back to the loop.
LEMMA ExecPrefix ==
    ASSUME TypeOK, HeadInv, PrefixInv, Exec PROVE PrefixInv'
<1>1. pc = "exec" /\ pc' \in {"loop", "end"} /\ UNCHANGED preemptible_after_prefix
  BY ExecFrame, Zenon DEF Exec, Exec_segover, Exec_repetition, Exec_lock, Exec_duhhh, Exec_clx,
     Exec_int, Exec_returns, Exec_jmp, Exec_jc, Exec_loop, Exec_mov, Exec_shovel, Exec_nop,
     Exec_default, Executes, Return, host
<1>2. CASE pc' = "loop" /\ ~preemptible_after_prefix
  <2> DEFINE a == cs.cached_linear + reg_ip - 1
  <2>1. PrefixesSeen(Parsed, a) /\ opcode = MemAt(program, a)
    BY <1>1, <1>2 DEF PrefixInv
  <2>2. Parsed \in Nat /\ a \in Int /\ StepLimit - count = Parsed + 1
        /\ cs.cached_linear + reg_ip = a + 1
    BY <1>1, WidthAssumption DEF TypeOK, HeadInv, LocalsOK, RegsOK, Parsed
  <2>3. UNCHANGED <<cs, reg_ip, count>>
    BY <1>2, PrefixExec
  <2>4. SeenBefore(rep_flag', is_segment_override', program, Parsed + 1, a + 1)
    <3> HIDE DEF a
    <3> QED BY <1>2, <2>1, <2>2, PrefixExec, RecordedSeen DEF PrefixesSeen
  <2>5. program' = program
    BY ExecFrame DEF host
  <2>6. PrefixesSeen(StepLimit - count, cs.cached_linear + reg_ip)'
    BY <2>2, <2>3, <2>4, <2>5 DEF PrefixesSeen
  <2> QED BY <1>2, <2>6 DEF PrefixInv
<1>3. CASE pc' # "loop" \/ preemptible_after_prefix
  BY <1>1, <1>3 DEF PrefixInv
<1> QED BY <1>2, <1>3

\* PrefixInv holds at every point of every step.
LEMMA PrefixInvariant == Spec => []PrefixInv
<1>1. Init => PrefixInv
  BY DEF Init, PrefixInv
<1>2. TypeOK /\ HeadInv /\ PrefixInv /\ [Next]_vars => PrefixInv'
  <2> SUFFICES ASSUME TypeOK, HeadInv, PrefixInv, [Next]_vars PROVE PrefixInv'
    OBVIOUS
  <2>1. CASE Host
    <3>1. CASE pc = "host" /\ pc' = "host"
      BY <3>1 DEF PrefixInv
    <3>2. CASE UNCHANGED <<program, regs, prefix, locals, preemptible_after_prefix>>
      BY <3>2, Zenon DEF PrefixInv, PrefixesSeen, Parsed, regs, prefix, locals
    <3> QED BY <2>1, <3>1, <3>2
            DEF Host, ext_hw_signal, ext_hw_nmi_signal, setbug, reset, locals, host
  <2>2. CASE StepBegin
    <3>1. rep_flag' = 0 /\ is_segment_override' = FALSE /\ pc' = "loop" /\ count' = StepLimit
      BY <2>2 DEF StepBegin
    <3>2. (StepLimit - count)' = 0
      BY <3>1, WidthAssumption
    <3>3. PrefixesSeen(StepLimit - count, cs.cached_linear + reg_ip)'
      BY <3>1, <3>2, ClearedSeen DEF PrefixesSeen
    <3> QED BY <3>1, <3>3 DEF PrefixInv
  <2>3. CASE \/ TakeNmi \/ TakeInt \/ NoInterrupt \/ LoopExhausted
             \/ ext_hw_nmi_ack \/ ext_hw_ack \/ fetch_exec_byte \/ StepEnd
    BY <2>3, LoopPrefix
  <2>4. CASE Exec
    BY <2>4, ExecPrefix
  <2>5. CASE UNCHANGED vars
    BY <2>5, Zenon DEF PrefixInv, PrefixesSeen, Parsed, vars, regs, prefix, locals, host
  <2> QED BY <2>1, <2>2, <2>3, <2>4, <2>5 DEF Next, Step
<1> QED BY TypeCorrect, HeadInvariant, <1>1, <1>2, PTL DEF Spec

\* With the bug switch off, an executed opcode sees the prefixes right before it and
\* no others, for every program: no prefix outlives its step or reaches a handler.
THEOREM PrefixCorrect == Spec => []PrefixOwned
<1>1. PrefixInv => PrefixOwned
  BY DEF PrefixInv, PrefixOwned
<1> QED BY PrefixInvariant, <1>1, PTL

-----------------------------------------------------------------------------
(***************************************************************************)
(* Where a step leaves CS:IP and the frames.                                *)
(***************************************************************************)
\* An opcode that retires goes to the next instruction, jumps, enters a handler or
\* returns from one.
Moves ==
    \/ /\ opcode.op \in Ops \ (PrefixOps \cup {"bad", "iret", "jmp", "jmpf"})
       /\ reg_ip' = Past /\ UNCHANGED <<cs, frames>>
    \/ /\ opcode.op \in {"jmp", "jc", "jcxz", "loop", "loopz"}
       /\ reg_ip' = Target /\ cs'.val = cs.val /\ UNCHANGED frames
    \/ /\ opcode.op = "jmpf"
       /\ reg_ip' = opcode.arg % Word /\ cs'.val = opcode.seg /\ UNCHANGED frames
    \/ /\ opcode.op \in {"int3", "intn", "into"}
       /\ \E i \in IntNo : go_int_frame(i, Past)
    \/ /\ frames # << >> /\ frames' = Tail(frames)
       /\ cs'.val = Head(frames).cs /\ reg_ip' = Head(frames).ip
    \/ /\ frames = << >> /\ UNCHANGED frames
       /\ \E f \in Junk : cs'.val = f.cs /\ reg_ip' = f.ip

\* Every other one is a prefix or is undone by a restart.
LEMMA ExecMoves ==
    ASSUME TypeOK, Exec
    PROVE  \/ pc' = "end" /\ restart' /\ UNCHANGED <<cs, frames>>
           \/ pc' = "loop" /\ opcode.op \in PrefixOps /\ UNCHANGED <<cs, reg_ip, frames>>
           \/ pc' = "end" /\ Moves
<1> USE DEF Executes, PrefixOps, StringOps, Ops
<1>0. /\ Return(0) => pc' = "end" /\ restart'
      /\ Return(1) => pc' = "end"
      /\ Return(2) => pc' = "loop"
      /\ Return(3) => pc' = "end" /\ restart'
  <2>1. 0 # 2 /\ 1 # 2 /\ 3 # 2
    OBVIOUS
  <2> QED BY <2>1, Zenon DEF Return
<1>a. reg_ip \in Nat
  BY DEF TypeOK, RegsOK
<1>1. CASE Exec_segover \/ Exec_repetition \/ Exec_lock
  BY <1>0, <1>1 DEF Exec_segover, Exec_repetition, Exec_lock, regs
<1>2. CASE Exec_duhhh
  <2>1. opcode.op \in {"hlt", "wait"} /\ UNCHANGED regs
    BY <1>2 DEF Exec_duhhh
  <2>2. Past = reg_ip
    BY <1>a, <2>1 DEF Past, Operands
  <2>3. Return(1) \/ Return(3)
    BY <1>2, Zenon DEF Exec_duhhh
  <2> QED BY <1>0, <2>1, <2>2, <2>3 DEF Moves, regs
<1>3. CASE Exec_clx \/ Exec_nop
  <2>1. Past = reg_ip
    BY <1>a, <1>3 DEF Past, Operands, Exec_clx, Exec_nop
  <2> QED BY <1>0, <1>3, <2>1 DEF Exec_clx, Exec_nop, Moves, regs
<1>4. CASE Exec_mov
  BY <1>0, <1>4 DEF Exec_mov, Moves
<1>5. CASE Exec_int
  <2>0. opcode.op \in {"int3", "intn", "into"} /\ pc' = "end"
    BY <1>0, <1>5 DEF Exec_int
  <2>1. ASSUME UNCHANGED <<cs, reg_ip, int_enable, frames>>, opcode.op = "into" PROVE Moves
    <3>1. Past = reg_ip
      BY <1>a, <2>1 DEF Past, Operands
    <3> QED BY <2>1, <3>1 DEF Moves
  <2>2. ASSUME NEW i, i = (IF opcode.op = "int3" THEN 3 ELSE IF opcode.op = "into" THEN 4 ELSE opcode.arg),
               go_int_frame(i, Past)
        PROVE  Moves
    <3>1. i \in IntNo
      BY <2>0, <2>2, VectorAssumption DEF TypeOK, LocalsOK
    <3> QED BY <2>0, <2>2, <3>1 DEF Moves
  <2> QED BY <1>5, <2>0, <2>1, <2>2, Zenon DEF Exec_int
<1>6. CASE Exec_returns
  BY <1>0, <1>6 DEF Exec_returns, Resume, set_instruction_ptr, SegVal, Moves
<1>7. CASE Exec_jmp
  BY <1>0, <1>7 DEF Exec_jmp, set_instruction_ptr, SegVal, Moves
<1>8. CASE Exec_jc \/ Exec_loop
  <2>1. PICK taken : Branch(taken)
    BY <1>8, Zenon DEF Exec_jc, Exec_loop
  <2>2. opcode.op \in {"jc", "jcxz", "loop", "loopz"} /\ pc' = "end" /\ UNCHANGED frames
    BY <1>0, <1>8 DEF Exec_jc, Exec_loop
  <2> QED BY <2>1, <2>2 DEF Branch, set_instruction_ptr, SegVal, Moves
<1>9. CASE Exec_shovel
  <2>1. Return(1) \/ Return(3)
    BY <1>9, Zenon DEF Exec_shovel
  <2>2. opcode.op \in StringOps /\ UNCHANGED <<cs, reg_ip, frames>>
    BY <1>9 DEF Exec_shovel
  <2>3. Past = reg_ip
    BY <1>a, <2>2 DEF Past, Operands
  <2> QED BY <1>0, <2>1, <2>2, <2>3 DEF Moves
<1>10. CASE Exec_default
  BY <1>0, <1>10 DEF Exec_default, regs
<1> QED
  BY <1>1, <1>2, <1>3, <1>4, <1>5, <1>6, <1>7, <1>8, <1>9, <1>10 DEF Exec

\* An opcode is executed with CS:IP past it.
FetchedInv ==
    pc = "exec" => opcode = MemAt(program, cs.cached_linear + reg_ip - 1) /\ reg_ip > 0

\* Nothing moves CS:IP between the fetch and the execution.
LEMMA FetchedInvariant == Spec => []FetchedInv
<1>1. Init => FetchedInv
  BY DEF Init, FetchedInv
<1>2. TypeOK /\ FetchedInv /\ [Next]_vars => FetchedInv'
  <2> SUFFICES ASSUME TypeOK, FetchedInv, [Next]_vars PROVE FetchedInv'
    OBVIOUS
  <2>0. reg_ip \in Nat /\ cs.cached_linear \in Nat
    BY DEF TypeOK, RegsOK
  <2>1. CASE fetch_exec_byte
    BY <2>0, <2>1 DEF fetch_exec_byte, FetchedInv, host
  <2>2. CASE Exec
    BY <2>2, ExecFrame DEF FetchedInv
  <2>3. CASE StepBegin \/ TakeNmi \/ TakeInt \/ NoInterrupt \/ LoopExhausted \/ ext_hw_nmi_ack
               \/ ext_hw_ack \/ StepEnd
    BY <2>3 DEF StepBegin, TakeNmi, TakeInt, NoInterrupt, LoopExhausted, ext_hw_nmi_ack,
                ext_hw_ack, StepEnd, EnterLoop, FetchedInv
  <2>4. CASE Host
    BY <2>4 DEF Host, ext_hw_signal, ext_hw_nmi_signal, setbug, reset, regs, locals, host, FetchedInv
  <2>5. CASE UNCHANGED vars
    BY <2>5 DEF vars, regs, locals, host, FetchedInv
  <2> QED BY <2>1, <2>2, <2>3, <2>4, <2>5 DEF Next, Step
<1> QED BY TypeCorrect, <1>1, <1>2, PTL DEF Spec

\* What taking an interrupt does to the frames.
LEMMA PushedFrames ==
    ASSUME RegsOK, NEW i \in IntNo, NEW ip \in Int, go_int_frame(i, ip)
    PROVE  /\ Len(frames) \in Nat /\ Len(frames') = Len(frames) + 1
           /\ frames'[1] = FrameAt(ip)
           /\ \A k \in 2..Len(frames') : frames'[k] = frames[k - 1] /\ k - 1 \in 1..Len(frames)
           /\ cs'.val = Vector[i].seg /\ reg_ip' = Vector[i].ofs
<1>1. frames \in Seq(Frame) /\ FrameAt(ip) \in Frame /\ frames' = <<FrameAt(ip)>> \o frames
  BY FrameType DEF RegsOK, go_int_frame
<1>2. cs'.val = Vector[i].seg /\ reg_ip' = Vector[i].ofs
  BY DEF go_int_frame, set_instruction_ptr, SegVal
<1> HIDE DEF FrameAt
<1> QED BY <1>1, <1>2

\* What IRET does to them.
LEMMA PoppedFrames ==
    ASSUME RegsOK, frames # << >>, frames' = Tail(frames)
    PROVE  /\ Len(frames) \in Nat \ {0} /\ Len(frames') = Len(frames) - 1
           /\ Head(frames) = frames[1]
           /\ \A k \in 1..Len(frames') : frames'[k] = frames[k + 1] /\ k + 1 \in 1..Len(frames)
  BY DEF RegsOK

\* CS and the frames keep to the segments a program has.
SegmentInv ==
    /\ cs.val \in Segments(program)
    /\ pc # "host" => reg_cs_exec_initial \in Segments(program)
    /\ \A k \in 1..Len(frames) : frames[k].cs \in Segments(program)

\* The entry, the handlers, what IRET can find and far jumps are of those segments.
LEMMA SegmentsHave ==
    ASSUME NEW p
    PROVE  /\ Entry.seg \in Segments(p)
           /\ \A i \in IntNo : Vector[i].seg \in Segments(p)
           /\ \A f \in Junk : f.cs \in Segments(p)
           /\ \A a : MemAt(p, a).op = "jmpf" => /\ MemAt(p, a).seg \in Segments(p)
                                               /\ a \in DOMAIN Code[p] /\ Code[p][a] = MemAt(p, a)
  BY DEF Segments, MemAt, Unmapped

\* An interrupt keeps to them.
LEMMA IntSegments ==
    ASSUME RegsOK, SegmentInv, NEW i \in IntNo, NEW ip \in Int, go_int_frame(i, ip),
           program' = program
    PROVE  /\ cs'.val \in Segments(program')
           /\ \A k \in 1..Len(frames') : frames'[k].cs \in Segments(program')
<1>1. FrameAt(ip).cs \in Segments(program)
  BY DEF FrameAt, SegmentInv
<1>2. ASSUME NEW k \in 1..Len(frames') PROVE frames'[k].cs \in Segments(program)
  BY <1>1, PushedFrames DEF SegmentInv
<1> QED BY <1>2, PushedFrames, SegmentsHave

\* Every step does.
LEMMA SegmentInvariant == Spec => []SegmentInv
<1>1. Init => SegmentInv
  BY SegmentsHave DEF Init, SegmentInv, SegVal
<1>2. TypeOK /\ FetchedInv /\ SegmentInv /\ [Next]_vars => SegmentInv'
  <2> SUFFICES ASSUME TypeOK, FetchedInv, SegmentInv, [Next]_vars PROVE SegmentInv'
    OBVIOUS
  <2>a. RegsOK /\ reg_ip \in Int /\ reg_cs_exec_initial \in Nat
    BY DEF TypeOK, RegsOK, PrefixOK
  <2>1. CASE TakeNmi \/ TakeInt
    <3>1. PICK i \in IntNo : go_int_frame(i, reg_ip)
      BY <2>1, VectorAssumption DEF TakeNmi, TakeInt, TypeOK, LinesOK
    <3>2. program' = program /\ pc = "loop" /\ reg_cs_exec_initial' = reg_cs_exec_initial
      BY <2>1 DEF TakeNmi, TakeInt, EnterLoop, host, saved
    <3> QED BY <2>a, <3>1, <3>2, IntSegments DEF SegmentInv
  <2>2. CASE StepBegin
    BY <2>2 DEF StepBegin, SegmentInv, regs, host
  <2>3. CASE StepEnd
    BY <2>3, <2>a DEF StepEnd, SegmentInv, host, TypeOK, RegsOK
  <2>4. CASE NoInterrupt \/ LoopExhausted \/ ext_hw_nmi_ack \/ ext_hw_ack \/ fetch_exec_byte
    BY <2>4 DEF NoInterrupt, LoopExhausted, ext_hw_nmi_ack, ext_hw_ack, fetch_exec_byte, EnterLoop,
                SegmentInv, regs, saved, host
  <2>5. CASE Exec
    <3>0. /\ pc = "exec" /\ program' = program /\ reg_cs_exec_initial' = reg_cs_exec_initial
      BY <2>5, ExecFrame DEF saved
    <3>1. CASE UNCHANGED <<cs, frames>>
      BY <3>0, <3>1 DEF SegmentInv
    <3>2. CASE /\ opcode.op \in {"jmp", "jc", "jcxz", "loop", "loopz"}
               /\ cs'.val = cs.val /\ UNCHANGED frames
      BY <3>0, <3>2 DEF SegmentInv
    <3>3. CASE opcode.op = "jmpf" /\ cs'.val = opcode.seg /\ UNCHANGED frames
      BY <3>0, <3>3, SegmentsHave DEF SegmentInv, FetchedInv
    <3>4. CASE \E i \in IntNo : go_int_frame(i, Past)
      BY <3>0, <3>4, <2>a, OperandTypes, IntSegments DEF SegmentInv
    <3>5. CASE frames # << >> /\ frames' = Tail(frames) /\ cs'.val = Head(frames).cs
      BY <3>0, <3>5, <2>a, PoppedFrames DEF SegmentInv
    <3>6. CASE UNCHANGED frames /\ \E f \in Junk : cs'.val = f.cs
      BY <3>0, <3>6, SegmentsHave DEF SegmentInv
    <3> QED
      BY <2>5, <3>1, <3>2, <3>3, <3>4, <3>5, <3>6, ExecMoves DEF Moves
  <2>6. CASE Host
    <3>1. CASE reset
      BY <3>1, SegmentsHave DEF reset, set_instruction_ptr, SegVal, SegmentInv, locals, saved
    <3>2. CASE UNCHANGED <<regs, saved, locals, program>>
      BY <3>2 DEF regs, saved, locals, SegmentInv
    <3> QED BY <2>6, <3>1, <3>2 DEF Host, ext_hw_signal, ext_hw_nmi_signal, setbug, host
  <2>7. CASE UNCHANGED vars
    BY <2>7 DEF vars, regs, saved, locals, host, SegmentInv
  <2> QED BY <2>1, <2>2, <2>3, <2>4, <2>5, <2>6, <2>7 DEF Next, Step
<1> QED BY TypeCorrect, FetchedInvariant, <1>1, <1>2, PTL DEF Spec

-----------------------------------------------------------------------------
(***************************************************************************)
(* The nesting of handlers.                                                 *)
(***************************************************************************)
\* An interrupt goes from the main program to a handler or from one to another.
LEMMA IntNested ==
    ASSUME RegsOK, HandlerNesting, program \in Separate, program' = program,
           NEW i \in IntNo, NEW ip \in Int, go_int_frame(i, ip)
    PROVE  HandlerNesting'
<1>1. Vector[i].seg # Entry.seg
  BY DEF Separate
<1>2. FrameAt(ip).cs = cs.val
  BY DEF FrameAt
<1>3. frames = << >> <=> Len(frames) = 0
  BY DEF RegsOK
<1>4. Len(frames') >= 1 /\ frames' # << >>
  BY PushedFrames
<1>5. ASSUME NEW k \in 1..Len(frames')
      PROVE  frames'[k].cs = Entry.seg <=> k = Len(frames')
  <2>1. CASE k = 1
    <3>1. frames'[1].cs = cs.val
      BY <1>2, PushedFrames
    <3>0. Len(frames) \in Nat /\ Len(frames') = Len(frames) + 1
      BY PushedFrames
    <3>2. 1 = Len(frames') <=> Len(frames) = 0
      BY <3>0
    <3>3. frames = << >> <=> cs.val = Entry.seg
      BY DEF HandlerNesting
    <3> QED BY <1>3, <2>1, <3>1, <3>2, <3>3
  <2>2. CASE k # 1
    <3>1. k \in 2..Len(frames') /\ frames'[k] = frames[k - 1] /\ k - 1 \in 1..Len(frames)
      BY <1>5, <2>2, PushedFrames
    <3>2. frames[k - 1].cs = Entry.seg <=> k - 1 = Len(frames)
      BY <3>1 DEF HandlerNesting
    <3> QED BY <3>1, <3>2, PushedFrames
  <2> QED BY <2>1, <2>2
<1> QED BY <1>1, <1>4, <1>5, PushedFrames DEF HandlerNesting

\* An opcode keeps the two apart.
LEMMA ExecNested ==
    ASSUME TypeOK, CoherenceInv, FetchedInv, SegmentInv, HandlerNesting,
           program \in Separate, Exec
    PROVE  HandlerNesting'
<1>0. /\ pc = "exec" /\ program' = program /\ program \in WellBehaved /\ RegsOK
      /\ frames \in Seq(Frame)
  BY ExecFrame DEF Separate, TypeOK, RegsOK
<1>1. CASE cs'.val = cs.val /\ UNCHANGED frames
  BY <1>0, <1>1 DEF HandlerNesting
<1>2. CASE opcode.op = "jmpf" /\ cs'.val = opcode.seg /\ UNCHANGED frames
  <2> DEFINE a == cs.cached_linear + reg_ip - 1
  <2>1. opcode = MemAt(program, a) /\ a >= Linear(cs.val)
    <3>1. cs.cached_linear = Linear(cs.val) /\ reg_ip \in Nat /\ cs.cached_linear \in Nat
      BY <1>0 DEF CoherenceInv, Coherent, TypeOK, RegsOK
    <3> QED BY <1>0, <3>1 DEF FetchedInv
  <2>2. a \in DOMAIN Code[program] /\ Code[program][a] = opcode
    BY <1>2, <2>1, SegmentsHave
  <2>3. opcode.seg = Entry.seg <=> cs.val = Entry.seg
    BY <1>2, <2>1, <2>2 DEF Separate, SegmentInv
  <2> QED BY <1>0, <1>2, <2>3 DEF HandlerNesting
<1>3. CASE \E i \in IntNo : go_int_frame(i, Past)
  BY <1>0, <1>3, OperandTypes, IntNested
<1>4. CASE frames # << >> /\ frames' = Tail(frames) /\ cs'.val = Head(frames).cs
  <2>0. Len(frames) \in Nat \ {0} /\ Len(frames') = Len(frames) - 1 /\ Head(frames) = frames[1]
    BY <1>0, <1>4, PoppedFrames
  <2>1. frames' = << >> <=> Len(frames) = 1
    <3>1. frames' \in Seq(Frame)
      BY <1>0, <1>4
    <3>2. frames' = << >> <=> Len(frames') = 0
      BY <3>1
    <3> QED BY <2>0, <3>2
  <2>2. frames[1].cs = Entry.seg <=> Len(frames) = 1
    <3>1. 1 \in 1..Len(frames)
      BY <2>0
    <3>2. frames[1].cs = Entry.seg <=> 1 = Len(frames)
      BY <1>0, <3>1 DEF HandlerNesting
    <3> QED BY <3>2
  <2>3. ASSUME NEW k \in 1..Len(frames')
        PROVE  frames'[k].cs = Entry.seg <=> k = Len(frames')
    <3>1. frames'[k] = frames[k + 1] /\ k + 1 \in 1..Len(frames) /\ Len(frames') = Len(frames) - 1
      BY <1>0, <1>4, PoppedFrames
    <3>2. frames[k + 1].cs = Entry.seg <=> k + 1 = Len(frames)
      BY <3>1 DEF HandlerNesting
    <3> QED BY <1>0, <3>1, <3>2
  <2> QED BY <1>0, <1>4, <2>0, <2>1, <2>2, <2>3 DEF HandlerNesting
<1>5. CASE frames = << >> /\ UNCHANGED frames /\ \E f \in Junk : cs'.val = f.cs
  BY <1>0, <1>5 DEF HandlerNesting, Separate
<1> QED
  BY <1>1, <1>2, <1>3, <1>4, <1>5, ExecMoves DEF Moves

\* A handler is left by IRET alone, for every program that enters and leaves handlers
\* by interrupt and IRET: the restart of an instruction that was interrupted, or of the
\* first one of a handler, never returns to the main program with the frame pushed.
THEOREM NestingCorrect == Spec => []HandlerNesting
<1>1. Init => HandlerNesting
  BY DEF Init, HandlerNesting, SegVal
<1>2. TypeOK /\ CoherenceInv /\ FetchedInv /\ SegmentInv /\ HandlerNesting /\ [Next]_vars
        => HandlerNesting'
  <2> SUFFICES ASSUME TypeOK, CoherenceInv, FetchedInv, SegmentInv, HandlerNesting,
                      [Next]_vars, program' \in Separate
               PROVE  HandlerNesting'
    BY DEF HandlerNesting
  <2>0. RegsOK /\ reg_ip \in Int /\ frames \in Seq(Frame)
    BY DEF TypeOK, RegsOK
  <2>1. CASE TakeNmi \/ TakeInt
    <3>1. PICK i \in IntNo : go_int_frame(i, reg_ip)
      BY <2>1, VectorAssumption DEF TakeNmi, TakeInt, TypeOK, LinesOK
    <3>2. program' = program
      BY <2>1 DEF TakeNmi, TakeInt, host
    <3> QED BY <2>0, <3>1, <3>2, IntNested
  <2>2. CASE StepEnd
    <3>1. program' = program /\ pc = "end" /\ UNCHANGED frames
      BY <2>2 DEF StepEnd, host
    <3>2. cs.val = reg_cs_exec_initial \/ (~restart /\ count > 0)
      BY <3>1 DEF CoherenceInv, StepPoint, Separate
    <3>3. cs'.val = cs.val
      BY <2>2, <3>2 DEF StepEnd, TypeOK, RegsOK, LocalsOK
    <3> QED BY <3>1, <3>3 DEF HandlerNesting
  <2>3. CASE Exec
    BY <2>3, ExecFrame, ExecNested
  <2>4. CASE reset
    BY <2>4 DEF reset, set_instruction_ptr, SegVal, HandlerNesting
  <2>5. CASE UNCHANGED <<cs, frames, program>>
    BY <2>5 DEF HandlerNesting
  <2> QED
    BY <2>1, <2>2, <2>3, <2>4, <2>5 DEF Next, Step, StepBegin, NoInterrupt, LoopExhausted,
       ext_hw_nmi_ack, ext_hw_ack, fetch_exec_byte, Host, ext_hw_signal, ext_hw_nmi_signal, setbug,
       regs, host, vars
<1> QED BY TypeCorrect, CoherenceInvariant, FetchedInvariant, SegmentInvariant, <1>1, <1>2, PTL DEF Spec

-----------------------------------------------------------------------------
(***************************************************************************)
(* Instructions are not cut in two.                                         *)
(***************************************************************************)
NoBug == Level > 1 /\ TRUE \notin SetBugValues

\* A step begins at the start of an instruction and ends there if it is not undone;
\* in between IP is within the segment, and frames return to starts.
SplitInv ==
    (program \in Unsplit /\ NoBug) =>
        /\ ~preemptible_after_prefix
        /\ pc = "host" => StartsInstr(program, cs.val, reg_ip)
        /\ pc # "host" => StartsInstr(program, reg_cs_exec_initial, reg_ip_exec_initial)
        /\ pc \in {"loop", "nmi_ack", "int_ack", "fetch"} => reg_ip < Word
        /\ pc = "exec" => reg_ip <= Word
        /\ pc = "end" /\ ~restart /\ count > 0 => StartsInstr(program, cs.val, reg_ip)
        /\ \A k \in 1..Len(frames) : StartsInstr(program, frames[k].cs, frames[k].ip)

\* An interrupt between two instructions keeps them whole.
LEMMA IntSplit ==
    ASSUME RegsOK, SplitInv, program \in Unsplit, NoBug, NEW i \in IntNo, NEW ip \in Int,
           StartsInstr(program, cs.val, ip), go_int_frame(i, ip)
    PROVE  /\ StartsInstr(program, cs'.val, reg_ip')
           /\ \A k \in 1..Len(frames') : StartsInstr(program, frames'[k].cs, frames'[k].ip)
<1>1. ip % Word = ip
  BY WidthAssumption DEF StartsInstr
<1>2. FrameAt(ip).cs = cs.val /\ FrameAt(ip).ip = ip
  BY <1>1 DEF FrameAt
<1>3. ASSUME NEW k \in 1..Len(frames')
      PROVE  StartsInstr(program, frames'[k].cs, frames'[k].ip)
  <2>1. CASE k = 1
    <3>1. frames'[1] = FrameAt(ip)
      BY PushedFrames
    <3> QED BY <1>2, <2>1, <3>1
  <2>2. CASE k # 1
    <3>1. k \in 2..Len(frames') /\ frames'[k] = frames[k - 1] /\ k - 1 \in 1..Len(frames)
      BY <1>3, <2>2, PushedFrames
    <3>2. StartsInstr(program, frames[k - 1].cs, frames[k - 1].ip)
      BY <3>1 DEF SplitInv
    <3> QED BY <3>1, <3>2
  <2> QED BY <2>1, <2>2
<1>4. StartsInstr(program, Vector[i].seg, Vector[i].ofs)
  BY DEF Unsplit
<1> QED BY <1>3, <1>4, PushedFrames

\* The opcode at CS:IP leads to the start of an instruction.
LEMMA ExecLeads ==
    ASSUME TypeOK, CoherenceInv, FetchedInv, SegmentInv, SplitInv,
           program \in Unsplit, NoBug, pc = "exec"
    PROVE  /\ opcode.op \in PrefixOps => reg_ip < Word
           /\ opcode.op \in Ops \ (PrefixOps \cup {"bad", "iret", "jmp", "jmpf"}) =>
                 StartsInstr(program, cs.val, Past)
           /\ opcode.op \in {"jmp", "jc", "jcxz", "loop", "loopz"} =>
                 StartsInstr(program, cs.val, Target)
           /\ opcode.op = "jmpf" => StartsInstr(program, opcode.seg, opcode.arg % Word)
<1> DEFINE ip == reg_ip - 1
<1>1. cs.cached_linear = Linear(cs.val) /\ cs.cached_linear \in Nat /\ reg_ip \in Nat
  BY DEF Unsplit, CoherenceInv, Coherent, TypeOK, RegsOK
<1>2. ip \in 0..Word - 1 /\ reg_ip <= Word
  BY <1>1, WidthAssumption DEF FetchedInv, SplitInv
<1>3. opcode = MemAt(program, Linear(cs.val) + ip)
  <2>1. cs.cached_linear + reg_ip - 1 = Linear(cs.val) + ip
    BY <1>1
  <2> QED BY <2>1 DEF FetchedInv
<1>4. LeadsToStart(program, cs.val, ip)
  BY <1>2 DEF Unsplit, SegmentInv
<1>5. Operands(opcode.op) \in Nat /\ (opcode.op \in PrefixOps => Operands(opcode.op) = 0)
  BY DEF Operands, PrefixOps
<1>6. ip + 1 + Operands(opcode.op) = Past
  BY <1>1, <1>5 DEF Past
<1>7. /\ opcode.op \in PrefixOps => Past < Word
      /\ opcode.op \notin PrefixOps \cup {"bad", "iret", "jmp", "jmpf"} =>
            StartsInstr(program, cs.val, Past)
      /\ opcode.op \in {"jmp", "jc", "jcxz", "loop", "loopz"} =>
            StartsInstr(program, cs.val, (Past + opcode.arg) % Word)
      /\ opcode.op = "jmpf" => StartsInstr(program, opcode.seg, opcode.arg % Word)
  BY <1>3, <1>4, <1>6, Zenon DEF LeadsToStart
<1> QED BY <1>1, <1>5, <1>7 DEF Past, Target

\* No opcode, finished or not, leaves an instruction in two.
LEMMA ExecSplit ==
    ASSUME TypeOK, CoherenceInv, FetchedInv, SegmentInv, SplitInv,
           program \in Unsplit, NoBug, Exec
    PROVE  SplitInv'
<1>0. /\ pc = "exec" /\ RegsOK
      /\ UNCHANGED <<program, preemptible_after_prefix, reg_cs_exec_initial, reg_ip_exec_initial>>
  BY ExecFrame DEF TypeOK, saved
<1>1. /\ ~preemptible_after_prefix
      /\ StartsInstr(program, reg_cs_exec_initial, reg_ip_exec_initial)
      /\ \A k \in 1..Len(frames) : StartsInstr(program, frames[k].cs, frames[k].ip)
  BY <1>0 DEF SplitInv
<1>2. CASE pc' = "end" /\ restart' /\ UNCHANGED <<cs, frames>>
  BY <1>0, <1>1, <1>2 DEF SplitInv
<1>3. CASE pc' = "loop" /\ opcode.op \in PrefixOps /\ UNCHANGED <<cs, reg_ip, frames>>
  BY <1>0, <1>1, <1>3, ExecLeads DEF SplitInv
<1>4. CASE pc' = "end" /\ Moves
  <2>1. /\ StartsInstr(program, cs'.val, reg_ip')
        /\ \A k \in 1..Len(frames') : StartsInstr(program, frames'[k].cs, frames'[k].ip)
    <3>1. CASE /\ opcode.op \in Ops \ (PrefixOps \cup {"bad", "iret", "jmp", "jmpf"})
               /\ reg_ip' = Past /\ UNCHANGED <<cs, frames>>
      BY <1>0, <1>1, <3>1, ExecLeads
    <3>2. CASE /\ opcode.op \in {"jmp", "jc", "jcxz", "loop", "loopz"}
               /\ reg_ip' = Target /\ cs'.val = cs.val /\ UNCHANGED frames
      BY <1>0, <1>1, <3>2, ExecLeads
    <3>3. CASE /\ opcode.op = "jmpf"
               /\ reg_ip' = opcode.arg % Word /\ cs'.val = opcode.seg /\ UNCHANGED frames
      BY <1>0, <1>1, <3>3, ExecLeads
    <3>4. CASE /\ opcode.op \in {"int3", "intn", "into"}
               /\ \E i \in IntNo : go_int_frame(i, Past)
      <4>1. opcode.op \in Ops \ (PrefixOps \cup {"bad", "iret", "jmp", "jmpf"})
        BY <3>4 DEF Ops, PrefixOps, StringOps
      <4>2. StartsInstr(program, cs.val, Past) /\ Past \in Int
        BY <1>0, <4>1, ExecLeads, OperandTypes
      <4> QED BY <1>0, <3>4, <4>2, IntSplit
    <3>5. CASE /\ frames # << >> /\ frames' = Tail(frames)
               /\ cs'.val = Head(frames).cs /\ reg_ip' = Head(frames).ip
      <4>1. Head(frames) = frames[1] /\ 1 \in 1..Len(frames)
        BY <1>0, <3>5, PoppedFrames
      <4>2. \A k \in 1..Len(frames') : frames'[k] = frames[k + 1] /\ k + 1 \in 1..Len(frames)
        BY <1>0, <3>5, PoppedFrames
      <4> QED BY <1>1, <3>5, <4>1, <4>2
    <3>6. CASE /\ frames = << >> /\ UNCHANGED frames
               /\ \E f \in Junk : cs'.val = f.cs /\ reg_ip' = f.ip
      BY <1>1, <3>6 DEF Unsplit
    <3> QED BY <1>4, <3>1, <3>2, <3>3, <3>4, <3>5, <3>6, Zenon DEF Moves
  <2> QED BY <1>0, <1>1, <1>4, <2>1 DEF SplitInv
<1> QED BY <1>2, <1>3, <1>4, ExecMoves

\* The parts of softx86_step around the handlers keep instructions whole: interrupts
\* are taken before the first prefix only.
LEMMA LoopSplit ==
    ASSUME TypeOK, HeadInv, CoherenceInv, SplitInv, program \in Unsplit, NoBug,
           StepBegin \/ TakeNmi \/ TakeInt \/ NoInterrupt \/ LoopExhausted \/ ext_hw_nmi_ack
             \/ ext_hw_ack \/ fetch_exec_byte \/ StepEnd
    PROVE  SplitInv'
<1>0. RegsOK /\ reg_ip \in Nat /\ cs \in [val : Nat, cached_linear : Nat] /\ Word \in Nat /\ count \in Int
  BY WidthAssumption DEF TypeOK, RegsOK, LocalsOK
<1>1. CASE StepBegin
  BY <1>0, <1>1 DEF StepBegin, SplitInv, StartsInstr, regs, host
<1>2. CASE TakeNmi \/ TakeInt
  <2>1. PICK i \in IntNo : go_int_frame(i, reg_ip)
    BY <1>2, VectorAssumption DEF TakeNmi, TakeInt, TypeOK, LinesOK
  <2>2. /\ pc = "loop" /\ pc' \in {"nmi_ack", "int_ack"} /\ can_hwint
        /\ UNCHANGED <<program, preemptible_after_prefix, reg_cs_exec_initial, reg_ip_exec_initial>>
    BY <1>2 DEF TakeNmi, TakeInt, EnterLoop, MayInterrupt, SplitInv, host, saved
  <2>3. count = StepLimit
    BY <2>2 DEF HeadInv
  <2>4. StartsInstr(program, cs.val, reg_ip)
    <3>1. StillReading(StepLimit - count, StepLimit - count)
      BY <2>2 DEF CoherenceInv, StepPoint, Unsplit
    <3>2. cs.val = reg_cs_exec_initial /\ reg_ip = reg_ip_exec_initial
      BY <1>0, <2>3, <3>1, WidthAssumption DEF StillReading, TypeOK, PrefixOK
    <3> QED BY <2>2, <3>2 DEF SplitInv
  <2>5. /\ StartsInstr(program, cs'.val, reg_ip')
        /\ \A k \in 1..Len(frames') : StartsInstr(program, frames'[k].cs, frames'[k].ip)
    BY <1>0, <2>1, <2>4, IntSplit
  <2>6. reg_ip' < Word
    BY <1>0, <2>5 DEF StartsInstr
  <2> QED BY <2>2, <2>5, <2>6 DEF SplitInv
<1>3. CASE NoInterrupt
  BY <1>3 DEF NoInterrupt, EnterLoop, SplitInv, regs, saved, host
<1>4. CASE LoopExhausted
  BY <1>0, <1>4 DEF LoopExhausted, SplitInv, regs, saved, host
<1>5. CASE ext_hw_nmi_ack \/ ext_hw_ack
  BY <1>5 DEF ext_hw_nmi_ack, ext_hw_ack, SplitInv, regs, saved, host
<1>6. CASE fetch_exec_byte
  BY <1>0, <1>6 DEF fetch_exec_byte, SplitInv, saved, host
<1>7. CASE StepEnd
  BY <1>0, <1>7 DEF StepEnd, SplitInv, host
<1> QED BY <1>1, <1>2, <1>3, <1>4, <1>5, <1>6, <1>7

\* Return addresses, and CS:IP between two calls of softx86_step, are starts of
\* instructions whatever interrupts the host raises and whenever, for every program whose
\* jumps and handlers keep to such starts and a CPU without the prefix bug.
THEOREM WholeInstructions == Spec => []NoTornInstruction
<1>1. Init => SplitInv
  BY WidthAssumption DEF Init, SplitInv, NoBug, Unsplit, SegVal
<1>2. TypeOK /\ HeadInv /\ CoherenceInv /\ FetchedInv /\ SegmentInv /\ SplitInv /\ [Next]_vars
        => SplitInv'
  <2> SUFFICES ASSUME TypeOK, HeadInv, CoherenceInv, FetchedInv, SegmentInv, SplitInv,
                      [Next]_vars, program' \in Unsplit, NoBug
               PROVE  SplitInv'
    BY DEF SplitInv, NoBug
  <2>1. CASE reset
    <3>1. StartsInstr(program', Entry.seg, Entry.ofs)
      BY DEF Unsplit
    <3> QED BY <2>1, <3>1, WidthAssumption
            DEF reset, set_instruction_ptr, SegVal, SplitInv, NoBug, locals
  <2>2. CASE \E on \in SetBugValues : setbug(on)
    BY <2>2, WidthAssumption DEF setbug, SplitInv, NoBug, regs, saved, locals
  <2>3. CASE UNCHANGED <<regs, saved, locals, host>>
    BY <2>3 DEF SplitInv, regs, saved, locals, host
  <2>4. CASE Exec
    BY <2>4, ExecFrame, ExecSplit
  <2>5. CASE StepBegin \/ TakeNmi \/ TakeInt \/ NoInterrupt \/ LoopExhausted \/ ext_hw_nmi_ack
               \/ ext_hw_ack \/ fetch_exec_byte \/ StepEnd
    <3>1. program' = program
      BY <2>5 DEF StepBegin, TakeNmi, TakeInt, NoInterrupt, LoopExhausted, ext_hw_nmi_ack,
                  ext_hw_ack, fetch_exec_byte, StepEnd, host
    <3> QED BY <2>5, <3>1, LoopSplit
  <2> QED
    BY <2>1, <2>2, <2>3, <2>4, <2>5 DEF Next, Step, Host, ext_hw_signal, ext_hw_nmi_signal, vars
<1>3. SplitInv => NoTornInstruction
  BY DEF SplitInv, NoBug, NoTornInstruction
<1> QED BY TypeCorrect, HeadInvariant, CoherenceInvariant, FetchedInvariant, SegmentInvariant,
           <1>1, <1>2, <1>3, PTL DEF Spec

=============================================================================
