# Verification of the ProcPlay 8086 simulator

ProcPlay lets a user type assembly language and watch an 8086 execute it. A Ruby
class, `Cpu`, assembles the text, writes it into a buffer of RAM and drives
**softx86**, a C library that emulates the processor. softx86 owns the registers
and the interrupt lines; memory, ports, the coprocessor and interrupt
acknowledges are callbacks into the host application. The repository also carries
softx86's own debugger (a second host), its coprocessor softx87, and the sources
of two assemblers.

Paths below are relative to the repository; `S/` stands for
`doc/softx86_source_code/softx86/`.

## 1. Inventory

| component | state | operations | how it interacts |
|---|---|---|---|
| step loop and interrupt core (`S/softx86.c`, `prefixes.c`, `interrupts.c`, `drooling_duh.c`, `clc.c`) | registers, CS with a hidden base, IF, INT/NMI latches, prefix flags, bug switches, the saved CS:IP | `softx86_step`, `reset`, `setbug`, `ext_hw_signal`, `ext_hw_nmi_signal`, `ext_hw_ack`, `ext_hw_nmi_ack`, `go_int_frame`, prefix and interrupt opcodes | calls the opcode table; calls the host back for memory and acknowledges; the host may signal from any callback |
| control transfers (`jumpy.c`, `procframe.c`) | CS:IP, SP, BP | JMP, Jcc, LOOP, CALL, RET, IRET, ENTER, LEAVE | through `set_instruction_ptr` and the stack |
| stack (`pushpop.c`, `pushw`/`popw`) | SS:SP and memory | PUSH, POP, PUSHA, POPA, flags | shared with interrupts and calls |
| string instructions (`shovel.c`) | CX, SI, DI, DF, prefix flags | MOVS, CMPS, SCAS, LODS, STOS, with REP | asks the step loop to run it again |
| operand engines and groups (`softx86.c`, `groupies.c`, `mov.c`) | registers, memory | one engine per operand form | consume operand bytes; arithmetic is passed in as functions |
| arithmetic and logic (`add.c`, `binops.c`, `inc.c`, `aaa.c`, `cbw.c`) | registers, flags | `op_*` functions | called by engines and groups |
| opcode table (`optable.c`) | none | dispatch by first byte | executor and decompiler of each opcode |
| decompiler (`softx86_decompile` and every `Dec` function) | its own CS:IP | one listing line | must count bytes as the executor does |
| memory and ports (`softx86_fetch`, `softx86_write`, `ioport.c`) | none | split at the 32-bit wrap | host callbacks |
| softx87 (`doc/softx86_source_code/softx87`) | register stack, control and status words | FPU opcodes | FPU callbacks of softx86 (`fpu.c`) |
| `Cpu` (`src/cpu.rb`) | RAM, register snapshot | `run`, `reset`, `registers`, `dump_ram`, memory callbacks | hosts softx86 |
| softx86dbg (`main.cpp`) | RAM, symbols | commands, COM loader, fake INT 21h | hosts softx86 |
| bindings, assembler, web site | none | foreign function declarations, a static page | |
| nasmlib, fasm, other simulators, samples | | | third-party or example material |

What is hard in it:

* **Interleaving.** There are no threads, but the host runs inside callbacks in
  the middle of a step and may raise interrupts there.
* **Retry.** An instruction that does not finish (REP, HLT, an unknown opcode) is
  undone by putting back CS and IP, and run again from its first prefix.
* **Stale state.** Every segment register has a hidden base cached beside its
  value; prefix flags are kept in the context, not in the step.
* **Protocol.** Frames pushed by NMI, INT and INT n must pair with IRET however
  they nest; latches are cleared after the callback that acknowledges them.
* **Numeric edges.** 16-bit registers in 32-bit fields, IP that is never wrapped,
  SP that wraps while the linear address does not, flags.

What makes each component correct: the core delivers every interrupt once, at a
boundary, by priority, and resumes the program as if nothing had happened; CS and
its hidden base agree; prefixes affect one instruction. Calls and stack
instructions are inverse to each other. String instructions have the effect of
the loop they abbreviate. Executor and decompiler consume the same bytes.
Arithmetic agrees with the processor's definition. `Cpu#run` executes the
program it was given and reports errors. The hazards, each with its line, are
listed in `PROJECT.json`.

## 2. Modules

| module | what it is |
|---|---|
| `Softx86Step` | the step loop, the interrupt core, and the opcodes that decide how a step ends; its properties and mutants |
| `InterruptContract` | abstract specification: what a host is promised about interrupts |
| `Softx86Stack` | the stack over the bytes at SS:SP and the instructions built on it |
| `Softx86Flags` | the functions of the arithmetic and logic opcodes, and the conditions of Jcc |
| `Softx86Alu` | programs of such instructions, chained through registers and flags: `Listing(name)` is one, with a width and sets of operands in `Programs` |
| `Softx86Decode` | executor against decompiler: bytes read, targets, what is accepted |
| `Softx86Operand` | the cell a ModR/M operand names, and the instructions that move data |
| `Softx86String` | the string instructions, on top of `Softx86Operand` |
| `PowersOfTwo` | 2^n as a recursive function `Pow2`, for the two modules that compute with widths |
| `Softx87Number` | the number formats of softx87 and its addition |
| `Softx87` | the register ring of softx87 and its instructions, on top of `Softx87Number` |
| `ProcPlayCpu` | the Ruby class with its RAM, driving a byte-accurate piece of softx86 |
| `Softx86Step_proofs`, `Softx86Stack_proofs`, `Softx86Alu_proofs`, `Softx86Decode_proofs`, `Softx86String_proofs`, `ProcPlayCpu_proofs`, `Softx87_proofs` | TLAPS proofs about the module of that name |
| `Recursion_proofs` | induction on the naturals, and functions defined by recursion, for the other proofs; quotients, remainders and powers of two |
| `MCImage` | how the small code memories of the step runs are written |
| `MCStepPrograms`, `MCStepService`, `MCStepHalt`, `MCStack`, `MCAlu`, `MCDecode`, `MCOperand`, `MCSoftx87`, `MCProcPlayCpu` | instances for TLC |

The modules meet where one's abstraction is another's subject. `Softx86Step` takes an
instruction for a record; `Softx86Decode` says how many bytes it has, `Softx86Operand`
which cell it names, `Softx86Flags` what it computes. The outcomes of Jcc, and of the
comparison in CMPS and SCAS, are arbitrary in `Softx86Step` and computed in
`Softx86Alu` and `Softx86String`. The interrupt frames that are a sequence in `Softx86Step` are bytes in
`Softx86Stack`. ESC opcodes are counted in `Softx86Decode` and executed in `Softx87`.

### Softx86Step

One call of `softx86_step` (`S/softx86.c` 435-512) is cut into actions where the
library calls the host: `StepBegin` (prologue), the head of the loop (`TakeNmi`,
`TakeInt`, `NoInterrupt`, `LoopExhausted`), the acknowledges, `fetch_exec_byte`,
one `Exec_*` action per opcode handler, and `StepEnd`. `pc` is the place in the
call, and `count`, `can_hwint`, `restart`, `err`, `opcode` are its locals. A handler's
result 0/1/2/3 goes through `Return`, the chain of tests after the call through
the opcode table. The host (`ext_hw_signal`, `ext_hw_nmi_signal`, `setbug`,
`reset`) acts between steps; the two signals also act inside the acknowledge
callbacks and the memory callback of the fetch.

| TLA+ | C |
|---|---|
| `cs.val`, `cs.cached_linear`, `reg_ip` | `segment_reg[CS]`, `reg_ip` |
| `int_enable`, `reg_cx`, `reg_di` | IF of `reg_flags`, CX, DI in elements |
| `frames` | the flags/CS/IP triples on the stack, newest first |
| `rep_flag`, `is_segment_override` | the same |
| `int_hw_flag`, `int_hw`, `int_nmi` | the same |
| `preemptible_after_prefix` | `bugs.preemptible_after_prefix` |
| `reg_cs_exec_initial`, `reg_ip_exec_initial` | the same |
| `Code[program]` | memory, seen as instructions at linear addresses |
| `err'` of `StepEnd` | the negated return value |

Abstractions: code is not modified; an instruction is a record with an argument,
and its operand bytes take room but hold nothing executable; the stack holds
interrupt frames only (handlers balance their own pushes); what IRET finds on an
empty stack is any member of `Junk`; OF (for INTO), the conditions of Jcc and the
ZF of CMPS/SCAS and of LOOPZ/LOOPNZ are arbitrary; reading memory returns immediately, the host's
signals during it included. IP is not wrapped, as in C, and a frame keeps it
modulo `Word`, as `softx86_stack_pushw` does. `softx86_reset` does not clear
`int_hw`, the prefix flags or the saved CS:IP, and neither does `reset`.

Bounds: `MaxHostCalls` caps the interrupts and resets of a behaviour and
`MaxFrames` the depth of nesting at which the host stops stepping. `Word`, `Para`
and `StepLimit` are parameters (65536, 16 and 16 in C).

### InterruptContract

A request is latched until taken, the NMI goes first, INT needs IF, requests are
taken only between two instructions unless the 8086 bug is switched on, and no
instruction starts past a request that may be taken. `Softx86Step!Taken` is the
refinement mapping: a request counts as taken when its frame is pushed (the latch
is cleared later, after the callback), and the boundary between instructions
reaches into the head of the first iteration of the loop.

### Softx86Stack

`pushw` and `WordAt` are `softx86_stack_pushw` and `softx86_stack_popw`: SP wraps, the
address of a word's second byte does not, so `mem` has one byte more than the
segment. The actions are PUSH, POP, PUSHF, POPF, PUSHA, POPA, the near and far
CALL and RET with their discarded bytes, the interrupt frame with IRET, ENTER and
LEAVE, the switch for the PUSH SP bug, and `Compute` for everything else. CALL and
JMP of group FFh go through a register of `Through` (near only) or a pointer at SS:BP,
read before anything is pushed. Here the
frames that `Softx86Step` keeps as a sequence become bytes.

Programs are arbitrary within a discipline: what is opened (a word, a call, an
interrupt, a frame, PUSHA) is closed by its counterpart, innermost first, except
that LEAVE and RET n drop words; a procedure called near leaves its segment by no far jump,
for its RET would not find the way back. The history variable `open` remembers the registers
at each opening; guards look at its shape, never at its values. POP SP, POP BP and
POP of segment registers, which say where the stack is, are in `Softx86Operand`. Stack use is bounded by the
segment itself (`Room`), behaviours by `MaxOps`, with room kept for the closings
(`Left`): a behaviour ends when its program does, which is why this run does not
check for deadlock.

PUSHA stores eight words, of which POPA takes seven back; `StackImage` is about all eight,
the SP among them, which is the one before or after the decrement as the CPU has it.

ENTER sets SP from BP, as the code does: the display it has pushed lies under the
locals, or below SP, and does not count as stack in use.

### Softx86Flags and Softx86Alu

One operator per `op_*` function, named after it, with the width as a parameter: C has a
function for each (`op_add8`, `op_add16`). An operator takes the flags before and the operands
in C's order and yields the result and the flags after. `Softx86Alu` has one action per
opcode handler or group; two pairs of registers stand for AH:AL or DX:AX and for
another number of two limbs, and a program is a handful of instructions on them. LAHF and
SAHF carry CF around instructions that change it; CMC, CLC and STC are there too.
DIV, IDIV and BOUND may signal an interrupt, which ends the program.

What the code does and the processor does not, translated as it is:

* ADC and SBB of an operand of all ones with a carry return that operand (finding 4).
* OF is CF after additions and subtractions, and JL, JGE, JLE, JG compare the masked SF
  (0x80) with the masked OF (0x800). The two cancel for operands of one sign, which
  `SignedOrder` states; for operands of different signs the signed conditions are wrong.
* The word forms of DIV and IDIV take the remainder of AX without DX; the word form of SAR
  does not fill with the sign; AAM divides what is already the remainder, and with
  operand 0 stores an AH that was never set; DAA takes low digits that add up to
  10..15 for a carry out of the byte.
* Rotations, and without the bug switch shifts, use the whole count.

Left out: the most negative double word divided by -1 and C shifts by more than the width of
the C type (undefined), and the 32-bit forms, which no opcode of this table reaches.

### Softx86Decode

The bytes of one instruction are read twice from the same place: first by the executor
(`exec`, the `Exec_*` actions), then by the decompiler (`dec`, the `Dec_*` actions). One
action per handler of the opcode table; what it does is take or reject the
instruction, read so many bytes and, for a relative jump, compute a target. Prefixes
cost one action each and are counted against the iteration limit by both. `level` is
the CPU, `copro` says whether softx87 is connected, which matters to ESC opcodes.
`PrefixCount` is the length of the run of prefixes, which can be any.

`ListingInStep` and `AcceptTogether` name the differences that are there: MOV with a
segment register numbered 4..7 leaves its displacement unread when executed and not
when listed, although `softx86-api-ref.txt` (line 91) has the decompiler's CS:IP at the
next instruction; FFh /3 and /5 with a register, and a second REP, are
listed and not executed. Against `instodo.txt` (`AsImplemented`): XLAT is in the list and
never executed (`mov.c` 222 compares a masked opcode with D7h); BOUND runs on an 8086;
the coprocessor's FADD is there and not in the list; the list swaps the numbers of a few
members of groups 8Fh and FFh. Opcode 83h takes a word immediate, in executor and
decompiler alike.

### Softx86Operand and Softx86String

Registers with their byte halves, segment registers and a memory of bytes. `Base`,
`Displacement`, `Offset` and `SegOf` are the address computation that each engine of
`softx86.c` carries a copy of; the copies are the same, so there is one. Actions are the data
moves: MOV in all its forms, XCHG, LEA, LES/LDS, NOT, PUSH and POP of r/m, of every general and
every segment register (with the PUSH SP bug off),
CLD/STD; then MOVS, CMPS, STOS, LODS and SCAS with REP, one element a step, the
handler keeping `pc` where it is until CX is used up or a comparison ends it.

As in C, the second byte of a word follows the first past the end of the segment; a
segment override redirects ES:DI as well; LEA, LES and LDS of a register do nothing and
succeed. Memory starts with a pattern, so that a wrong cell is noticed.

### Softx87Number and Softx87

A number is a sign, an exponent and a mantissa without a hidden bit. `softx87_normalize`,
`softx87_unpack_raw_int`, `softx87_unpack_raw_fp` and `op_fadd` carry the names of the C
functions. `Softx87` has the ring: `st`, `tag`, `top` and C1, and every instruction of
`optable.c`: FLD, FADD, FADDP, FIADD, FINCSTP, FDECSTP, FFREE, FNOP and FINIT. The
history `stack` is what a stack of unlimited depth would hold, `loose` that the ring has
been used otherwise.

Translated as it is: C1 after a push is taken from the register TOP leaves, not from the
one that is overwritten (see findings); encodings of zero, denormals, infinities and NaN load as
ordinary numbers, and the least integer of a width as 0; `op_fadd` leaves its result
unnormalised and counts the carry bit of the next addition from leading bits that may
not be there, so that 1 + 2 + 7 comes out as 2. The properties say for which operands the sum
is right.

### ProcPlayCpu

`ctx` is softx86 as far as the dozen opcodes of the lines go: IP, CS with its hidden base,
AX, CX, DI, fetched and decoded from the bytes of `ram`, so that code can be overwritten,
run into and left unfinished. `run` (load at the copy of IP, one step per line),
`step`, `reset`, `update_registers`, `load_at_current_ip`, `on_read_memory`,
`on_write_memory` are the methods of that name; the assembler is external, a line is
its bytes. A behaviour ends where bytes are executed that are not in `Alphabet`.
`RunExecutesLines` is about texts in `Plain`: every line is one instruction, of those that
neither jump nor repeat, or the unknown opcode 63h. `Meaning` is what the lines do, one
after the other up to an unknown one, without fetching anything; a text that writes into
its own code, or does not fit into the RAM, has none (`spoilt`).

Three things meet here. `run` counts lines, the CPU steps through elements of a REP,
jumps and labels, so a text may be left unfinished, and the next run writes its code
over it at the same IP. A failed step (`Fails`) is 0, which is true in Ruby: nothing is
raised and IP stays (finding 2). And a far jump with too many prefixes leaves the base
of CS behind, as in finding 1; loading and fetching both use the base, so the next run's code is still found.

## 3. Runs

| run | checks | shows |
|---|---|---|
| `step_programs` | `TypeOK`, `CacheCoherent`, `PrefixOwned`, `ImplementsContract` | 292 programs: each pair of eight opcodes and nine longer bodies, with four handlers, on an 8086 whose prefix bug is switched on and off; two host calls anywhere |
| `step_service` | `StringComplete`, `NoTornInstruction`, `HandlerNesting`, `IntServiced`, `NmiServiced`, `MainAdvances` | copies of a three-element string (REP; REP inside CLI/STI; a LOOP) under up to three nested interrupts without the prefix bug |
| `stack` | `TypeOK`, `StackImage`, `CallsReturn`, `InterruptsTransparent`, `FramesUnwind`, `RegistersBack` | every balanced program of up to seven stack instructions over a 36-byte segment, from SP = 0 (as after `softx86_reset`) and an odd SP at the top (as `Cpu#reset` sets it), with the PUSH SP bug switched at any time |
| `alu` | `TypeOK`, `WideArithmetic`, `UnsignedOrder`, `SignedOrder`, `RotationsUndone`, `DivisionInverts`, `DecimalArithmetic` | 52 programs of one to seven instructions over bytes and 12-bit words: arithmetic of several limbs through CF, comparisons, rotations, division, decimal digits |
| `decode` | `TypeOK`, `ListingInStep`, `AcceptTogether`, `AsImplemented` | all 256 opcodes with every mod, reg and two rm, every run of up to four prefixes, and jumps, on three CPUs, with and without a coprocessor |
| `operands` | `TypeOK`, `StoredIsLoaded`, `RoundTrips`, `BlockMoved`, `ScanStops` | every store form followed by a load (and the reverse), exchanges done twice, every string instruction in both directions |
| `x87` | `TypeOK`, `StackHolds`, `SumRounded`, `LoadsExact` | four coprocessor instructions in any order |
| `cpu` | `TypeOK`, `MemoryFlat`, `OwnCodeFirst`, `RunExecutesLines` | two calls of `run` or `reset` with every text of up to two of fourteen lines, and some of three |
| `adc_special` | `CarryIntoOnes` violated | see findings |
| `restart_desync` | `CacheAlwaysCoherent` violated | see findings |
| `hlt_resume` | `HltProceeds` violated | see findings |
| `step_raises` | `FailureRaised` violated | see findings |

Why the bounds are enough. An iteration limit of 4 leaves room for an instruction
with no, one or two prefixes, for one that fits exactly, and for one that is
over-long; the behaviour at the limit does not depend on its value. Two host calls
put an interrupt into each place of a step with a second one pending, or a reset
after it; three let an NMI nest in a handler that was itself interrupted. The four
handlers open with each kind of instruction: one that retires, one that restarts, a
string instruction, a prefix. Three elements give a
first, a middle and a last iteration of REP. 16-unit words make the wrap of CX
reachable.

For `stack`, 36 bytes are 18 words: two PUSHA and a far call fill the segment to the
last byte, and every start wraps SP. Seven instructions nest three openings with
their closings and one instruction between them; one target close to the end of the
code segment makes IP run past it. ENTER has four bytes of locals and a nesting level of 0 or
3, so that its display reaches over the locals and below SP; other sizes and levels
are covered by the proof. Bytes of base 6 (`Byte`, 256 in C) keep a word two
bytes.

For `alu`, operands are the numbers around 0, the sign bit and the end of each width,
digits for the decimal instructions, and counts from 0 to 18 and 32, past both widths. A word has
12 bits, so that TLC's integers hold a double word; nothing in the functions
depends on the width but the masks. In `decode`, of rm only 6 is special; a limit of 4
is reached with prefixes before each kind of handler; offsets are the start and the end
of a segment, so targets wrap both ways. In `operands`, bytes of two bits make a segment
of 16 cells, two paragraphs apart: all offsets, wraps and overlaps of segments occur,
and displacements are negative or not. In `x87`, six bits of mantissa and exponents up to
seven apart let an operand be too small to matter; three registers overflow in four
steps. In `cpu`, RAM ends 32 bytes after the code begins, so code, data and STOSB cross
its end; the limit of 3 is reached by two prefixes and a far jump.

The runs `alu`, `decode`, `operands`, `x87` and `cpu` are about programs or bounded
histories that end, and do not check for deadlock.

Fairness: `WF_vars(Step)` only. The host keeps calling `softx86_step` (`Cpu#run`,
`src/cpu.rb` 38; `emustep` in the debugger's run loop), and a call in progress runs
to its end. Nothing is assumed of the host raising interrupts. `IntServiced` and
`NmiServiced` hold of these programs because they set IF again and again;
a program that keeps IF clear may leave an INT pending for ever, as it should.

`CacheCoherent` speaks of programs in `WellBehaved`: each handler's first opcode
ends its step without a restart, and no instruction has so many prefixes that the
iteration limit is used up. `restart_desync` shows that the first condition is
needed. In `step_programs`, both kinds of programs occur.

### Findings

1. `restart_desync` (`S/softx86.c` 506-509). If an interrupt was taken in the step
   that restarts, CS gets back the value of the interrupted program but keeps the
   hidden base of the handler; the next fetch is from the wrong segment, although
   the setter promises to keep both together.
2. `step_raises` (`src/cpu.rb` 66-68). `step` is written to raise an exception when
   `softx86_step` fails; the result is the integer 0, which is true in Ruby, so the run
   goes on with its next step at the instruction that failed.
3. `hlt_resume` (`S/drooling_duh.c` 37). With interrupts enabled a HLT is never
   left: the interrupt is taken before HLT is fetched and returns to HLT. The
   comment's "proceed" happens only with IF clear, or when the host signals from
   the memory callback of the very fetch.
4. `adc_special` (`S/add.c` 171-175, 475-479). The comments say of the special case that
   x + FFh + carry is x; the branch returns the operand of all ones instead: with CF
   set, ADC of 12h and FFh gives FFh. A carry into a limb of all ones thus corrupts the
   sum of longer numbers, and `WideArithmetic` excludes it.

Seen while translating, modelled as the code has it, and without a run of their own: the
API reference (`doc/softx86_source_code/doc/softx86-api-ref.txt` 69) says of a successful step that CS:IP
points to the next instruction, which after HLT or an unfinished REP it does not; and the
comments of the coprocessor's loads (`doc/softx86_source_code/softx87/optable.c` 77, 109,
423) say "set C1 if stack overflow", while the tag that is tested is that of the register
TOP leaves, so that the second load onto an empty ring sets C1. No property speaks of C1.

## 4. Proofs

Every theorem holds for all values of the constants that the named `ASSUME`s of its
module allow; TLC evaluates these assumptions in the runs. Most invariants below are not
inductive as they stand, and the strengthening is where the argument is.

### The step loop (`Softx86Step_proofs`)

For every program, vector table, register width, iteration limit (at least 2), CPU level
and number of host calls:

* `TypeCorrect`: `Spec => []TypeOK`. `TypeOK` is inductive with one strengthening,
  in it already: `count` is not negative inside the loop.
* `CacheCorrect`: `Spec => []CacheCoherent`. Coherence alone is not inductive: that a
  restart is harmless depends on what the step did before. `CoherenceInv` says so point
  by point (`StepPoint`): either the step is still reading prefixes of the
  instruction it started with and CS has not moved, or an interrupt has moved CS
  to a handler whose first opcode retires. The count of prefixes ties `reg_ip` to
  `count`, so that a program without over-long prefix runs never reaches the limit.
* `ContractCorrect`: `Spec => ImplementsContract`, the refinement. It needs `HeadInv`:
  `can_hwint` is set at the head of the first iteration and nowhere else inside
  the loop, and every iteration costs one of `count`. Each action is a step of the
  contract or leaves its state alone.
* `PrefixCorrect`: `Spec => []PrefixOwned`. `PrefixInv` is the strengthening: at each point
  of the loop the prefix state is that of the bytes read so far (`SeenBefore`); an
  interrupt is taken at a point where none has been read, so moving CS:IP to its
  handler keeps the relation (`NothingSeen`), and a prefix opcode extends it by
  one byte (`RecordedSeen`). Only the bug switch breaks it, by letting an interrupt in
  between two prefixes.
* `NestingCorrect`: `Spec => []HandlerNesting`, for the programs of `Separate`, which enter
  and leave the segments of handlers by interrupt and IRET. An interrupt or IRET keeps
  the relation of CS and frames by itself; a restart must not move CS, which is the last clause
  of `StepPoint` in `CoherenceInv`, and a far jump must be of a segment that the program has
  (`SegmentInv`).
* `WholeInstructions`: `Spec => []NoTornInstruction`, for the programs of `Unsplit`, whose
  entry, jumps, handlers and instruction ends are not just past a prefix, and a CPU
  that never has the prefix bug. `SplitInv` remembers that the saved CS:IP of a step is such
  a start, which is where a restart goes; `HeadInv` and `StillReading` put the interrupts of a
  step where CS:IP is the saved one, and `LeadsToStart`, instruction by instruction, is why the
  next step begins at a start again (`ExecLeads`, from `FetchedInv`: the executed opcode is the
  byte before CS:IP).

Assumptions: positive width and segment step, a vector for every interrupt number in use,
well-formed code. That the programs of `step_service` are in `Unsplit` and `Separate` is an
assumption of `MCStepService`, which TLC evaluates.

### The stack (`Softx86Stack_proofs`)

For every width of a byte (three values or more; words of two bytes, an even number of
them), CPU, set of operands and length of the program, from every SP: `TypeCorrect`,
`StackCorrect` (`StackImage`), `CallsCorrect` (`CallsReturn`), `InterruptsCorrect`
(`InterruptsTransparent`), `FramesCorrect` (`FramesUnwind`) and `RegistersCorrect`
(`RegistersBack`), which are all the properties of the run.

SP wraps and the model's memory is bytes, so that two words do not overlap is not a matter
of comparing addresses. The proofs speak of depths below the empty stack: `At(b, d)` is SP at
depth d when b is SP of the empty stack, and `AtApart` shows once that different even depths
up to the size of the segment are words apart, the one byte past the end included. The
inductive invariant `StackInv(b)` says of the openings, innermost first, that

* `Nested`: each lies, with all of its words, below those before it, and words that are
  pushed one after the other lie side by side, which is what lets LEAVE and RET n drop
  several at once;
* `Imaged`: the words of each are in memory, and SP was what its depth says;
* `FramesLinked`: BP is the one of the innermost frame, and each frame holds the BP of
  the next. FramesUnwind is false without it: LEAVE takes SP from BP;
* `SegmentsKept`: between a near call and the present CS is the one of the call.

`PushwStores` is what everything rests on: a push within the room of the segment stores
its word, and keeps (`Keeps`) all words above.

### Arithmetic (`Softx86Alu_proofs`)

For words of every width from 9 to 31 bits, bytes, every operand, every set of flags to
start with, and both positions of the shift count's bug switch: `Softx86AluTypeOK` (`TypeOK`),
`Softx86AluUnsignedOrder`, `Softx86AluSignedOrder`, `Softx86AluWideArithmetic`,
`Softx86AluRotationsUndone`, `Softx86AluDivisionInverts` and `Softx86AluDecimalArithmetic`, which are
all the properties of the run. The run tries the numbers at the edges of each width; the
theorems are for the numbers between them.

A program is straight code, so what makes its property inductive is what the registers and
flags hold after each of its instructions, symbolically: `AtWideAdd`, `AtRclRcr`, `AtAadDiv` and
their likes say what is left of the program and what is true by then, and `WideAddStep` and the
others that a step goes from one stage to the next. `Executes` is one step of any program: the
instruction in front, its operands and its outcome. `Typed` is below all of them: the program
has only instructions of the lists, and every operation keeps results and flags in range (one
lemma for each). What remains is arithmetic about the outcomes:

* limbs: `DivModUnique`, that a number within a bound of a multiple is a remainder, gives the
  carries of sums, differences and negations of two limbs;
* rotations: a step of `op_rol`, `op_rcl` and their opposites is multiplication and division by two with
  the bit that falls out put back, so each undoes the other; for any count, by induction
  on it (`Pow2` is a recursive function, and `Recursion_proofs` applies); shifts are products and
  quotients by `Pow2`;
* division: what `op_idiv` makes of signs and complements is the quotient rounded to zero, and out
  of range exactly where the interrupt is signalled;
* decimal digits: a packed byte is 16 p + q with two digits, and each adjustment is one of the four
  cases of carries between them. `DAA` is right but for low digits that add up to 10..15, where the
  property is silent because the code is wrong.

Assumptions: `WordBitsAssumption`, words longer than a byte and shorter than 32 bits, since
with the switch shifts take their counts modulo 32, which a shift by the width must survive;
`ProgramsAssumption`, that programs are `Listing`s with operands of their width, decimal
ones with decimal digits, as the properties presuppose.

### The decoder (`Softx86Decode_proofs`)

For every run of prefixes of any length, limit of the lookup, size of the segment, place in
it, set of instructions, and each of the three CPUs: `TypeCorrect`, `ListingCorrect`
(`ListingInStep`), `AcceptCorrect` (`AcceptTogether`) and `ImplementedCorrect`
(`AsImplemented`). The two walkers are reduced to two tables, `ExecTakes` with `ExecReads` and
`DecTakes` with `DecReads`. `ExecLooksUp` and `DecLooksUp` go through the handlers and show
that each does what its table says; `SameTaken` and `SameRead` compare the tables. The
invariant says how far into the prefixes a walker is that still decodes, and that one that
has finished has done what its table says.

### Operands and string instructions (`Softx86String_proofs`)

For every width of a byte (two values or more), distance of segments, set of initial registers
and set of programs: `TypeCorrect`, `BlockCorrect` (`BlockMoved`), `ScanCorrect`
(`ScanStops`), `RoundCorrect` (`RoundTrips`) and `StoreCorrect` (`StoredIsLoaded`). `TypeCorrect` is also the type correctness of `Softx86Operand`, whose
instructions these run beside: every operand they form is in memory (`CellOf`), the half of a
register can be replaced and the whole stays a word (`SetRegType`).

The handler does one element and asks to be run again, so a block is finished by as many steps
as it has elements and may be in between at any time. `BlockInv` says that then the state
is a function of the state at the start and of some number n of elements done: SI, DI, CX and
the accumulator are those of `RegsAt(start, S, df, n)`; nothing is in memory but what was there
and the first n elements (`Wrote`); if no element overlaps a later one (`Apart`), those are the
elements of the start (`Copied`), because no step has touched what was stored or is yet to be
read; and for a comparison none of the first n - 1 elements ended the repetition. `Goes` and
`Ends` tie n to the step: the instruction is left exactly if all are done or the last one ended
it. `IdxStep` is why an index that is wrapped at each step is the one wrapped once at
the end, and `StoreMoves` is the step of the induction for memory.

`RoundInv` says what there is after the first of two instructions: an operand that is
complemented (`Complemented`), a register and an operand that have changed places (`Traded`), a
word on the stack with SP two below (`AfterPush`). The second instruction meets the same cell,
since the first has left the registers that address it alone, and the laws of registers and
memory do the rest: what `SetReg` set `GetReg` gets, the other half of the word unchanged
(`GetSet`, `RegEqual`), and what was written is fetched byte by byte, for a word from the
cell and the one past it (`WriteCell`, `FetchByte`).

For `StoredIsLoaded` the operand an instruction uses must be the one its listing names.
`Listed` shows it, `Cell = ListedCell(I)`, form by form, as long as the registers that
address memory and the segments are those of the start (`Steady`). `PairInv` has `Steady` up to
the load, memory as it was but for what was stored in the cell of the store and, after
the load, that each byte loaded is the stored one or the one of the start (`Kept`).

Assumptions: `KindsAssumption`, which says of what instructions a program of kind `twice`,
`copy` or `pair` consists, as the properties presuppose, and nothing of their operands but
that an exchange with memory or a preparation does not change a register that addresses it;
`ProgramAssumption`, that instructions are decoded ones (a byte operand has
a byte for an immediate, a segment register is one of four), and `BlockAssumption`, that a
program of kind `block` sets DF and runs one string instruction, as the properties presuppose.

### The Ruby host (`ProcPlayCpu_proofs`)

For every size of the RAM, place of the segments, initial IP, iteration limit (at least 2), set
of texts and number of runs: `TypeCorrect`, `MemoryCorrect` (`MemoryFlat`), `LoadCorrect`
(`OwnCodeFirst`) and `RunCorrect` (`RunExecutesLines`).

The last is an argument about a whole run. The meaning of a text is a recursive
function of the state after k lines (`Means`). By induction on k, as long as no line is spoilt,
the code of the text is whole in RAM and IP is in front of line k + 1 (`Stays`,
`MeaningStays`); so the bytes that `softx86_step` fetches there are those of the line, with no
prefix before it (`FetchesLine`, `NoPrefix`), and the step does what the line means
(`LineStep`). The invariant `RunInv` is then that registers and RAM are those of the meaning
after the lines done; that the run has come to its end (`todo = 0`) gives the property.

### The coprocessor (`Softx87_proofs`)

For every number of registers and every set of operands: `StackCorrect` (`StackHolds`), for which
it does not matter what `op_fadd` and the loads compute. The invariant ties ring and history:
number i of the stack is in the register i places from TOP, tagged valid, and all other
registers are tagged empty. Pushes and pops renumber all places at once, and `Above` and `Below` say
how; no two places share a register (`Distinct`), so that FADD to one leaves the others.

For every width of the mantissa besides: `TypeCorrect`, `LoadsCorrect` (`LoadsExact`) and
`SumCorrect` (`SumRounded`).

* That a mantissa can be normalised is an induction on the shift (`ShiftExists`). An operand of f
  bits of fraction has its leading bit in front (`FloatLoaded`), so no shift is made; an integer
  of n bits is shifted by n - 2 places at most, unless it is the least one (`IntegerLoaded`).
  That bounds its exponent from below, and the zero of FINIT, whose exponent is 0, is too
  small to matter beside it (`ZeroPlus`): `op_fadd` returns the integer untouched.
* `Rounds`: `Scaled` is within half a unit of the number it shifts. `op_fadd` scales both
  mantissas to one unit, so their sum is within a unit of the exact one (`NearSum`), and equal to
  it if both are whole units (`NearWhole`).
* What is left is that the sum survives Mant bits (`Decodes`). Numbers of different signs get two
  bits more, so neither half is over a quarter of the range and the sign bit is free. Numbers of one
  sign get one, and only when both halves are rounded up to the limit is the carry lost;
  the exact sum is then within two units of it (`CarrySum`), which is the property's exception.
  A number that is too small to matter is less than four units (`LostSum`).

Assumptions: `NumberAssumption`, a mantissa of three bits or more and a bias that is no smaller
than its width (64 and 16383 in the code), without which an integer could be as small as the
zero of FINIT; `StackAssumption`, that a fraction is narrower than the mantissa, an integer has two
bits or more and no more than the mantissa, and operands are of their width.

### Recursion (`Recursion_proofs`)

The library's induction theorems take an operator as a parameter, which the provers at hand cannot
instantiate. `NatSetInduction` states induction about a set instead, from the library's
theorem that the naturals are well-founded, and `RecursiveSequence` that a first value and a
step function (a set of pairs) determine a function on the naturals. `RunCorrect` and the counting
of prefixes rest on them, and so does what the loop of ENTER pushes. The laws of `Pow2`
(`Powers`, `PowerOfSum`, `PowersGrow`) follow by induction too: of the operator `^` the
provers know nothing, which is why the models compute with `Pow2`. `DivMod` and
`DivModUnique` are for arithmetic modulo a power of two.

### Model-checked only

* `IntServiced`, `NmiServiced`, `MainAdvances`: liveness under fairness, which the prover
  does not handle.
* `StringComplete` of `step_service`: it is about the few programs of that run.

## 5. Plan

Written and checked: the step loop with its contract, the stack, arithmetic, decoding,
operands and string instructions, the coprocessor and the Ruby host. Proved: every
safety property the passing runs check, but `StringComplete`. What is left, in this order:

1. Signals raised inside `on_hw_int`.
2. `Softx86Dbg`: the loader, the command loop's stepping, the fake INT 21h.

## 6. Not modelled

The text a decompiler or the debugger prints, beyond the operands it names; what IN and
OUT transfer; the binary assembler behind `assembler.rb`; the foreign function
declarations; the web page; the debugger's command loop. The reasons stand with
each component in `PROJECT.json`.

By far the most lines of the repository are two assemblers kept for reference (nasmlib, fasm),
other simulators and sample programs. They are third-party, ProcPlay neither builds nor
changes them, and nothing in it depends on how they work. The program itself
(softx86, softx87, the debugger and the Ruby classes) is about 14,000 lines, of which the
decompiler's text and the 32-bit copies of the arithmetic functions are a large part.
