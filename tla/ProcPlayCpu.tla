---------------------------- MODULE ProcPlayCpu ----------------------------
(***************************************************************************)
(* The Cpu class of ProcPlay (src/cpu.rb): a RAM behind the memory callbacks  *)
(* of softx86, a copy of the registers, and run, which assembles a source     *)
(* text line by line, writes the bytes where the next instruction will be    *)
(* fetched, and then steps once for each line.                             *)
(*                                                                         *)
(* softx86 is here the part of it that the lines use: bytes are fetched and    *)
(* decoded out of RAM, so that code can be overwritten, run into and left      *)
(* unfinished.  A behaviour ends where bytes come to be executed that are no   *)
(* instruction of Alphabet.  The assembler is external: a line is its bytes.  *)
(***************************************************************************)
EXTENDS Integers, Sequences, SequencesExt

CONSTANTS
    RAM_SIZE, SEGMENTS_BASE, INITIAL_IP,
    StepLimit,      \* bytes softx86_step looks up in its table: 16
    Sources,        \* texts: sequences of lines, each the bytes it assembles to
    MaxRuns         \* bound on the calls of run and reset

ASSUME CpuAssumption ==
    /\ RAM_SIZE \in Nat \ {0} /\ INITIAL_IP \in Nat
    /\ SEGMENTS_BASE \in Nat /\ SEGMENTS_BASE < 65536
    /\ StepLimit \in Nat \ {0, 1} /\ MaxRuns \in Nat
    /\ Sources \subseteq Seq(Seq(0..255))

Word == 65536
SEGMENT_TO_LINEAR(x) == 16 * x

VARIABLES
    ctx,        \* softx86: IP, CS, the hidden base of CS, AX, CX, DI
    ram,
    registers,  \* the copy run and its caller see
    todo,       \* steps run has left to take
    fresh,      \* history: code is loaded, no step has been taken
    begin,      \* history: lines, registers and RAM when run was called
    flat,       \* history: the byte written last to each address of RAM
    runs        \* history: calls of run and reset

vars == <<ctx, ram, registers, todo, fresh, begin, flat, runs>>

TypeOK ==
    /\ ctx \in [ip : Nat, cs : 0..(Word - 1), base : Nat,
                ax : 0..(Word - 1), cx : 0..(Word - 1), di : 0..(Word - 1)]
    /\ DOMAIN ram = 0..(RAM_SIZE - 1) /\ \A a \in DOMAIN ram : ram[a] \in 0..255
    /\ todo \in Nat /\ fresh \in BOOLEAN /\ runs \in 0..MaxRuns

-----------------------------------------------------------------------------
(***************************************************************************)
(* The memory callbacks.                                                   *)
(***************************************************************************)
\* How many of n bytes at address are in RAM.
Cpsize(address, n) ==
    IF address >= RAM_SIZE THEN 0
    ELSE IF address + n > RAM_SIZE THEN RAM_SIZE - address ELSE n

\* Mutant: the bytes beyond the end are filled in at the start of the buffer.
on_read_memory_start(m, address, n) ==
    LET cp == Cpsize(address, n)
    IN  [k \in 1..n |-> IF k <= n - cp THEN 255 ELSE IF k <= cp THEN m[address + k - 1] ELSE 0]

\* n bytes from address on, as dump_ram returns them.
on_read_memory(m, address, n) ==
    LET cp == Cpsize(address, n)
    IN  [k \in 1..cp |-> m[address + k - 1]] \o [k \in 1..(n - cp) |-> 255]

on_write_memory(m, address, bytes) ==
    [a \in DOMAIN m |-> IF a \in address..(address + Cpsize(address, Len(bytes)) - 1)
                        THEN bytes[a - address + 1] ELSE m[a]]

-----------------------------------------------------------------------------
(***************************************************************************)
(* softx86_step, for: NOP, INC AX, MOV AX/CX/DI,imm, MOV AX,[ ] and [ ],AX,    *)
(* ADD [BX+SI],AL (two bytes 0, where nothing has been loaded), STOSB with     *)
(* and without REP, JMP short and far, HLT, and two that are not recognised,   *)
(* one of them what is read beyond RAM.  BX and SI are 0, DS and ES never       *)
(* change, and no interrupt is raised.                                       *)
(***************************************************************************)
Prefix   == {\h26, \hF3}            \* ES, REP
Unknown  == {\h63, \hFF}

\* With its opcode.
Length(b) ==
    CASE b[1] \in {\h90, \h40, \hAA, \hF4, \h63} -> 1
      [] b[1] \in {\h00, \hEB, \hFF} -> 2
      [] b[1] \in {\hB8, \hB9, \hBF, \hA1, \hA3} -> 3
      [] b[1] = \hEA -> 5
Alphabet(b) ==
    \/ b[1] \in {\h90, \h40, \hAA, \hF4, \h63, \hEB, \hB8, \hB9, \hBF, \hA1, \hA3, \hEA}
    \/ b[1] \in {\h00, \hFF} /\ b[2] = b[1]

Data     == SEGMENT_TO_LINEAR(SEGMENTS_BASE)    \* of DS and ES
Operand(b, k) == b[k] + (256 * b[k + 1])
AL(c)    == c.ax % 256
Wide(x)  == <<x % 256, x \div 256>>
Rel(d)   == IF d > 127 THEN d - 256 ELSE d

\* REP with CX = 0 does nothing.
Idle(b, rep, c) == b[1] = \hAA /\ rep /\ c.cx = 0

\* Mutant: INC is not cut to a word.
EffectRegs_wide(b, rep, c, m) ==
    IF b[1] = \h40 THEN [c EXCEPT !.ax = @ + 1]
    ELSE IF b[1] = \hB8 THEN [c EXCEPT !.ax = Operand(b, 2)] ELSE c

\* What instruction b, fetched, makes of the registers c and the RAM m.
EffectRegs(b, rep, c, m) ==
    CASE b[1] = \h40 -> [c EXCEPT !.ax = (@ + 1) % Word]
      [] b[1] = \hB8 -> [c EXCEPT !.ax = Operand(b, 2)]
      [] b[1] = \hB9 -> [c EXCEPT !.cx = Operand(b, 2)]
      [] b[1] = \hBF -> [c EXCEPT !.di = Operand(b, 2)]
      [] b[1] = \hA1 -> [c EXCEPT !.ax = Operand(on_read_memory(m, Data + Operand(b, 2), 2), 1)]
      [] b[1] = \hAA /\ ~Idle(b, rep, c) ->
             [c EXCEPT !.di = (@ + 1) % Word, !.cx = IF rep THEN @ - 1 ELSE @]
      [] b[1] = \hEB -> [c EXCEPT !.ip = (@ + Rel(b[2])) % Word]
      [] b[1] = \hEA -> [c EXCEPT !.ip = Operand(b, 2), !.cs = Operand(b, 4),
                                  !.base = SEGMENT_TO_LINEAR(Operand(b, 4))]
      [] OTHER -> c

\* What it writes, and where.
Address(b, c) ==
    CASE b[1] = \hA3 -> Data + Operand(b, 2) [] b[1] = \hAA -> Data + c.di [] OTHER -> Data
Written(b, rep, c, m) ==
    CASE b[1] = \hA3 -> Wide(c.ax)
      [] b[1] = \hAA /\ ~Idle(b, rep, c) -> <<AL(c)>>
      [] b[1] = \h00 -> <<(on_read_memory(m, Data, 1)[1] + AL(c)) % 256>>
      [] OTHER -> << >>

\* The bytes at CS:IP, as the hidden base has it.
Fetched(k) == on_read_memory(ram, ctx.base + ctx.ip + k, 5)
PrefixCount ==
    CHOOSE p \in 0..StepLimit :
        /\ \A k \in 0..(p - 1) : Fetched(k)[1] \in Prefix
        /\ p = StepLimit \/ Fetched(p)[1] \notin Prefix
Reps == Cardinality({k \in 0..(PrefixCount - 1) : Fetched(k)[1] = \hF3})

\* The call returns 0: an instruction that is not recognised, a second REP, or the limit.
Fails == PrefixCount + 1 >= StepLimit \/ Reps > 1 \/ Fetched(PrefixCount)[1] \in Unknown

\* A failure, HLT and a REP not done put IP and the visible CS back; at the limit the
\* last instruction looked up has had its effect.
softx86_step ==
    LET p == PrefixCount
        b == Fetched(p)
        c == [ctx EXCEPT !.ip = @ + p + Length(b)]
        rep == Reps = 1
        r == EffectRegs(b, rep, c, ram)
        again == Fails \/ b[1] = \hF4 \/ (b[1] = \hAA /\ rep /\ r.cx # 0)
    IN  IF p = StepLimit \/ Reps > 1 THEN UNCHANGED <<ctx, ram, flat>>
        ELSE /\ Alphabet(b)
             /\ ctx' = IF again THEN [r EXCEPT !.ip = ctx.ip, !.cs = ctx.cs] ELSE r
             /\ LET a == Address(b, c)
                    w == Written(b, rep, c, ram)
                IN  /\ ram' = on_write_memory(ram, a, w)
                    /\ flat' = [x \in DOMAIN flat |->
                                   IF x \in a..(a + Len(w) - 1) THEN w[x - a + 1] ELSE flat[x]]

-----------------------------------------------------------------------------
(***************************************************************************)
(* The class.                                                              *)
(***************************************************************************)
update_registers(c) == [ip |-> c.ip, cs |-> c.cs, ax |-> c.ax, cx |-> c.cx, di |-> c.di]

Fresh == [ip |-> INITIAL_IP, cs |-> SEGMENTS_BASE, base |-> SEGMENT_TO_LINEAR(SEGMENTS_BASE),
          ax |-> 0, cx |-> 0, di |-> 0]
Cleared == [a \in 0..(RAM_SIZE - 1) |-> 0]
Idling(c, m) == [lines |-> << >>, ctx |-> c, ram |-> m]

reset ==
    /\ todo = 0 /\ runs < MaxRuns /\ runs' = runs + 1
    /\ ctx' = Fresh /\ ram' = Cleared /\ registers' = update_registers(Fresh)
    /\ flat' = [a \in DOMAIN flat |-> 0]
    /\ begin' = Idling(Fresh, Cleared) /\ fresh' = FALSE /\ UNCHANGED todo

\* Mutant: the visible CS is used.
load_at_visible(code) ==
    LET a == registers.ip + SEGMENT_TO_LINEAR(ctx.cs)
    IN  /\ ram' = on_write_memory(ram, a, code)
        /\ flat' = [x \in DOMAIN flat |->
                       IF x \in a..(a + Len(code) - 1) THEN code[x - a + 1] ELSE flat[x]]

load_at_current_ip(code) ==
    LET a == registers.ip + ctx.base
    IN  /\ ram' = on_write_memory(ram, a, code)
        /\ flat' = [x \in DOMAIN flat |->
                       IF x \in a..(a + Len(code) - 1) THEN code[x - a + 1] ELSE flat[x]]

\* Mutant: the bytes are counted, not the lines.
run_bytes(lines) ==
    /\ todo = 0 /\ runs < MaxRuns /\ runs' = runs + 1
    /\ load_at_current_ip(FlattenSeq(lines))
    /\ todo' = Len(FlattenSeq(lines)) /\ fresh' = TRUE
    /\ begin' = [lines |-> lines, ctx |-> ctx, ram |-> ram]
    /\ UNCHANGED <<ctx, registers>>

\* run up to its first step: lines are counted before they are assembled.
run(lines) ==
    /\ todo = 0 /\ runs < MaxRuns /\ runs' = runs + 1
    /\ load_at_current_ip(FlattenSeq(lines))
    /\ todo' = Len(lines) /\ fresh' = TRUE
    /\ begin' = [lines |-> lines, ctx |-> ctx, ram |-> ram]
    /\ UNCHANGED <<ctx, registers>>

\* The result of softx86_step is never 0 to Ruby: a failure is not noticed.
step ==
    /\ todo > 0 /\ todo' = todo - 1 /\ fresh' = FALSE
    /\ softx86_step
    /\ registers' = update_registers(ctx')
    /\ UNCHANGED <<begin, runs>>

Init ==
    /\ ctx = Fresh /\ ram = Cleared /\ registers = update_registers(Fresh)
    /\ todo = 0 /\ fresh = FALSE /\ runs = 0
    /\ begin = Idling(Fresh, Cleared)
    /\ flat = [a \in 0..(RAM_SIZE - 1) |-> 0]

Next == reset \/ step \/ \E lines \in Sources : run(lines)

Spec == Init /\ [][Next]_vars

-----------------------------------------------------------------------------
(***************************************************************************)
(* Properties.                                                             *)
(***************************************************************************)
(***************************************************************************)
(* What is read, by an instruction or by dump_ram, is what was last written   *)
(* to each address, and FF beyond the end of RAM, where the read may begin or  *)
(* end (on_read_memory, on_write_memory).                                   *)
(***************************************************************************)
MemoryFlat ==
    \A a \in 0..(RAM_SIZE + 1) :
        on_read_memory(ram, a, 3) =
            [k \in 1..3 |-> IF a + k - 1 < RAM_SIZE THEN flat[a + k - 1] ELSE 255]

(***************************************************************************)
(* When run takes its first step, the bytes the CPU fetches are those of its   *)
(* first line, whatever the runs before have left: a HLT, a loop not done, an  *)
(* instruction that failed, even one that left the base of CS behind         *)
(* (load_at_current_ip adds the copy of IP to the live base).                *)
(***************************************************************************)
OwnCodeFirst ==
    fresh =>
        LET code == FlattenSeq(begin.lines)
            a == ctx.base + ctx.ip
        IN  \A k \in 1..Len(code) : a + k - 1 < RAM_SIZE => ram[a + k - 1] = code[k]

\* Lines that are one instruction each, going on to the next, and known or not.
Plain(lines) ==
    \A k \in 1..Len(lines) :
        /\ Len(lines[k]) > 0
        /\ lines[k][1] \in {\h90, \h40, \hB8, \hB9, \hBF, \hA1, \hA3, \hAA, \h63}
        /\ Len(lines[k]) = Length(lines[k])

\* Registers and RAM after the first k lines, up to one that is not known.
Meaning ==
    LET code == FlattenSeq(begin.lines)
        a    == begin.ctx.base + begin.ctx.ip
        f[k \in 0..Len(begin.lines)] ==
            IF k = 0
            THEN [ctx |-> begin.ctx, ram |-> on_write_memory(begin.ram, a, code),
                  stop |-> FALSE, spoilt |-> a + Len(code) > RAM_SIZE]
            ELSE LET p == f[k - 1]
                     b == begin.lines[k]
                     c == [p.ctx EXCEPT !.ip = @ + Len(b)]
                     to == Address(b, c)
                     w  == Written(b, FALSE, c, p.ram)
                 IN  IF p.stop \/ b[1] = \h63 THEN [p EXCEPT !.stop = TRUE]
                     ELSE [ctx |-> EffectRegs(b, FALSE, c, p.ram),
                           ram |-> on_write_memory(p.ram, to, w), stop |-> FALSE,
                           spoilt |-> p.spoilt \/ \E x \in 0..(Len(w) - 1) :
                                                     to + x \in a..(a + Len(code) - 1)]
    IN  f[Len(begin.lines)]

(***************************************************************************)
(* A text of lines that are one instruction each, and do not write into their  *)
(* own code, leaves registers and RAM as its lines say, each executed once     *)
(* and in order, IP behind the last; of lines after one that is not known to  *)
(* the CPU none is executed, IP stays there, and the copy of the registers is  *)
(* the CPU's (run, step; the comment there: "Runs the given sequence of       *)
(* instructions").  Empty lines, jumps, HLT and REP are left out: then there   *)
(* are not as many steps as instructions.                                   *)
(***************************************************************************)
RunExecutesLines ==
    todo = 0 /\ Plain(begin.lines) =>
        LET m == Meaning
        IN  m.spoilt \/ (/\ ctx = m.ctx /\ ram = m.ram
                         /\ registers = update_registers(ctx))

(***************************************************************************)
(* What step says, "raise "Error while executing instruction"" if softx86_step *)
(* fails: the exception leaves run, and no further step of it is taken.       *)
(***************************************************************************)
FailureRaised == [][step /\ Fails => todo' = 0]_vars

=============================================================================
