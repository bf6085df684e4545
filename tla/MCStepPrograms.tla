--------------------------- MODULE MCStepPrograms ---------------------------
(***************************************************************************)
(* Softx86Step over a family of small programs: a main loop with every pair *)
(* of opcodes from a list, and every kind of first instruction a handler    *)
(* may have.                                                               *)
(***************************************************************************)
EXTENDS MCImage

MCJunk == {[fl |-> TRUE, cs |-> MainSeg, ip |-> 0]}

PairOps == <<I("lock"), I("rep"), I("movs"), I("hlt"), I("sti"), IArg("intn", 3),
             IArg("jc", 1), I("bad")>>

Others == << I("segover") \o I("repnz") \o I("scas"),
             I("segover") \o I("lock") \o I("segover") \o I("rep") \o I("scas"),
             I("lock") \o I("lock") \o I("lock") \o I("nop"),
             I("lock") \o I("lock") \o I("lock") \o I("lock"),
             I("wait") \o I("cli") \o I("int3") \o I("into"),
             IArg("movdi", 3) \o I("iret"),
             IArg("loop", -2) \o IArg("jcxz", 1) \o I("bad"),
             IArg("loop", -2) \o IArg("jc", 2) \o IArg("loopz", -2),
             Enc("jmpf", 0, MainSeg) >>

Handlers == << I("iret"), I("hlt") \o I("iret"), I("movs") \o I("iret"),
               I("lock") \o I("iret") >>

Main(body) == IArg("movcx", 2) \o I("sti") \o body \o IArg("jmp", -(Len(body) + 6))

\* 73 main bodies (64 pairs, then Others), each with every handler.
Body(b)  == IF b < 64 THEN PairOps[(b \div 8) + 1] \o PairOps[(b % 8) + 1] ELSE Others[b - 63]
MCProgram == 1..292
MCCode == [n \in MCProgram |-> Image(<<Main(Body((n - 1) \div 4)),
                                     Handlers[(n % 4) + 1],
                                     I("nop") \o I("iret")>>)]

=============================================================================
