---------------------------- MODULE MCStepService ----------------------------
(***************************************************************************)
(* Softx86Step without the 8086 prefix bug, over main loops that copy a     *)
(* string while the host interrupts them, with handlers that may themselves *)
(* be interrupted.  WAIT marks the point where the copy must be complete.   *)
(***************************************************************************)
EXTENDS MCImage

Elements == 3       \* length of the string

Loop(body) == body \o IArg("jmp", -(Len(body) + 2))
Setup      == IArg("movcx", Elements) \o IArg("movdi", 0)

Mains == <<
    \* interruptible throughout
    Loop(I("sti") \o Setup \o I("rep") \o I("movs") \o I("wait")),
    \* a critical section around the copy, then a software interrupt
    Loop(Setup \o I("cli") \o I("segover") \o I("rep") \o I("movs") \o I("wait")
           \o I("sti") \o IArg("intn", 3)),
    \* element by element
    Loop(I("sti") \o Setup \o I("movs") \o IArg("loop", -3) \o I("wait") \o I("into")) >>

Handler == I("sti") \o I("nop") \o I("iret")
Nmi     == I("nop") \o I("iret")

MCProgram == 1..3
MCCode == [p \in MCProgram |-> Image(<<Mains[p], Handler, Nmi>>)]

\* These programs are of the kinds the invariants about handlers are for.
ASSUME ProgramsKept == MCProgram \subseteq Unsplit \cap Separate

Marker == pc = "exec" /\ opcode.op = "wait"

\* When the main program gets past a repeated string instruction, or a loop
\* over single ones, every element has been moved once: interrupts taken
\* between two iterations neither lose nor repeat one (the prefix is run again).
StringComplete == Marker => reg_cx = 0 /\ reg_di = Elements

\* The main program always gets to the marker again: no interrupt, repeat or
\* restart wedges it while the host keeps stepping.
MainAdvances == []<>Marker

=============================================================================
