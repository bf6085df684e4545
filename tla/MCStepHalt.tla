----------------------------- MODULE MCStepHalt -----------------------------
(***************************************************************************)
(* Softx86Step over a main program that waits for an interrupt in a HLT.    *)
(***************************************************************************)
EXTENDS MCImage

MCProgram == {1}
MCCode == [p \in MCProgram |->
    Image(<<I("sti") \o I("hlt") \o I("wait") \o IArg("jmp", -5), I("iret"), I("iret")>>)]

Halted == pc = "host" /\ MemAt(program, cs.cached_linear + reg_ip).op = "hlt"

\* "if an external interrupt pending, proceed" (the comment in the HLT handler):
\* a halted CPU with an interrupt pending gets to the instruction after HLT.
HltProceeds == (Halted /\ int_hw_flag) ~> (pc = "exec" /\ opcode.op = "wait")

=============================================================================
