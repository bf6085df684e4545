-------------------------- MODULE InterruptContract --------------------------
(***************************************************************************)
(* What softx86 promises a host about interrupts, without instructions,     *)
(* stack or code: a request is latched until the CPU takes it, the NMI goes  *)
(* first, an interrupt is taken only at the boundary of two instructions and *)
(* only when IF allows it, and none that may be taken is passed over.       *)
(***************************************************************************)
EXTENDS Integers

CONSTANT IntNo          \* interrupt numbers, none of them negative

NoInt == -1

VARIABLES
    int,        \* the number requested, or NoInt
    nmi,        \* an NMI is requested
    ie,         \* IF
    torn,       \* interrupts may also split an instruction (the 8086 bug)
    phase       \* "boundary", or "running" inside an instruction

vars == <<int, nmi, ie, torn, phase>>

Init == int = NoInt /\ nmi = FALSE /\ ie = FALSE /\ torn \in BOOLEAN /\ phase = "boundary"

Raise == /\ int = NoInt /\ int' \in IntNo
         /\ UNCHANGED <<nmi, ie, torn, phase>>

RaiseNmi == /\ ~nmi /\ nmi' = TRUE
            /\ UNCHANGED <<int, ie, torn, phase>>

\* Handlers start with IF clear.
DeliverNmi == /\ phase = "boundary" \/ torn
              /\ nmi /\ nmi' = FALSE
              /\ ie' = FALSE /\ phase' = "running"
              /\ UNCHANGED <<int, torn>>

DeliverInt == /\ phase = "boundary" \/ torn
              /\ int # NoInt /\ ie /\ ~nmi /\ int' = NoInt
              /\ ie' = FALSE /\ phase' = "running"
              /\ UNCHANGED <<nmi, torn>>

\* An instruction starts only when there is nothing to take first.
Begin == /\ phase = "boundary" /\ phase' = "running"
         /\ ~nmi /\ ~(ie /\ int # NoInt)
         /\ UNCHANGED <<int, nmi, ie, torn>>

\* An instruction may change IF.
Run == /\ phase = "running" /\ phase' = "running"
       /\ ie' \in BOOLEAN
       /\ UNCHANGED <<int, nmi, torn>>

Finish == /\ phase = "running" /\ phase' = "boundary"
          /\ UNCHANGED <<int, nmi, ie, torn>>

Switch == /\ phase = "boundary" /\ torn' \in BOOLEAN
          /\ UNCHANGED <<int, nmi, ie, phase>>

\* A reset drops what was requested and disables interrupts.
Reset == /\ phase = "boundary"
         /\ int' = NoInt /\ nmi' = FALSE /\ ie' = FALSE /\ torn' \in BOOLEAN
         /\ UNCHANGED phase

Next == \/ Raise \/ RaiseNmi \/ DeliverNmi \/ DeliverInt
        \/ Begin \/ Run \/ Finish \/ Switch \/ Reset

Spec == Init /\ [][Next]_vars

=============================================================================
