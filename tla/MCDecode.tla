------------------------------ MODULE MCDecode ------------------------------
(***************************************************************************)
(* Softx86Decode on every opcode and ModR/M byte (of rm, 6 and one other);   *)
(* with every run of prefixes up to the limit before one opcode of each     *)
(* kind of handler; and, for the jumps, every displacement about the edges. *)
(***************************************************************************)
EXTENDS Softx86Decode

Bare == { [prefixes |-> << >>, op |-> o, mod |-> m, reg |-> r, rm |-> n, rel |-> 0] :
            o \in 0..255, m \in 0..3, r \in 0..7, n \in {0, 6} }

\* NOP, ADD, REP's MOVSB, JMP short, HLT, an unknown opcode.
Prefixed == { [prefixes |-> p, op |-> o, mod |-> 1, reg |-> 0, rm |-> 6, rel |-> 5] :
                p \in UNION { [1..n -> Prefixes] : n \in 1..4 },
                o \in {\h90, \h01, \hA4, \hEB, \hF4, \h63} }

\* Displacements of a byte, and of a word.
Jumping == { [prefixes |-> << >>, op |-> o, mod |-> 0, reg |-> 0, rm |-> 0, rel |-> d] :
               o \in \h70..\h7F \cup \hE0..\hE3 \cup {\hE8, \hE9, \hEB},
               d \in {-128, -4, -1, 1, 127} }
           \cup
           { [prefixes |-> << >>, op |-> o, mod |-> 0, reg |-> 0, rm |-> 0, rel |-> d] :
               o \in {\hE8, \hE9}, d \in {-32768, 32767} }

\* The registers of the coprocessor.
Escapes == { [prefixes |-> << >>, op |-> o, mod |-> 3, reg |-> r, rm |-> n, rel |-> 0] :
               o \in \hD8..\hDF, r \in 0..7, n \in 0..7 }

MCInstructions == Bare \cup Prefixed \cup Jumping \cup Escapes

=============================================================================
