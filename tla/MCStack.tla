------------------------------ MODULE MCStack ------------------------------
(***************************************************************************)
(* Softx86Stack on a segment of 36 bytes.                                   *)
(***************************************************************************)
EXTENDS Softx86Stack

\* Calls land close to the end of the segment, so that IP runs past it.
MCTargets == {[seg |-> 1, ofs |-> 34]}

=============================================================================
