--------------------------- MODULE Softx86Decode ---------------------------
(***************************************************************************)
(* How many bytes an instruction has, and whether it is one: the executor   *)
(* (softx86_step and the Exec functions) and the decompiler                 *)
(* (softx86_decompile and the Dec functions) work it out separately, from    *)
(* the same bytes.  A listing is of use only while both agree.              *)
(*                                                                         *)
(* The bytes are those of one instruction: its prefixes, its opcode, the    *)
(* fields of a ModR/M byte should it have one, and a displacement should it  *)
(* jump.  The executor goes first, then the decompiler, both from `origin`; *)
(* they share nothing else.  `next` is where a walker has read to, `target`  *)
(* where it makes a relative jump go.                                      *)
(***************************************************************************)
EXTENDS Integers, Sequences

CONSTANTS
    Instructions,   \* [prefixes, op, mod, reg, rm, rel]
    Origins,        \* offsets at which they start
    Levels,         \* the CPUs: 86, 186, 286
    Word,           \* the number of values of a word: 65536
    StepLimit       \* bytes looked up in the opcode table in one call: 16

Prefixes == {"seg", "rep", "lock"}

ASSUME DecodeAssumption ==
    /\ Word \in Nat /\ Origins \subseteq 0..(Word - 1) /\ StepLimit \in Nat \ {0}
    /\ Levels \subseteq {86, 186, 286}
    /\ \A c \in Instructions :
          /\ c.prefixes \in Seq(Prefixes)
          /\ c.op \in 0..255 /\ c.mod \in 0..3 /\ c.reg \in 0..7 /\ c.rm \in 0..7
          /\ c.rel \in Int

NoTarget == -1

VARIABLES
    code,       \* the instruction
    origin,     \* where it starts
    level,      \* the CPU
    copro,      \* softx87 is connected to it
    exec,       \* the executor: [res, next, target, turn, rep]
    dec         \* the decompiler: [res, next, target, turn]

vars == <<code, origin, level, copro, exec, dec>>

Results == {"decoding", "ok", "again", "unknown"}

TypeOK ==
    /\ origin \in Origins /\ level \in Levels /\ copro \in BOOLEAN
    /\ exec.res \in Results /\ dec.res \in Results \ {"again"}
    /\ exec.turn \in 0..StepLimit /\ dec.turn \in 0..StepLimit
    /\ exec.rep \in BOOLEAN
    /\ exec.next \in Nat /\ dec.next \in Nat
    /\ exec.target \in NoTarget..(Word - 1)
    /\ dec.target \in NoTarget..(Word - 1)

-----------------------------------------------------------------------------
(***************************************************************************)
(* The executor.                                                           *)
(***************************************************************************)
PrefixCount == Len(code.prefixes)

\* w has read the prefixes, and the byte it looks up next is the opcode.
AtOpcode(w) == w.res = "decoding" /\ w.turn = PrefixCount /\ w.turn < StepLimit

\* The executor is there, and the opcode is one of ops.
E(ops) == AtOpcode(exec) /\ code.op \in ops /\ UNCHANGED <<code, origin, level, copro, dec>>

\* The call has looked up one byte more.  When the limit is reached it fails,
\* whatever the byte was, and anything but success goes back to the start.
ExecTurn(res, n, to) ==
    LET r == IF exec.turn + 1 = StepLimit THEN "unknown" ELSE res
    IN  exec' = [exec EXCEPT !.turn = @ + 1, !.res = r,
                    !.next = IF r \in {"unknown", "again"} THEN origin ELSE @ + 1 + n,
                    !.target = IF r = "ok" THEN to ELSE NoTarget]

Retires(n)      == ExecTurn("ok", n, NoTarget)      \* n bytes after the opcode
Jumps(n)        == ExecTurn("ok", n, (exec.next + 1 + n + code.rel) % Word)
Again           == ExecTurn("again", 0, NoTarget)
Rejects         == ExecTurn("unknown", 0, NoTarget)
RetiresIf(c, n) == IF c THEN Retires(n) ELSE Rejects

\* A prefix: only one REP is taken.
Exec_prefix ==
    /\ exec.res = "decoding" /\ exec.turn < PrefixCount
    /\ LET p == code.prefixes[exec.turn + 1]
       IN  IF (p = "rep" /\ exec.rep) \/ exec.turn + 1 = StepLimit THEN Rejects
           ELSE exec' = [exec EXCEPT !.turn = @ + 1, !.next = @ + 1, !.rep = @ \/ p = "rep"]
    /\ UNCHANGED <<code, origin, level, copro, dec>>

\* Bytes of displacement after a ModR/M byte, as the operand engines fetch them.
ExecDisp ==
    CASE code.mod = 0 -> IF code.rm = 6 THEN 2 ELSE 0
      [] code.mod = 1 -> 1
      [] code.mod = 2 -> 2
      [] code.mod = 3 -> 0

ExecRM == 1 + ExecDisp
Imm    == 1 + (code.op % 2)       \* an immediate of the operand's width

\* Six opcodes from b: with a ModR/M byte, with an immediate of a byte or a word.
ExecBinary(b) ==
    \/ E(b..(b + 3)) /\ Retires(ExecRM)
    \/ E({b + 4, b + 5}) /\ Retires(Imm)

Exec_add    == ExecBinary(\h00)
Exec_or     == ExecBinary(\h08)
Exec_adc    == ExecBinary(\h10)
Exec_sbb    == ExecBinary(\h18)
Exec_and    == ExecBinary(\h20)
Exec_sub    == ExecBinary(\h28)
Exec_xor    == ExecBinary(\h30)
Exec_cmp    == ExecBinary(\h38)
Exec_push   == E({\h06, \h0E, \h16, \h1E, \h9C} \cup \h50..\h57) /\ Retires(0)
Exec_pop    == \/ E({\h07, \h17, \h1F, \h9D} \cup \h58..\h5F) /\ Retires(0)
               \/ E({\h0F}) /\ RetiresIf(level <= 86, 0)
Exec_inc    == E(\h40..\h4F) /\ Retires(0)

\* Mutant: the 8086 has PUSHA.
Exec_pusha_all == E({\h60}) /\ RetiresIf(level >= 86, 0)

Exec_pusha  == E({\h60}) /\ RetiresIf(level >= 186, 0)
Exec_popa   == E({\h61}) /\ RetiresIf(level >= 186, 0)
Exec_bound  == E({\h62}) /\ RetiresIf(level >= 86, ExecRM)
Exec_jc     == E(\h70..\h7F \cup {\hE3}) /\ Jumps(1)
Exec_group80 == E(\h80..\h83) /\ Retires(ExecRM + Imm)
Exec_test   == \/ E({\h84, \h85}) /\ Retires(ExecRM)
               \/ E({\hA8, \hA9}) /\ Retires(Imm)
Exec_xchg   == \/ E({\h86, \h87}) /\ Retires(ExecRM)
               \/ E(\h91..\h97) /\ Retires(0)
\* For a segment register there is not, the displacement is left unread.
Exec_mov    == \/ E(\h88..\h8B) /\ Retires(ExecRM)
               \/ E({\h8C, \h8E}) /\ Retires(IF code.reg < 4 THEN ExecRM ELSE 1)
               \/ E(\hA0..\hA3 \cup \hB8..\hBF) /\ Retires(2)
               \/ E(\hB0..\hB7) /\ Retires(1)
Exec_lea    == E({\h8D}) /\ Retires(ExecRM)
Exec_les    == E({\hC4, \hC5}) /\ Retires(ExecRM)
Exec_group8F == E({\h8F}) /\ RetiresIf(code.reg = 0, ExecRM)
Exec_nop    == E({\h90}) /\ Retires(0)
Exec_cxex   == E({\h98, \h99}) /\ Retires(0)
Exec_ahf    == E({\h9E, \h9F}) /\ Retires(0)
Exec_call   == \/ E({\h9A}) /\ Retires(4)
               \/ E({\hE8}) /\ Jumps(2)
\* HLT is run again unless an interrupt waits.
Exec_duhhh  == \/ E({\h9B}) /\ Retires(0)
               \/ E({\hF4}) /\ (Retires(0) \/ Again)
\* A repeated string instruction is run again until it has finished.
Exec_shovel == E(\hA4..\hA7 \cup \hAA..\hAF) /\ (Retires(0) \/ (exec.rep /\ Again))
Exec_groupC0 == E({\hC0, \hC1}) /\ RetiresIf(code.reg # 6, ExecRM + 1)
Exec_returns == \/ E({\hC2, \hCA}) /\ Retires(2)
                \/ E({\hC3, \hCB, \hCF}) /\ Retires(0)
Exec_groupC6 == E({\hC6, \hC7}) /\ RetiresIf(code.reg = 0, ExecRM + Imm)
Exec_enterleave == \/ E({\hC8}) /\ RetiresIf(level >= 86, 3)
                   \/ E({\hC9}) /\ RetiresIf(level >= 86, 0)
Exec_int    == \/ E({\hCC, \hCE}) /\ Retires(0)
               \/ E({\hCD}) /\ Retires(1)
Exec_groupD0 == E(\hD0..\hD3) /\ RetiresIf(code.reg # 6, ExecRM)
Exec_aaaseries == \/ E({\h27, \h2F, \h37, \h3F}) /\ Retires(0)
                  \/ E({\hD4, \hD5}) /\ Retires(1)
\* (opcode & FCh) is never D7h.
Exec_xlat   == E({\hD7}) /\ Rejects

\* Does softx87 know an ESC opcode and its second byte?
softx87_exec ==
    \/ code.op \in {\hD8, \hD9, \hDA, \hDC, \hDD, \hDE} /\ code.mod # 3 /\ code.reg = 0
    \/ code.op \in {\hD8, \hD9, \hDC, \hDD, \hDE} /\ code.mod = 3 /\ code.reg = 0
    \/ code.op = \hD9 /\ code.mod = 3 /\ <<code.reg, code.rm>> \in {<<2, 0>>, <<6, 6>>, <<6, 7>>}
    \/ code.op = \hDB /\ code.mod = 3 /\ <<code.reg, code.rm>> = <<4, 3>>
Exec_fpuhandoff == E(\hD8..\hDF) /\ RetiresIf(copro /\ softx87_exec, ExecRM)
Exec_loop   == E(\hE0..\hE2) /\ Jumps(1)
Exec_io     == \/ E(\hE4..\hE7) /\ Retires(1)
               \/ E(\hEC..\hEF) /\ Retires(0)

\* Mutant: the target is worked out from the opcode's address.
Exec_jmp_early ==
    \/ E({\hE9}) /\ ExecTurn("ok", 2, (exec.next + 1 + code.rel) % Word)
    \/ E({\hEA}) /\ Retires(4)
    \/ E({\hEB}) /\ Jumps(1)

Exec_jmp    == \/ E({\hE9}) /\ Jumps(2)
               \/ E({\hEA}) /\ Retires(4)
               \/ E({\hEB}) /\ Jumps(1)
Exec_clx    == E({\hF5} \cup \hF8..\hFD) /\ Retires(0)
Exec_groupF6 ==
    /\ E({\hF6, \hF7})
    /\ RetiresIf(code.reg # 1, ExecRM + (IF code.reg = 0 THEN Imm ELSE 0))
\* A far pointer is in memory.
Exec_groupFE ==
    /\ E({\hFE, \hFF})
    /\ RetiresIf(\/ code.reg \in {0, 1}
                 \/ /\ code.op = \hFF
                    /\ code.reg # 7
                    /\ ~(code.reg \in {3, 5} /\ code.mod = 3),
                 ExecRM)
Exec_default == E(\h63..\h6F \cup {\hD6, \hF1}) /\ Rejects

softx86_step ==
    \/ Exec_prefix
    \/ Exec_add \/ Exec_or \/ Exec_adc \/ Exec_sbb
    \/ Exec_and \/ Exec_sub \/ Exec_xor \/ Exec_cmp
    \/ Exec_push \/ Exec_pop \/ Exec_inc \/ Exec_pusha \/ Exec_popa
    \/ Exec_bound \/ Exec_jc \/ Exec_group80 \/ Exec_test \/ Exec_xchg \/ Exec_mov
    \/ Exec_lea \/ Exec_les \/ Exec_group8F \/ Exec_nop \/ Exec_cxex \/ Exec_ahf
    \/ Exec_call \/ Exec_duhhh \/ Exec_shovel \/ Exec_groupC0 \/ Exec_returns
    \/ Exec_groupC6 \/ Exec_enterleave \/ Exec_int \/ Exec_groupD0 \/ Exec_aaaseries
    \/ Exec_xlat \/ Exec_fpuhandoff \/ Exec_loop \/ Exec_io \/ Exec_jmp \/ Exec_clx
    \/ Exec_groupF6 \/ Exec_groupFE \/ Exec_default

-----------------------------------------------------------------------------
(***************************************************************************)
(* The decompiler.                                                         *)
(***************************************************************************)
D(ops) ==
    /\ exec.res # "decoding" /\ AtOpcode(dec)
    /\ code.op \in ops
    /\ UNCHANGED <<code, origin, level, copro, exec>>

\* What has been read stays read, also when the call fails.
DecTurn(res, n, to) ==
    dec' = [dec EXCEPT !.turn = @ + 1, !.next = @ + 1 + n, !.target = to,
                       !.res = IF dec.turn + 1 = StepLimit THEN "unknown" ELSE res]

Lists(n)      == DecTurn("ok", n, NoTarget)

\* Mutant: the target is not cut to a word.
ListsJump_wide(n) == DecTurn("ok", n, dec.next + 1 + n + code.rel)

ListsJump(n)  == DecTurn("ok", n, (dec.next + 1 + n + code.rel) % Word)
Unlisted(n)   == DecTurn("unknown", n, NoTarget)
ListsIf(c, n) == IF c THEN Lists(n) ELSE Unlisted(n)

Dec_prefix ==
    /\ exec.res # "decoding" /\ dec.res = "decoding" /\ dec.turn < PrefixCount
    /\ IF dec.turn + 1 = StepLimit THEN Unlisted(0)
       ELSE dec' = [dec EXCEPT !.turn = @ + 1, !.next = @ + 1]
    /\ UNCHANGED <<code, origin, level, copro, exec>>

\* Bytes of displacement, as sx86_dec_full_modregrm and its kin fetch them.
DecDisp ==
    CASE code.mod = 3 -> 0
      [] code.mod = 0 /\ code.rm = 6 -> 2
      [] code.mod = 0 /\ code.rm # 6 -> 0
      [] OTHER -> code.mod

DecRM == 1 + DecDisp

DecBinary(b) ==
    \/ D(b..(b + 3)) /\ Lists(DecRM)
    \/ D({b + 4}) /\ Lists(1)
    \/ D({b + 5}) /\ Lists(2)

Dec_add     == DecBinary(\h00)
Dec_or      == DecBinary(\h08)
Dec_adc     == DecBinary(\h10)
Dec_sbb     == DecBinary(\h18)
Dec_and     == DecBinary(\h20)
Dec_sub     == DecBinary(\h28)
Dec_xor     == DecBinary(\h30)
Dec_cmp     == DecBinary(\h38)
Dec_push    == D(\h50..\h57 \cup {\h06, \h0E, \h16, \h1E, \h9C}) /\ Lists(0)

\* Mutant: every CPU has POP CS.
Dec_pop_all == D(\h58..\h5F \cup {\h07, \h0F, \h17, \h1F, \h9D}) /\ Lists(0)

Dec_pop     == \/ D(\h58..\h5F \cup {\h07, \h17, \h1F, \h9D}) /\ Lists(0)
               \/ D({\h0F}) /\ ListsIf(level <= 86, 0)
Dec_inc     == D(\h40..\h4F) /\ Lists(0)
Dec_pusha   == D({\h60}) /\ ListsIf(level >= 186, 0)
Dec_popa    == D({\h61}) /\ ListsIf(level >= 186, 0)
Dec_bound   == D({\h62}) /\ ListsIf(level >= 86, DecRM)
Dec_jc      == D(\h70..\h7F \cup {\hE3}) /\ ListsJump(1)

Dec_group80 == D(\h80..\h83) /\ Lists(DecRM + 1 + (code.op % 2))
Dec_test    == \/ D({\h84, \h85}) /\ Lists(DecRM)
               \/ D({\hA8}) /\ Lists(1)
               \/ D({\hA9}) /\ Lists(2)
Dec_xchg    == \/ D({\h86, \h87}) /\ Lists(DecRM)
               \/ D(\h91..\h97) /\ Lists(0)
Dec_mov     == \/ D(\h88..\h8C \cup {\h8E}) /\ Lists(DecRM)
               \/ D(\hA0..\hA3 \cup \hB8..\hBF) /\ Lists(2)
               \/ D(\hB0..\hB7) /\ Lists(1)
Dec_lea     == D({\h8D}) /\ Lists(DecRM)
Dec_les     == D({\hC4, \hC5}) /\ Lists(DecRM)
Dec_group8F == D({\h8F}) /\ ListsIf(code.reg = 0, DecRM)
Dec_nop     == D({\h90}) /\ Lists(0)
Dec_cxex    == D({\h98, \h99}) /\ Lists(0)
Dec_ahf     == D({\h9E, \h9F}) /\ Lists(0)
Dec_call    == \/ D({\h9A}) /\ Lists(4)
               \/ D({\hE8}) /\ ListsJump(2)
Dec_duhhh   == D({\h9B, \hF4}) /\ Lists(0)
Dec_shovel  == D(\hA4..\hA7 \cup \hAA..\hAF) /\ Lists(0)
Dec_groupC0 == D({\hC0, \hC1}) /\ ListsIf(code.reg # 6, DecRM + 1)
Dec_returns == \/ D({\hC2, \hCA}) /\ Lists(2)
               \/ D({\hC3, \hCB, \hCF}) /\ Lists(0)
Dec_groupC6 == D({\hC6, \hC7}) /\ ListsIf(code.reg = 0, DecRM + 1 + (code.op % 2))
Dec_enterleave == \/ D({\hC8}) /\ ListsIf(level >= 86, 3)
                  \/ D({\hC9}) /\ ListsIf(level >= 86, 0)
Dec_int     == \/ D({\hCC, \hCE}) /\ Lists(0)
               \/ D({\hCD}) /\ Lists(1)
Dec_groupD0 == D(\hD0..\hD3) /\ ListsIf(code.reg # 6, DecRM)
Dec_aaaseries == \/ D({\h27, \h2F, \h37, \h3F}) /\ Lists(0)
                 \/ D({\hD4, \hD5}) /\ Lists(1)
Dec_xlat    == D({\hD7}) /\ Unlisted(0)

\* And to list it?
softx87_dec ==
    CASE code.op \in {\hD8, \hDC, \hDE} -> code.reg = 0
      [] code.op = \hDA -> code.reg = 0 /\ code.mod # 3
      [] code.op = \hD9 -> IF code.mod # 3 THEN code.reg = 0
                           ELSE \/ code.reg = 0
                                \/ <<code.reg, code.rm>> \in {<<2, 0>>, <<6, 6>>, <<6, 7>>}
      [] code.op = \hDD -> code.reg = 0
      [] code.op = \hDB -> code.mod = 3 /\ code.reg = 4 /\ code.rm = 3
      [] code.op = \hDF -> FALSE
Dec_fpuhandoff ==
    /\ D(\hD8..\hDF)
    /\ ListsIf(copro /\ softx87_dec,
               IF ~copro THEN 0 ELSE IF code.op \in {\hDB, \hDF} THEN 1 ELSE DecRM)
Dec_loop    == D(\hE0..\hE2) /\ ListsJump(1)
Dec_io      == \/ D(\hE4..\hE7) /\ Lists(1)
               \/ D(\hEC..\hEF) /\ Lists(0)
Dec_jmp     == \/ D({\hE9}) /\ ListsJump(2)
               \/ D({\hEA}) /\ Lists(4)
               \/ D({\hEB}) /\ ListsJump(1)
Dec_clx     == D({\hF5} \cup \hF8..\hFD) /\ Lists(0)
Dec_groupF6 ==
    /\ D({\hF6, \hF7})
    /\ ListsIf(code.reg # 1, DecRM + (IF code.reg = 0 THEN 1 + (code.op % 2) ELSE 0))
Dec_groupFE ==
    /\ D({\hFE, \hFF})
    /\ ListsIf(code.reg \in {0, 1} \/ (code.op = \hFF /\ code.reg # 7), DecRM)
Dec_default == D(\h63..\h6F \cup {\hD6, \hF1}) /\ Unlisted(0)

softx86_decompile ==
    \/ Dec_prefix
    \/ Dec_add \/ Dec_or \/ Dec_adc \/ Dec_sbb \/ Dec_and \/ Dec_sub \/ Dec_xor \/ Dec_cmp
    \/ Dec_push \/ Dec_pop \/ Dec_inc \/ Dec_pusha \/ Dec_popa
    \/ Dec_bound \/ Dec_jc \/ Dec_group80 \/ Dec_test \/ Dec_xchg \/ Dec_mov
    \/ Dec_lea \/ Dec_les \/ Dec_group8F \/ Dec_nop \/ Dec_cxex \/ Dec_ahf
    \/ Dec_call \/ Dec_duhhh \/ Dec_shovel \/ Dec_groupC0 \/ Dec_returns
    \/ Dec_groupC6 \/ Dec_enterleave \/ Dec_int \/ Dec_groupD0 \/ Dec_aaaseries
    \/ Dec_xlat \/ Dec_fpuhandoff \/ Dec_loop \/ Dec_io \/ Dec_jmp \/ Dec_clx
    \/ Dec_groupF6 \/ Dec_groupFE \/ Dec_default

-----------------------------------------------------------------------------
\* softx86_decompile_exec_cs_ip has put the decompiler where the executor is.
Init ==
    /\ code \in Instructions /\ origin \in Origins /\ level \in Levels
    /\ copro \in (IF code.op \in \hD8..\hDF THEN BOOLEAN ELSE {FALSE})
    /\ exec = [res |-> "decoding", next |-> origin, target |-> NoTarget, turn |-> 0,
               rep |-> FALSE]
    /\ dec  = [res |-> "decoding", next |-> origin, target |-> NoTarget, turn |-> 0]

Next == softx86_step \/ softx86_decompile

Spec == Init /\ [][Next]_vars

-----------------------------------------------------------------------------
(***************************************************************************)
(* Properties.                                                             *)
(***************************************************************************)
Both == exec.res # "decoding" /\ dec.res # "decoding"

\* MOV to or from a segment register the 8086 does not have, in memory.
NoSuchSegment == code.op \in {\h8C, \h8E} /\ code.reg \in 4..7 /\ code.mod # 3

(***************************************************************************)
(* An instruction that is executed has been listed with the bytes the       *)
(* executor read, so the next line of a listing is the next instruction,    *)
(* and with the address it jumps to, across the end of the segment too      *)
(* (softx86_fetch_exec_byte, softx86_fetch_dec_byte and every pair of        *)
(* handlers of optab8086).  One instruction gets out of step: of a MOV of a  *)
(* missing segment register only the listing reads the displacement.       *)
(***************************************************************************)
ListingInStep ==
    Both /\ exec.res = "ok" =>
        /\ dec.res = "ok" /\ dec.target = exec.target
        /\ dec.next = exec.next + (IF NoSuchSegment THEN DecDisp ELSE 0)

\* What the decompiler lists and the executor does not take.
FarFromRegister == code.op = \hFF /\ code.reg \in {3, 5} /\ code.mod = 3
RepRep == \E j, k \in 1..PrefixCount :
             j # k /\ code.prefixes[j] = "rep" /\ code.prefixes[k] = "rep"

(***************************************************************************)
(* Executor and decompiler accept the same instructions, on every CPU and    *)
(* however many prefixes, but for two: a far jump or call through a         *)
(* register, and a second REP, are listed and not executed.                *)
(***************************************************************************)
AcceptTogether ==
    Both => (exec.res = "unknown" <=> dec.res = "unknown" \/ FarFromRegister \/ RepRep)

\* instodo.txt: what is implemented, and on which CPU; and where the code differs.
Listed ==
    CASE code.op \in \h63..\h6F \cup {\hD6, \hF1} -> FALSE
      [] code.op = \h0F -> level = 86
      [] code.op \in \h60..\h62 -> level > 86
      [] code.op \in {\h8F, \hC6, \hC7} -> code.reg = 0
      [] code.op \in \hD0..\hD3 \cup {\hC0, \hC1} -> code.reg # 6
      [] code.op \in {\hF6, \hF7} -> code.reg # 1
      [] code.op = \hFE -> code.reg \in 0..1
      [] code.op = \hFF -> code.reg \in 0..6
      [] OTHER -> TRUE

Divergent ==
    \/ code.op = \hD7                           \* XLAT is never recognised
    \/ code.op = \h62 /\ level = 86             \* BOUND is there on an 8086
    \/ code.op \in \hD8..\hDF                   \* only FLD to FFREE are listed, and no FADD
    \/ FarFromRegister

(***************************************************************************)
(* The executor takes an instruction, with any prefixes that fit, on the     *)
(* CPUs instodo.txt lists it for and on no other; the exceptions are         *)
(* Divergent.                                                              *)
(***************************************************************************)
AsImplemented ==
    exec.res # "decoding" /\ ~Divergent /\ ~RepRep /\ PrefixCount + 1 < StepLimit =>
        (exec.res # "unknown" <=> Listed)

=============================================================================
