------------------------ MODULE Softx86Decode_proofs ------------------------
(***************************************************************************)
(* That the executor and the decompiler agree (Softx86Decode), for every      *)
(* instruction, every run of prefixes, every limit of the lookup and every    *)
(* place in the segment.                                                   *)
(*                                                                         *)
(* The two walkers are reduced to two tables: what each of them takes, and   *)
(* how many bytes after the opcode it then reads.  ExecLooksUp and           *)
(* DecLooksUp go through the handlers one by one and show that each does     *)
(* what its table says; the tables are compared, once, in SameTaken and      *)
(* SameRead.                                                               *)
(***************************************************************************)
EXTENDS Softx86Decode, TLAPS

-----------------------------------------------------------------------------
(***************************************************************************)
(* The tables.                                                             *)
(***************************************************************************)
\* Opcodes that neither takes on some CPU, or with some ModR/M byte.
TakenByBoth ==
    /\ code.op \notin \h63..\h6F \cup {\hD6, \hD7, \hF1}
    /\ code.op = \h0F => level = 86
    /\ code.op \in {\h60, \h61} => level # 86
    /\ code.op \in {\h8F, \hC6, \hC7} => code.reg = 0
    /\ code.op \in \hD0..\hD3 \cup {\hC0, \hC1} => code.reg # 6
    /\ code.op \in {\hF6, \hF7} => code.reg # 1
    /\ code.op = \hFE => code.reg \in {0, 1}
    /\ code.op = \hFF => code.reg # 7

ExecTakes ==
    /\ TakenByBoth /\ ~FarFromRegister
    /\ code.op \in \hD8..\hDF => copro /\ softx87_exec

DecTakes ==
    /\ TakenByBoth
    /\ code.op \in \hD8..\hDF => copro /\ softx87_dec

\* Bytes after the opcode, rm of them for a ModR/M byte and its displacement, and
\* seg when it moves a segment register.
Reads(rm, seg) ==
    CASE \/ code.op < \h40 /\ code.op % 8 < 4
         \/ code.op \in {\h62, \h8D, \h8F, \hC4, \hC5, \hFE, \hFF}
         \/ code.op \in \h84..\h8B \cup \hD0..\hD3 \cup \hD8..\hDF -> rm
      [] code.op \in {\h8C, \h8E} -> seg
      [] code.op \in \h80..\h83 \cup {\hC6, \hC7} -> rm + Imm
      [] code.op \in {\hC0, \hC1} -> rm + 1
      [] code.op \in {\hF6, \hF7} -> rm + (IF code.reg = 0 THEN Imm ELSE 0)
      [] code.op < \h40 /\ code.op % 8 \in {4, 5} -> Imm
      [] code.op \in {\hA8, \hA9} -> Imm
      [] code.op \in \hA0..\hA3 \cup \hB8..\hBF \cup {\hC2, \hCA, \hE8, \hE9} -> 2
      [] code.op \in \h70..\h7F \cup \hB0..\hB7 \cup \hE0..\hE7
                     \cup {\hCD, \hD4, \hD5, \hEB} -> 1
      [] code.op \in {\h9A, \hEA} -> 4
      [] code.op = \hC8 -> 3
      [] OTHER -> 0

ExecReads == Reads(ExecRM, IF code.reg < 4 THEN ExecRM ELSE 1)
DecReads  == Reads(DecRM, DecRM)

\* Where a relative jump goes, from the end of its bytes.
Jump == code.op \in \h70..\h7F \cup \hE0..\hE3 \cup {\hE8, \hE9, \hEB}
To(end) == IF Jump THEN (end + code.rel) % Word ELSE NoTarget

-----------------------------------------------------------------------------
(***************************************************************************)
(* The inductive invariant: a walker that still decodes has read prefixes    *)
(* only, no two of them REP if it is the executor; one that has finished has  *)
(* done what its table says.                                               *)
(***************************************************************************)
IsRep(k)   == code.prefixes[k] = "rep"
RepIn(n)   == \E k \in 1..n : IsRep(k)
RepsIn(n)  == \E j \in 1..n, k \in 1..n : j # k /\ IsRep(j) /\ IsRep(k)

\* The limit is reached with the opcode, or before it.
Spent == PrefixCount + 1 >= StepLimit

\* w has read some of the prefixes.
Reading(w) ==
    /\ w.turn <= PrefixCount /\ w.turn < StepLimit
    /\ w.next = origin + w.turn /\ w.target = NoTarget

\* w has taken the instruction, and read `n` bytes after the opcode.
Took(w, n) ==
    /\ w.next = origin + PrefixCount + 1 + n
    /\ w.target = To(w.next)

ExecInv ==
    /\ exec.res = "decoding" =>
          /\ Reading(exec) /\ ~RepsIn(exec.turn)
          /\ exec.rep <=> RepIn(exec.turn)
    /\ exec.res # "decoding" =>
          (exec.res = "unknown" <=> RepRep \/ Spent \/ ~ExecTakes)
    /\ exec.res = "ok" => Took(exec, ExecReads)

DecInv ==
    /\ dec.res = "decoding" => Reading(dec)
    /\ dec.res # "decoding" => (dec.res = "unknown" <=> Spent \/ ~DecTakes)
    /\ dec.res = "ok" => Took(dec, DecReads)

ExecType ==
    exec \in [res : Results, next : Nat, target : NoTarget..(Word - 1),
              turn : 0..StepLimit, rep : BOOLEAN]
DecType ==
    dec \in [res : Results \ {"again"}, next : Nat, target : NoTarget..(Word - 1),
             turn : 0..StepLimit]

Given ==
    /\ code \in Instructions /\ origin \in Origins /\ level \in Levels
    /\ copro \in BOOLEAN

IInv == Given /\ ExecType /\ DecType /\ ExecInv /\ DecInv

-----------------------------------------------------------------------------
(***************************************************************************)
(* The handlers, against the tables.                                       *)
(***************************************************************************)
\* The constants of an instruction that has been chosen.
LEMMA Fields ==
    ASSUME Given
    PROVE  /\ code.op \in 0..255 /\ code.mod \in 0..3 /\ code.reg \in 0..7
           /\ code.rm \in 0..7 /\ code.rel \in Int
           /\ code.prefixes \in Seq(Prefixes) /\ PrefixCount \in Nat
           /\ level \in {86, 186, 286}
           /\ Word \in Nat \ {0} /\ origin \in 0..(Word - 1) /\ StepLimit \in Nat \ {0}
  BY DecodeAssumption DEF Given, PrefixCount

\* Both fetch a displacement by the same rule.
LEMMA SameDisp ==
    ASSUME Given
    PROVE  /\ ExecDisp = DecDisp /\ DecDisp \in 0..2 /\ ExecRM = DecRM /\ DecRM \in 1..3
           /\ Imm \in 1..2
<1>1. ExecDisp = DecDisp /\ DecDisp \in 0..2
  <2>1. code.mod \in 0..3 /\ code.rm \in Nat
    BY Fields
  <2>2. CASE code.mod = 0
    BY <2>1, <2>2 DEF ExecDisp, DecDisp
  <2>3. CASE code.mod = 1
    BY <2>1, <2>3 DEF ExecDisp, DecDisp
  <2>4. CASE code.mod = 2
    BY <2>1, <2>4 DEF ExecDisp, DecDisp
  <2>5. CASE code.mod = 3
    BY <2>1, <2>5 DEF ExecDisp, DecDisp
  <2>. QED
    BY <2>1, <2>2, <2>3, <2>4, <2>5
<1>2. Imm \in 1..2
  <2>1. code.op \in 0..255
    BY Fields
  <2>. QED
    BY <2>1 DEF Imm
<1>. QED
  BY <1>1, <1>2 DEF ExecRM, DecRM

\* The executor has read its prefixes, and does with the opcode what its table says.
ExecDoes ==
    /\ AtOpcode(exec) /\ UNCHANGED <<code, origin, level, copro, dec>>
    /\ \/ ExecTakes /\ ~Jump /\ Retires(ExecReads)
       \/ ExecTakes /\ Jump /\ Jumps(ExecReads)
       \/ ExecTakes /\ Again
       \/ ~ExecTakes /\ Rejects

\* Every handler of the executor (Sfx86OpcodeExec_*) takes and reads what the table has.
LEMMA ExecLooksUp ==
    ASSUME Given, softx86_step, ~Exec_prefix
    PROVE  ExecDoes
<1>f. /\ code.op \in 0..255 /\ code.mod \in 0..3 /\ code.reg \in 0..7
      /\ code.rm \in 0..7 /\ level \in {86, 186, 286}
  BY Fields
<1>. USE <1>f DEF ExecDoes, E, RetiresIf,
         ExecTakes, TakenByBoth, FarFromRegister, ExecReads, Reads, Jump
<1>1. CASE Exec_add
  BY <1>1 DEF Exec_add, ExecBinary
<1>2. CASE Exec_or
  BY <1>2 DEF Exec_or, ExecBinary
<1>3. CASE Exec_adc
  BY <1>3 DEF Exec_adc, ExecBinary
<1>4. CASE Exec_sbb
  BY <1>4 DEF Exec_sbb, ExecBinary
<1>5. CASE Exec_and
  BY <1>5 DEF Exec_and, ExecBinary
<1>6. CASE Exec_sub
  BY <1>6 DEF Exec_sub, ExecBinary
<1>7. CASE Exec_xor
  BY <1>7 DEF Exec_xor, ExecBinary
<1>8. CASE Exec_cmp
  BY <1>8 DEF Exec_cmp, ExecBinary
<1>9. CASE Exec_push
  BY <1>9 DEF Exec_push
<1>10. CASE Exec_pop
  BY <1>10 DEF Exec_pop
<1>11. CASE Exec_inc
  BY <1>11 DEF Exec_inc
<1>12. CASE Exec_pusha
  BY <1>12 DEF Exec_pusha
<1>13. CASE Exec_popa
  BY <1>13 DEF Exec_popa
<1>14. CASE Exec_bound
  BY <1>14 DEF Exec_bound
<1>15. CASE Exec_jc
  BY <1>15 DEF Exec_jc
<1>16. CASE Exec_group80
  BY <1>16 DEF Exec_group80
<1>17. CASE Exec_test
  BY <1>17 DEF Exec_test
<1>18. CASE Exec_xchg
  BY <1>18 DEF Exec_xchg
<1>19. CASE Exec_mov
  BY <1>19 DEF Exec_mov
<1>20. CASE Exec_lea
  BY <1>20 DEF Exec_lea
<1>21. CASE Exec_les
  BY <1>21 DEF Exec_les
<1>22. CASE Exec_group8F
  BY <1>22 DEF Exec_group8F
<1>23. CASE Exec_nop
  BY <1>23 DEF Exec_nop
<1>24. CASE Exec_cxex
  BY <1>24 DEF Exec_cxex
<1>25. CASE Exec_ahf
  BY <1>25 DEF Exec_ahf
<1>26. CASE Exec_call
  BY <1>26 DEF Exec_call
<1>27. CASE Exec_duhhh
  BY <1>27 DEF Exec_duhhh
<1>28. CASE Exec_shovel
  BY <1>28 DEF Exec_shovel
<1>29. CASE Exec_groupC0
  BY <1>29 DEF Exec_groupC0
<1>30. CASE Exec_returns
  BY <1>30 DEF Exec_returns
<1>31. CASE Exec_groupC6
  BY <1>31 DEF Exec_groupC6
<1>32. CASE Exec_enterleave
  BY <1>32 DEF Exec_enterleave
<1>33. CASE Exec_int
  BY <1>33 DEF Exec_int
<1>34. CASE Exec_groupD0
  BY <1>34 DEF Exec_groupD0
<1>35. CASE Exec_aaaseries
  BY <1>35 DEF Exec_aaaseries
<1>36. CASE Exec_xlat
  BY <1>36 DEF Exec_xlat
<1>37. CASE Exec_fpuhandoff
  BY <1>37 DEF Exec_fpuhandoff
<1>38. CASE Exec_loop
  BY <1>38 DEF Exec_loop
<1>39. CASE Exec_io
  BY <1>39 DEF Exec_io
<1>40. CASE Exec_jmp
  BY <1>40 DEF Exec_jmp
<1>41. CASE Exec_clx
  BY <1>41 DEF Exec_clx
<1>42. CASE Exec_groupF6
  BY <1>42 DEF Exec_groupF6
<1>43. CASE Exec_groupFE
  BY <1>43 DEF Exec_groupFE
<1>44. CASE Exec_default
  BY <1>44 DEF Exec_default
<1>. HIDE DEF ExecDoes
<1>. QED
  BY <1>1, <1>2, <1>3, <1>4, <1>5, <1>6, <1>7, <1>8, <1>9, <1>10, <1>11,
     <1>12, <1>13, <1>14, <1>15, <1>16, <1>17, <1>18, <1>19, <1>20, <1>21,
     <1>22, <1>23, <1>24, <1>25, <1>26, <1>27, <1>28, <1>29, <1>30, <1>31,
     <1>32, <1>33, <1>34, <1>35, <1>36, <1>37, <1>38, <1>39, <1>40, <1>41,
     <1>42, <1>43, <1>44 DEF softx86_step

\* The decompiler has read its prefixes, and does with the opcode what its table says.
DecDoes ==
    /\ exec.res # "decoding" /\ AtOpcode(dec) /\ UNCHANGED <<code, origin, level, copro, exec>>
    /\ \/ DecTakes /\ ~Jump /\ Lists(DecReads)
       \/ DecTakes /\ Jump /\ ListsJump(DecReads)
       \/ ~DecTakes /\ (Unlisted(DecReads) \/ Unlisted(0) \/ Unlisted(1))

\* Every handler of the decompiler (Sfx86OpcodeDec_*) lists and reads what the table has.
LEMMA DecLooksUp ==
    ASSUME Given, softx86_decompile, ~Dec_prefix
    PROVE  DecDoes
<1>f. /\ code.op \in 0..255 /\ code.mod \in 0..3 /\ code.reg \in 0..7
      /\ code.rm \in 0..7 /\ level \in {86, 186, 286} /\ copro \in BOOLEAN
  BY Fields DEF Given
<1>g. DecRM \in 1..3
  BY SameDisp
<1>. USE <1>f DEF DecDoes, D, ListsIf,
         DecTakes, TakenByBoth, DecReads, Reads, Jump, Imm
<1>1. CASE Dec_add
  BY <1>1 DEF Dec_add, DecBinary
<1>2. CASE Dec_or
  BY <1>2 DEF Dec_or, DecBinary
<1>3. CASE Dec_adc
  BY <1>3 DEF Dec_adc, DecBinary
<1>4. CASE Dec_sbb
  BY <1>4 DEF Dec_sbb, DecBinary
<1>5. CASE Dec_and
  BY <1>5 DEF Dec_and, DecBinary
<1>6. CASE Dec_sub
  BY <1>6 DEF Dec_sub, DecBinary
<1>7. CASE Dec_xor
  BY <1>7 DEF Dec_xor, DecBinary
<1>8. CASE Dec_cmp
  BY <1>8 DEF Dec_cmp, DecBinary
<1>9. CASE Dec_push
  BY <1>9 DEF Dec_push
<1>10. CASE Dec_pop
  BY <1>10 DEF Dec_pop
<1>11. CASE Dec_inc
  BY <1>11 DEF Dec_inc
<1>12. CASE Dec_pusha
  BY <1>12 DEF Dec_pusha
<1>13. CASE Dec_popa
  BY <1>13 DEF Dec_popa
<1>14. CASE Dec_bound
  BY <1>14 DEF Dec_bound
<1>15. CASE Dec_jc
  BY <1>15 DEF Dec_jc
<1>16. CASE Dec_group80
  BY <1>16, <1>g DEF Dec_group80
<1>17. CASE Dec_test
  BY <1>17 DEF Dec_test
<1>18. CASE Dec_xchg
  BY <1>18 DEF Dec_xchg
<1>19. CASE Dec_mov
  BY <1>19 DEF Dec_mov
<1>20. CASE Dec_lea
  BY <1>20 DEF Dec_lea
<1>21. CASE Dec_les
  BY <1>21 DEF Dec_les
<1>22. CASE Dec_group8F
  BY <1>22 DEF Dec_group8F
<1>23. CASE Dec_nop
  BY <1>23 DEF Dec_nop
<1>24. CASE Dec_cxex
  BY <1>24 DEF Dec_cxex
<1>25. CASE Dec_ahf
  BY <1>25 DEF Dec_ahf
<1>26. CASE Dec_call
  BY <1>26 DEF Dec_call
<1>27. CASE Dec_duhhh
  BY <1>27 DEF Dec_duhhh
<1>28. CASE Dec_shovel
  BY <1>28 DEF Dec_shovel
<1>29. CASE Dec_groupC0
  BY <1>29 DEF Dec_groupC0
<1>30. CASE Dec_returns
  BY <1>30 DEF Dec_returns
<1>31. CASE Dec_groupC6
  BY <1>31, <1>g DEF Dec_groupC6
<1>32. CASE Dec_enterleave
  BY <1>32 DEF Dec_enterleave
<1>33. CASE Dec_int
  BY <1>33 DEF Dec_int
<1>34. CASE Dec_groupD0
  BY <1>34 DEF Dec_groupD0
<1>35. CASE Dec_aaaseries
  BY <1>35 DEF Dec_aaaseries
<1>36. CASE Dec_xlat
  BY <1>36 DEF Dec_xlat
<1>37. CASE Dec_fpuhandoff
  <2>1. code.op \in \hD8..\hDF /\ DecReads = DecRM /\ ~Jump
    BY <1>37 DEF Dec_fpuhandoff
  <2>2. code.op = \hDB /\ softx87_dec => DecRM = 1
    BY DEF softx87_dec, DecRM, DecDisp
  <2>3. DecTakes <=> copro /\ softx87_dec
    BY <2>1
  <2>4. code.op = \hDF => ~softx87_dec
    BY DEF softx87_dec
  <2>. HIDE DEF DecReads, DecTakes, Jump
  <2>. QED
    BY <1>37, <2>1, <2>2, <2>3, <2>4 DEF Dec_fpuhandoff
<1>38. CASE Dec_loop
  BY <1>38 DEF Dec_loop
<1>39. CASE Dec_io
  BY <1>39 DEF Dec_io
<1>40. CASE Dec_jmp
  BY <1>40 DEF Dec_jmp
<1>41. CASE Dec_clx
  BY <1>41 DEF Dec_clx
<1>42. CASE Dec_groupF6
  BY <1>42 DEF Dec_groupF6
<1>43. CASE Dec_groupFE
  BY <1>43 DEF Dec_groupFE
<1>44. CASE Dec_default
  BY <1>44 DEF Dec_default
<1>. HIDE DEF DecDoes
<1>. QED
  BY <1>1, <1>2, <1>3, <1>4, <1>5, <1>6, <1>7, <1>8, <1>9, <1>10, <1>11,
     <1>12, <1>13, <1>14, <1>15, <1>16, <1>17, <1>18, <1>19, <1>20, <1>21,
     <1>22, <1>23, <1>24, <1>25, <1>26, <1>27, <1>28, <1>29, <1>30, <1>31,
     <1>32, <1>33, <1>34, <1>35, <1>36, <1>37, <1>38, <1>39, <1>40, <1>41,
     <1>42, <1>43, <1>44 DEF softx86_decompile

-----------------------------------------------------------------------------
(***************************************************************************)
(* The invariant.                                                          *)
(***************************************************************************)
\* What is said of the instruction stays true: neither walker changes it.
LEMMA CodeStays ==
    ASSUME UNCHANGED <<code, origin, level, copro>>
    PROVE  /\ Given' = Given /\ ExecTakes' = ExecTakes /\ DecTakes' = DecTakes
           /\ ExecReads' = ExecReads /\ DecReads' = DecReads
           /\ PrefixCount' = PrefixCount /\ RepRep' = RepRep /\ Spent' = Spent
           /\ \A n : To(n)' = To(n) /\ RepIn(n)' = RepIn(n) /\ RepsIn(n)' = RepsIn(n)
<1>1. Given' = Given
  BY DEF Given
<1>2. TakenByBoth' = TakenByBoth /\ FarFromRegister' = FarFromRegister
  BY DEF TakenByBoth, FarFromRegister
<1>3. softx87_exec' = softx87_exec
  BY DEF softx87_exec
<1>4. softx87_dec' = softx87_dec
  BY DEF softx87_dec
<1>5. ExecDisp' = ExecDisp /\ DecDisp' = DecDisp /\ Imm' = Imm
  BY DEF ExecDisp, DecDisp, Imm
<1>6. ExecTakes' = ExecTakes /\ DecTakes' = DecTakes
  BY <1>2, <1>3, <1>4 DEF ExecTakes, DecTakes
<1>7. ExecReads' = ExecReads
  BY <1>5 DEF ExecReads, Reads, ExecRM
<1>8. DecReads' = DecReads
  BY <1>5 DEF DecReads, Reads, DecRM
<1>9. PrefixCount' = PrefixCount /\ RepRep' = RepRep /\ Spent' = Spent
  BY DEF PrefixCount, RepRep, Spent
<1>10. \A n : To(n)' = To(n)
  BY DEF To, Jump
<1>11. \A n : RepIn(n)' = RepIn(n)
  BY DEF RepIn, IsRep
<1>12. \A n : RepsIn(n)' = RepsIn(n)
  BY DEF RepsIn, IsRep
<1>. QED
  BY <1>1, <1>6, <1>7, <1>8, <1>9, <1>10, <1>11, <1>12

\* What both tables have read is a number of bytes.
LEMMA ReadsNat ==
    ASSUME Given
    PROVE  ExecReads \in Nat /\ DecReads \in Nat
<1>1. DecRM \in 1..3 /\ ExecRM \in 1..3 /\ Imm \in 1..2 /\ code.op \in 0..255
  BY SameDisp, Fields
<1>2. \A rm, seg \in 1..3 : Reads(rm, seg) \in Nat
  BY <1>1 DEF Reads
<1>. QED
  BY <1>1, <1>2 DEF ExecReads, DecReads

\* A target is none, or an offset of the segment.
LEMMA ToOffset ==
    ASSUME Given, NEW n \in Int
    PROVE  To(n) \in NoTarget..(Word - 1)
<1>1. code.rel \in Int /\ Word \in Nat \ {0}
  BY Fields
<1>2. (n + code.rel) % Word \in 0..(Word - 1)
  BY <1>1
<1>. QED
  BY <1>1, <1>2 DEF To, NoTarget

\* The reps among one prefix more.
LEMMA OneMore ==
    ASSUME NEW n \in Nat
    PROVE  /\ RepIn(n + 1) <=> RepIn(n) \/ IsRep(n + 1)
           /\ RepsIn(n + 1) <=> RepsIn(n) \/ (RepIn(n) /\ IsRep(n + 1))
<1>1. \A k \in 1..(n + 1) : k \in 1..n \/ k = n + 1
  OBVIOUS
<1>2. 1..n \subseteq 1..(n + 1) /\ n + 1 \in 1..(n + 1) /\ n + 1 \notin 1..n
  OBVIOUS
<1>. QED
  BY <1>1, <1>2 DEF RepIn, RepsIn

\* Two REPs among some of the prefixes are two among all.
LEMMA SomeReps ==
    ASSUME PrefixCount \in Nat, NEW n \in 0..PrefixCount, RepsIn(n)
    PROVE  RepRep
<1>1. 1..n \subseteq 1..PrefixCount
  OBVIOUS
<1>. QED
  BY <1>1 DEF RepsIn, RepRep, IsRep

\* Initially neither has read anything.
LEMMA InitInv == Init => IInv
<1>. SUFFICES ASSUME Init PROVE IInv
  OBVIOUS
<1>1. Given
  BY DEF Init, Given
<1>2. origin \in 0..(Word - 1) /\ Word \in Nat \ {0} /\ StepLimit \in Nat \ {0}
      /\ PrefixCount \in Nat
  BY <1>1, Fields
<1>3. ExecType /\ DecType
  BY <1>2 DEF Init, ExecType, DecType, Results, NoTarget
<1>4. ~RepIn(0) /\ ~RepsIn(0)
  BY DEF RepIn, RepsIn
<1>5. ExecInv
  BY <1>2, <1>4 DEF Init, ExecInv, Reading
<1>6. DecInv
  BY <1>2 DEF Init, DecInv, Reading
<1>. QED
  BY <1>1, <1>3, <1>5, <1>6 DEF IInv

\* The executor reads a prefix (Sfx86OpcodeExec_segover, _repetition, _lock).
LEMMA ExecPrefixInv ==
    ASSUME IInv, Exec_prefix
    PROVE  IInv'
<1>. DEFINE p == code.prefixes[exec.turn + 1]
            fails == (p = "rep" /\ exec.rep) \/ exec.turn + 1 = StepLimit
<1>0. /\ UNCHANGED <<code, origin, level, copro, dec>>
      /\ exec.res = "decoding" /\ exec.turn < PrefixCount
      /\ IF fails THEN Rejects
         ELSE exec' = [exec EXCEPT !.turn = @ + 1, !.next = @ + 1, !.rep = @ \/ p = "rep"]
  BY DEF Exec_prefix
<1>1. Given /\ Given' /\ ExecType /\ DecType /\ ExecInv /\ DecInv
  BY <1>0, CodeStays DEF IInv
<1>2. /\ StepLimit \in Nat \ {0} /\ PrefixCount \in Nat /\ origin \in 0..(Word - 1)
      /\ Word \in Nat \ {0}
  BY <1>1, Fields
<1>3. Reading(exec) /\ ~RepsIn(exec.turn) /\ (exec.rep <=> RepIn(exec.turn))
  BY <1>0, <1>1 DEF ExecInv
<1>4. /\ exec.turn \in Nat /\ exec.turn + 1 \in 0..PrefixCount
      /\ exec.turn + 1 <= StepLimit /\ exec.next \in Nat
  BY <1>0, <1>1, <1>2, <1>3 DEF ExecType, Reading
<1>5. /\ RepIn(exec.turn + 1) <=> RepIn(exec.turn) \/ p = "rep"
      /\ RepsIn(exec.turn + 1) <=> RepIn(exec.turn) /\ p = "rep"
  BY <1>3, <1>4, OneMore DEF IsRep
<1>6. CASE fails
  <2>. HIDE DEF p, fails
  <2>1. RepRep \/ Spent
    <3>1. CASE exec.turn + 1 = StepLimit
      BY <1>2, <1>4, <3>1 DEF Spent
    <3>2. CASE p = "rep" /\ exec.rep
      BY <1>2, <1>3, <1>4, <1>5, <3>2, SomeReps
    <3>. QED
      BY <1>6, <3>1, <3>2 DEF fails
  <2>2. exec' = [exec EXCEPT !.turn = @ + 1, !.res = "unknown", !.next = origin,
                             !.target = NoTarget]
    BY <1>0, <1>6 DEF Rejects, ExecTurn
  <2>3. ExecType'
    <3>1. /\ exec.turn + 1 \in 0..StepLimit /\ origin \in Nat /\ "unknown" \in Results
          /\ NoTarget \in NoTarget..(Word - 1)
      BY <1>2, <1>4 DEF Results, NoTarget
    <3>. QED
      BY <1>1, <2>2, <3>1 DEF ExecType
  <2>4. exec'.res = "unknown"
    BY <1>1, <2>2 DEF ExecType
  <2>5. ExecInv'
    BY <1>0, <2>1, <2>4, CodeStays DEF ExecInv
  <2>. QED
    BY <1>0, <1>1, <2>3, <2>5, CodeStays DEF IInv, DecType, DecInv, Reading, Took
<1>7. CASE ~fails
  <2>. HIDE DEF p, fails
  <2>1. exec' = [exec EXCEPT !.turn = @ + 1, !.next = @ + 1, !.rep = @ \/ p = "rep"]
    BY <1>0, <1>7
  <2>2. exec.turn + 1 < StepLimit /\ ~(p = "rep" /\ exec.rep)
    BY <1>2, <1>4, <1>7 DEF fails
  <2>3. /\ exec'.res = "decoding" /\ exec'.turn = exec.turn + 1
        /\ exec'.next = exec.next + 1 /\ exec'.target = NoTarget
        /\ exec'.rep = (exec.rep \/ p = "rep")
    BY <1>0, <1>1, <1>3, <2>1 DEF ExecType, Reading
  <2>4. ExecType'
    <3>. DEFINE b == exec.rep \/ p = "rep"
    <3>1. exec.turn + 1 \in 0..StepLimit /\ exec.next + 1 \in Nat /\ b \in BOOLEAN
      BY <1>2, <1>4
    <3>2. exec' = [exec EXCEPT !.turn = exec.turn + 1, !.next = exec.next + 1, !.rep = b]
      BY <2>1
    <3>. HIDE DEF b
    <3>. QED
      BY <1>1, <3>1, <3>2 DEF ExecType
  <2>5. Reading(exec)'
    BY <1>0, <1>2, <1>3, <1>4, <2>2, <2>3, CodeStays DEF Reading
  <2>6. ~RepsIn(exec.turn)' /\ (exec'.rep <=> RepIn(exec.turn)')
    BY <1>0, <1>3, <1>5, <2>2, <2>3, CodeStays
  <2>7. ExecInv'
    BY <2>3, <2>5, <2>6 DEF ExecInv
  <2>. QED
    BY <1>0, <1>1, <2>4, <2>7, CodeStays DEF IInv, DecType, DecInv, Reading, Took
<1>. QED
  BY <1>6, <1>7

\* The executor looks up its opcode (softx86_step and every Sfx86OpcodeExec_*).
LEMMA ExecOpcodeInv ==
    ASSUME IInv, ExecDoes
    PROVE  IInv'
<1>1. Given /\ Given' /\ ExecType /\ DecType /\ ExecInv /\ DecInv
  BY CodeStays DEF IInv, ExecDoes
<1>2. /\ StepLimit \in Nat \ {0} /\ PrefixCount \in Nat /\ origin \in 0..(Word - 1)
      /\ Word \in Nat \ {0}
  BY <1>1, Fields
<1>3. /\ exec.res = "decoding" /\ exec.turn = PrefixCount /\ exec.turn < StepLimit
      /\ UNCHANGED <<code, origin, level, copro, dec>>
  BY DEF ExecDoes, AtOpcode
<1>4. /\ ~RepRep /\ exec.next = origin + PrefixCount
  <2>1. Reading(exec) /\ ~RepsIn(exec.turn)
    BY <1>1, <1>3 DEF ExecInv
  <2>. QED
    BY <1>3, <2>1 DEF Reading, RepRep, RepsIn, IsRep
<1>5. Spent <=> exec.turn + 1 = StepLimit
  BY <1>2, <1>3 DEF Spent
<1>6. ExecReads \in Nat /\ \A n \in Int : To(n) \in NoTarget..(Word - 1)
  BY <1>1, ReadsNat, ToOffset
<1>7. /\ exec.turn + 1 \in 0..StepLimit /\ origin \in Nat /\ NoTarget \in NoTarget..(Word - 1)
      /\ exec.next + 1 + ExecReads \in Nat
      /\ To(exec.next + 1 + ExecReads) \in NoTarget..(Word - 1)
  BY <1>2, <1>3, <1>4, <1>6 DEF NoTarget
<1>u. UNCHANGED dec /\ DecType' /\ DecInv'
  BY <1>1, <1>3, CodeStays DEF DecType, DecInv, Reading, Took
<1>8. ASSUME NEW r \in {"again", "unknown"}, r = "unknown" <=> Spent \/ ~ExecTakes,
             exec' = [exec EXCEPT !.turn = exec.turn + 1, !.res = r, !.next = origin,
                                  !.target = NoTarget]
      PROVE  IInv'
  <2>1. ExecType'
    BY <1>1, <1>7, <1>8 DEF ExecType, Results
  <2>2. exec'.res = r
    BY <1>1, <1>8 DEF ExecType
  <2>3. ExecInv'
    BY <1>3, <1>4, <1>8, <2>2, CodeStays DEF ExecInv
  <2>. QED
    BY <1>1, <1>u, <2>1, <2>3 DEF IInv
<1>9. CASE Spent
  <2>1. exec' = [exec EXCEPT !.turn = exec.turn + 1, !.res = "unknown", !.next = origin,
                             !.target = NoTarget]
    BY <1>3, <1>5, <1>9 DEF ExecDoes, ExecTurn, Retires, Jumps, Again, Rejects
  <2>. QED
    BY <1>8, <1>9, <2>1
<1>10. CASE ~Spent /\ ~ExecTakes
  <2>1. exec' = [exec EXCEPT !.turn = exec.turn + 1, !.res = "unknown", !.next = origin,
                             !.target = NoTarget]
    BY <1>3, <1>5, <1>10 DEF ExecDoes, ExecTurn, Rejects
  <2>. QED
    BY <1>8, <1>10, <2>1
<1>11. CASE ~Spent /\ ExecTakes /\ Again
  <2>1. exec' = [exec EXCEPT !.turn = exec.turn + 1, !.res = "again", !.next = origin,
                             !.target = NoTarget]
    BY <1>3, <1>5, <1>11 DEF ExecTurn, Again
  <2>. QED
    BY <1>8, <1>11, <2>1
<1>12. CASE ~Spent /\ ExecTakes /\ ~Again
  <2>. DEFINE end == exec.next + 1 + ExecReads
  <2>1. exec' = [exec EXCEPT !.turn = exec.turn + 1, !.res = "ok", !.next = end,
                             !.target = To(end)]
    BY <1>3, <1>5, <1>12 DEF ExecDoes, ExecTurn, Retires, Jumps, To
  <2>2. ExecType'
    BY <1>1, <1>7, <2>1 DEF ExecType, Results
  <2>3. exec'.res = "ok" /\ exec'.next = end /\ exec'.target = To(end)
    BY <1>1, <2>1 DEF ExecType
  <2>4. Took(exec, ExecReads)'
    BY <1>2, <1>3, <1>4, <1>6, <2>3, CodeStays DEF Took
  <2>5. ExecInv'
    BY <1>3, <1>4, <1>12, <2>3, <2>4, CodeStays DEF ExecInv
  <2>. QED
    BY <1>1, <1>u, <2>2, <2>5 DEF IInv
<1>. QED
  BY <1>9, <1>10, <1>11, <1>12

\* The decompiler reads a prefix (Sfx86OpcodeDec_segover, _repetition, _lock).
LEMMA DecPrefixInv ==
    ASSUME IInv, Dec_prefix
    PROVE  IInv'
<1>1. Given /\ Given' /\ ExecType /\ DecType /\ ExecInv /\ DecInv
  BY CodeStays DEF IInv, Dec_prefix
<1>2. /\ StepLimit \in Nat \ {0} /\ PrefixCount \in Nat /\ origin \in 0..(Word - 1)
      /\ Word \in Nat \ {0}
  BY <1>1, Fields
<1>3. /\ exec.res # "decoding" /\ dec.res = "decoding" /\ dec.turn < PrefixCount
      /\ UNCHANGED <<code, origin, level, copro, exec>> /\ Reading(dec)
  BY <1>1 DEF Dec_prefix, DecInv
<1>4. /\ dec.turn + 1 \in 0..StepLimit /\ dec.turn + 1 <= PrefixCount /\ dec.next \in Nat
      /\ dec.next + 1 \in Nat /\ NoTarget \in NoTarget..(Word - 1)
  BY <1>1, <1>2, <1>3 DEF DecType, Reading, NoTarget
<1>u. ExecType' /\ ExecInv'
  BY <1>1, <1>3, CodeStays DEF ExecType, ExecInv, Reading, Took
<1>5. CASE dec.turn + 1 = StepLimit
  <2>1. dec' = [dec EXCEPT !.turn = dec.turn + 1, !.next = dec.next + 1,
                           !.target = NoTarget, !.res = "unknown"]
    <3>1. dec.next + 1 + 0 = dec.next + 1
      BY <1>4
    <3>. QED
      BY <1>5, <3>1 DEF Dec_prefix, Unlisted, DecTurn
  <2>2. DecType'
    BY <1>1, <1>4, <2>1 DEF DecType, Results
  <2>3. dec'.res = "unknown"
    BY <1>1, <2>1 DEF DecType
  <2>4. Spent
    BY <1>2, <1>4, <1>5 DEF Spent
  <2>5. DecInv'
    BY <1>3, <2>3, <2>4, CodeStays DEF DecInv
  <2>. QED
    BY <1>1, <1>u, <2>2, <2>5 DEF IInv
<1>6. CASE dec.turn + 1 # StepLimit
  <2>1. dec' = [dec EXCEPT !.turn = dec.turn + 1, !.next = dec.next + 1]
    BY <1>6 DEF Dec_prefix
  <2>2. DecType'
    BY <1>1, <1>4, <2>1 DEF DecType
  <2>3. /\ dec'.res = "decoding" /\ dec'.turn = dec.turn + 1 /\ dec'.next = dec.next + 1
        /\ dec'.target = NoTarget
    BY <1>1, <1>3, <2>1 DEF DecType, Reading
  <2>4. Reading(dec)'
    <3>1. origin' = origin /\ PrefixCount' = PrefixCount
      BY <1>3, CodeStays
    <3>2. dec.turn \in Nat /\ dec.turn + 1 < StepLimit
      BY <1>1, <1>2, <1>4, <1>6 DEF DecType
    <3>3. dec.next = origin + dec.turn
      BY <1>3 DEF Reading
    <3>. QED
      BY <1>2, <1>4, <2>3, <3>1, <3>2, <3>3 DEF Reading
  <2>5. DecInv'
    BY <2>3, <2>4 DEF DecInv
  <2>. QED
    BY <1>1, <1>u, <2>2, <2>5 DEF IInv
<1>. QED
  BY <1>5, <1>6

\* The decompiler looks up its opcode (softx86_decompile and every Sfx86OpcodeDec_*).
LEMMA DecOpcodeInv ==
    ASSUME IInv, DecDoes
    PROVE  IInv'
<1>1. Given /\ Given' /\ ExecType /\ DecType /\ ExecInv /\ DecInv
  BY CodeStays DEF IInv, DecDoes
<1>2. /\ StepLimit \in Nat \ {0} /\ PrefixCount \in Nat /\ origin \in 0..(Word - 1)
      /\ Word \in Nat \ {0}
  BY <1>1, Fields
<1>3. /\ dec.res = "decoding" /\ dec.turn = PrefixCount /\ dec.turn < StepLimit
      /\ UNCHANGED <<code, origin, level, copro, exec>>
  BY DEF DecDoes, AtOpcode
<1>4. dec.next = origin + PrefixCount
  BY <1>1, <1>3 DEF DecInv, Reading
<1>5. Spent <=> dec.turn + 1 = StepLimit
  BY <1>2, <1>3 DEF Spent
<1>6. DecReads \in Nat /\ \A n \in Int : To(n) \in NoTarget..(Word - 1)
  BY <1>1, ReadsNat, ToOffset
<1>7. dec.turn + 1 \in 0..StepLimit /\ dec.next \in Nat
  BY <1>2, <1>3, <1>4
<1>u. ExecType' /\ ExecInv'
  BY <1>1, <1>3, CodeStays DEF ExecType, ExecInv, Reading, Took
<1>8. PICK n \in Nat, r \in {"ok", "unknown"}, to \in NoTarget..(Word - 1) :
          /\ dec' = [dec EXCEPT !.turn = dec.turn + 1, !.next = dec.next + 1 + n,
                                !.target = to, !.res = r]
          /\ r = "unknown" <=> Spent \/ ~DecTakes
          /\ DecTakes => n = DecReads /\ to = To(dec.next + 1 + n)
  <2>1. CASE DecTakes
    <3>. DEFINE end == dec.next + 1 + DecReads
                res == IF Spent THEN "unknown" ELSE "ok"
    <3>1. To(end) \in NoTarget..(Word - 1)
      BY <1>6, <1>7
    <3>2. dec' = [dec EXCEPT !.turn = dec.turn + 1, !.next = end, !.target = To(end),
                             !.res = res]
      BY <1>5, <2>1 DEF DecDoes, DecTurn, Lists, ListsJump, To
    <3>3. res \in {"ok", "unknown"} /\ (res = "unknown" <=> Spent)
      OBVIOUS
    <3>. HIDE DEF res
    <3>. QED
      BY <1>6, <2>1, <3>1, <3>2, <3>3
  <2>2. CASE ~DecTakes
    <3>1. PICK n \in Nat : Unlisted(n)
      BY <1>6, <2>2 DEF DecDoes
    <3>2. dec' = [dec EXCEPT !.turn = dec.turn + 1, !.next = dec.next + 1 + n,
                             !.target = NoTarget, !.res = "unknown"]
      BY <3>1 DEF Unlisted, DecTurn
    <3>3. NoTarget \in NoTarget..(Word - 1)
      BY <1>2 DEF NoTarget
    <3>. QED
      BY <2>2, <3>2, <3>3
  <2>. QED
    BY <2>1, <2>2
<1>9. DecType'
  <2>1. dec.next + 1 + n \in Nat
    BY <1>7
  <2>. QED
    BY <1>1, <1>7, <1>8, <2>1 DEF DecType, Results
<1>10. dec'.res = r /\ dec'.next = dec.next + 1 + n /\ dec'.target = to
  BY <1>1, <1>8 DEF DecType
<1>11. ASSUME dec'.res = "ok"
       PROVE  Took(dec, DecReads)'
  <2>1. DecTakes /\ n = DecReads /\ to = To(dec.next + 1 + n)
    BY <1>8, <1>10, <1>11
  <2>. QED
    BY <1>2, <1>3, <1>4, <1>6, <1>10, <2>1, CodeStays DEF Took
<1>12. DecInv'
  BY <1>3, <1>8, <1>10, <1>11, CodeStays DEF DecInv
<1>. QED
  BY <1>1, <1>u, <1>9, <1>12 DEF IInv

\* Every step keeps the invariant.
LEMMA NextInv ==
    ASSUME IInv, [Next]_vars
    PROVE  IInv'
<1>1. Given /\ exec.next \in Nat
  BY DEF IInv, ExecType
<1>2. CASE softx86_step
  BY <1>1, <1>2, ExecPrefixInv, ExecLooksUp, ExecOpcodeInv
<1>3. CASE softx86_decompile
  BY <1>1, <1>3, DecPrefixInv, DecLooksUp, DecOpcodeInv
<1>4. CASE UNCHANGED vars
  <2>1. UNCHANGED <<code, origin, level, copro>> /\ UNCHANGED <<exec, dec>>
    BY <1>4 DEF vars
  <2>. QED
    BY <2>1, CodeStays DEF IInv, ExecType, DecType, ExecInv, DecInv, Reading, Took
<1>. QED
  BY <1>2, <1>3, <1>4 DEF Next

(***************************************************************************)
(* Both walkers do what their tables say, of every instruction.             *)
(***************************************************************************)
THEOREM DecodeInvariant == Spec => []IInv
  BY InitInv, NextInv, PTL DEF Spec

-----------------------------------------------------------------------------
(***************************************************************************)
(* The tables compared.                                                    *)
(***************************************************************************)
\* The coprocessor lists the ESC opcodes it executes.
LEMMA SameEscapes ==
    ASSUME Given, code.op \in \hD8..\hDF
    PROVE  softx87_exec <=> softx87_dec
<1>1. /\ softx87_exec <=>
            \/ code.op \in {\hD8, \hD9, \hDA, \hDC, \hDD, \hDE} /\ code.mod # 3 /\ code.reg = 0
            \/ code.op \in {\hD8, \hD9, \hDC, \hDD, \hDE} /\ code.mod = 3 /\ code.reg = 0
            \/ /\ code.op = \hD9 /\ code.mod = 3
               /\ <<code.reg, code.rm>> \in {<<2, 0>>, <<6, 6>>, <<6, 7>>}
            \/ code.op = \hDB /\ code.mod = 3 /\ code.reg = 4 /\ code.rm = 3
  BY DEF softx87_exec
<1>2. CASE code.op = \hD9
  BY <1>2 DEF softx87_exec, softx87_dec
<1>3. CASE code.op = \hD8
  BY <1>1, <1>3 DEF softx87_dec
<1>4. CASE code.op = \hDA
  BY <1>1, <1>4 DEF softx87_dec
<1>5. CASE code.op = \hDB
  BY <1>1, <1>5 DEF softx87_dec
<1>6. CASE code.op = \hDC
  BY <1>1, <1>6 DEF softx87_dec
<1>7. CASE code.op = \hDD
  BY <1>1, <1>7 DEF softx87_dec
<1>8. CASE code.op = \hDE
  BY <1>1, <1>8 DEF softx87_dec
<1>9. CASE code.op = \hDF
  BY <1>1, <1>9 DEF softx87_dec
<1>. QED
  BY <1>2, <1>3, <1>4, <1>5, <1>6, <1>7, <1>8, <1>9

\* The decompiler takes one thing more: a far jump or call through a register.
LEMMA SameTaken ==
    ASSUME Given
    PROVE  ExecTakes <=> DecTakes /\ ~FarFromRegister
  BY SameEscapes DEF ExecTakes, DecTakes

\* And both read as much, but for a segment register there is not.
LEMMA SameRead ==
    ASSUME Given
    PROVE  DecReads = ExecReads + (IF NoSuchSegment THEN DecDisp ELSE 0)
<1>1. /\ code.op \in 0..255 /\ code.mod \in 0..3 /\ code.reg \in 0..7
      /\ ExecRM = DecRM /\ DecRM = 1 + DecDisp /\ DecRM \in 1..3 /\ Imm \in 1..2
  BY Fields, SameDisp DEF DecRM
<1>2. DecDisp \in 0..2 /\ (code.mod = 3 => DecDisp = 0)
  BY <1>1 DEF DecDisp
<1>3. CASE code.op \in {\h8C, \h8E}
  BY <1>1, <1>2, <1>3 DEF ExecReads, DecReads, Reads, NoSuchSegment
<1>4. CASE code.op \notin {\h8C, \h8E}
  <2>1. \A rm, seg \in Int : Reads(rm, seg) = Reads(rm, rm)
    BY <1>1, <1>4 DEF Reads
  <2>. QED
    BY <1>1, <1>4, <2>1, ReadsNat DEF ExecReads, DecReads, NoSuchSegment
<1>. QED
  BY <1>3, <1>4

(***************************************************************************)
(* Types, for every instruction set and limit.                             *)
(***************************************************************************)
THEOREM TypeCorrect == Spec => []TypeOK
<1>1. IInv => TypeOK
  BY DEF IInv, Given, ExecType, DecType, TypeOK
<1>. QED
  BY <1>1, DecodeInvariant, PTL

(***************************************************************************)
(* The listing stays in step with the execution, whatever the prefixes, and  *)
(* across the end of the segment: an instruction that is executed has been   *)
(* listed with the bytes the executor read and the target it jumps to.       *)
(***************************************************************************)
THEOREM ListingCorrect == Spec => []ListingInStep
<1>1. ASSUME IInv, Both, exec.res = "ok"
      PROVE  /\ dec.res = "ok" /\ dec.target = exec.target
             /\ dec.next = exec.next + (IF NoSuchSegment THEN DecDisp ELSE 0)
  <2>1. Given /\ ExecInv /\ DecInv /\ DecType
    BY <1>1 DEF IInv
  <2>2. ~Spent /\ ExecTakes /\ DecTakes
    BY <1>1, <2>1, SameTaken DEF ExecInv, Both
  <2>3. dec.res = "ok"
    BY <1>1, <2>1, <2>2 DEF DecInv, DecType, Both, Results
  <2>4. Took(exec, ExecReads) /\ Took(dec, DecReads)
    BY <1>1, <2>1, <2>3 DEF ExecInv, DecInv
  <2>5. DecReads = ExecReads + (IF NoSuchSegment THEN DecDisp ELSE 0)
    BY <2>1, SameRead
  <2>6. ExecReads \in Nat /\ DecDisp \in Nat /\ PrefixCount \in Nat /\ origin \in Nat
    <3>1. DecDisp \in 0..2
      BY <2>1, SameDisp
    <3>2. PrefixCount \in Nat /\ origin \in 0..(Word - 1)
      BY <2>1, Fields
    <3>. QED
      BY <2>1, <3>1, <3>2, ReadsNat
  <2>7. dec.next = exec.next + (IF NoSuchSegment THEN DecDisp ELSE 0)
    BY <2>4, <2>5, <2>6 DEF Took
  <2>8. dec.target = exec.target
    <3>1. NoSuchSegment => ~Jump
      BY DEF NoSuchSegment, Jump
    <3>. QED
      BY <2>4, <2>6, <2>7, <3>1 DEF Took, To
  <2>. QED
    BY <2>3, <2>7, <2>8
<1>2. IInv => ListingInStep
  BY <1>1 DEF ListingInStep
<1>. QED
  BY <1>2, DecodeInvariant, PTL

(***************************************************************************)
(* Executor and decompiler accept the same instructions, on every CPU, but   *)
(* for the far jumps through a register and a second REP.                   *)
(***************************************************************************)
THEOREM AcceptCorrect == Spec => []AcceptTogether
<1>1. IInv => AcceptTogether
  BY SameTaken DEF IInv, ExecInv, DecInv, AcceptTogether, Both
<1>. QED
  BY <1>1, DecodeInvariant, PTL

\* An instruction outside Divergent is taken where instodo.txt lists it.
LEMMA TakesListed ==
    ASSUME Given, ~Divergent
    PROVE  ExecTakes <=> Listed
<1>1. code.op \in 0..255 /\ code.reg \in 0..7 /\ level \in {86, 186, 286}
  BY Fields
<1>2. code.op \notin {\hD7} \cup \hD8..\hDF /\ ~FarFromRegister
      /\ (code.op = \h62 => level # 86)
  BY <1>1 DEF Divergent
<1>. QED
  BY <1>1, <1>2 DEF ExecTakes, TakenByBoth, Listed

(***************************************************************************)
(* What is implemented, with any prefixes that fit, on the CPUs it is listed  *)
(* for and on no other.                                                    *)
(***************************************************************************)
THEOREM ImplementedCorrect == Spec => []AsImplemented
<1>1. ASSUME IInv, exec.res # "decoding", ~Divergent, ~RepRep, PrefixCount + 1 < StepLimit
      PROVE  exec.res # "unknown" <=> Listed
  <2>1. PrefixCount \in Nat /\ StepLimit \in Nat
    BY <1>1, Fields DEF IInv
  <2>2. ~Spent
    BY <1>1, <2>1 DEF Spent
  <2>. QED
    BY <1>1, <2>2, TakesListed DEF IInv, ExecInv
<1>2. IInv => AsImplemented
  BY <1>1 DEF AsImplemented
<1>. QED
  BY <1>2, DecodeInvariant, PTL

=============================================================================
