--------------------------- MODULE MCProcPlayCpu ---------------------------
(***************************************************************************)
(* ProcPlayCpu with 48 bytes of RAM, code and data from address 16 on: every   *)
(* text of at most two lines, and some of three, in two runs.              *)
(***************************************************************************)
EXTENDS ProcPlayCpu

Lines ==
    { << >>, <<\h40>>, <<\hB8, 255, 255>>, <<\hB9, 2, 0>>, <<\hBF, 31, 0>>,
      <<\hA3, 31, 0>>, <<\hA1, 31, 0>>, <<\hAA>>, <<\hF3, \hAA>>,
      <<\hEB, 254>>, <<\hEA, 14, 0, 2, 0>>, <<\h26, \h26, \hEA, 4, 0, 2, 0>>,
      <<\hF4>>, <<\h63>> }

Others ==
    { << <<\hB9, n, 0>>, <<\hBF, 24, 0>>, <<\hF3, \hAA>> >> : n \in 0..3 } \cup
    { << <<\hB8, 1, \h40>>, <<\hEB, 255>>, <<\h90>> >>, << <<\hF3, \hF3, \hAA>> >>,
      << <<\hA3, 44, 0>>, <<\hA1, 44, 0>> >>, << <<\h26, \h26, \h26, \h26>> >>,
      << <<\h26, \h26, \h40>>, <<\hA3, 3, 0>> >> }

MCSources == {<< >>} \cup { <<a>> : a \in Lines } \cup { <<a, b>> : a, b \in Lines } \cup Others

=============================================================================
