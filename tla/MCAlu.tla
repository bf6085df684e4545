------------------------------- MODULE MCAlu -------------------------------
(***************************************************************************)
(* Softx86Alu on words of 12 bits, so that a double word is a number TLC    *)
(* can hold, and operands around the edges of the number ranges.           *)
(***************************************************************************)
EXTENDS Softx86Alu

Edges == [byte |-> {0, 1, 127, 128, 255}, word |-> {0, 1, 2047, 2048, 4095}]
More  == [byte |-> Edges["byte"] \cup {2, 15, 16, 129, 254},
          word |-> Edges["word"] \cup {16, 255, 2049, 4094}]

\* Operands in both registers of each pair, in the low ones, or with a count.
Pairs(v)  == [hi |-> Edges[v], lo |-> Edges[v], xhi |-> Edges[v], xlo |-> Edges[v]]
Single(v) == [hi |-> {0}, lo |-> More[v], xhi |-> {0}, xlo |-> More[v]]
Shifts(v) == [hi |-> {0}, lo |-> More[v], xhi |-> {0}, xlo |-> 0..18 \cup {32}]

SomeDigits == {0, 1, 5, 9}
PackedDigits == {16 * a + b : a \in {0, 9}, b \in {0, 4, 9}}

Decimal == [hi |-> PackedDigits, lo |-> PackedDigits, xhi |-> PackedDigits, xlo |-> PackedDigits]
PackedOne == [hi |-> {0}, lo |-> {16 * a + b : a, b \in 0..9}, xhi |-> {0},
              xlo |-> {16 * a + b : a, b \in {0, 1, 5, 8, 9}}]
Unpacked == [hi |-> SomeDigits, lo |-> 0..9, xhi |-> {0}, xlo |-> 0..9]

Program(name, v, start) == [name |-> name, w |-> v, start |-> start]

Any(v) ==
    { Program(name, v, Pairs(v)) : name \in {"wide add", "wide sub", "wide cmp", "wide neg",
                                              "wide shl", "wide shr", "wide sar", "div", "bound"} }
    \cup { Program(name, v, Single(v)) : name \in {"cmp cmc", "cmp", "test", "or", "rcl 3 rcr",
                                                    "swap", "mul div", "imul idiv", "cbw idiv"} }
    \cup { Program(name, v, Shifts(v)) : name \in {"rol ror", "rcl rcr", "shl shr", "sar by"} }

Bytes ==
    { Program("saved add", "byte", [Pairs("byte") EXCEPT !.hi = {0}]),
      Program("packed sub", "byte", Decimal), Program("packed add", "byte", PackedOne) }
    \cup { Program(name, "byte", Unpacked) : name \in {"unpacked add", "unpacked sub", "aad div",
                                                        "mul aam", "aam by"} }

MCPrograms == Any("byte") \cup Any("word") \cup Bytes

MCCarries == { Program(op, v, Single(v)) : op \in {"adc", "sbb"}, v \in Widths }

=============================================================================
