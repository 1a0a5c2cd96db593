----------------------------- MODULE MCConsole -----------------------------
(* An instance of Console for TLC: a screen of 3 by 2 cells, integers of 8, *)
(* 6 and 4 bits.                                                            *)
EXTENDS Console

D(specs, flags, widths, precisions, lengths, args) ==
    [spec : specs, flags : flags, width : widths, precision : precisions,
     length : lengths, arg : args]

\* Values with one and several digits, zero, and negative ones.
Values == {0, 8, 100, 255}

DecimalFlags == SUBSET {"LEFT", "PLUS", "SPACE", "ZEROPAD"}

OtherFlags == SUBSET {"LEFT", "HASH", "ZEROPAD"}

WithPrecision(flags) == {f \cup {"PRECISION"} : f \in flags}

SomeDirectives ==
    D({"d", "u"}, DecimalFlags, {0, 4}, {1}, {"none"}, Values)
    \cup D({"x", "X", "o"}, OtherFlags, {0, 4}, {1}, {"none"}, Values)
    \cup D({"d"}, WithPrecision(DecimalFlags), {0, 4}, {0, 3}, {"none"}, {0, 128})
    \cup D({"x"}, WithPrecision(OtherFlags), {0, 4}, {0, 3}, {"none"}, {0, 8})
    \cup D({"d", "x", "p"}, {{}}, {0}, {1}, {"hh", "h", "l", "ll", "z"}, Values \cup {-1})
    \cup D({"s"}, {{}, {"LEFT"}, {"PRECISION"}, {"LEFT", "PRECISION"}}, {0, 3},
           {-1, 0, 1, 4}, {"none"}, {<<>>, <<"a", "b">>})
    \cup D({"c"}, {{}, {"LEFT"}}, {0, 1, 3}, {1}, {"none"}, {"a"})
    \cup D({"%", "n", "q"}, {{}}, {0}, {1}, {"none"}, {0})

SomeLiterals == {"a", "\n"}

SomeStrings == {<<>>, <<"b", "\n", "c">>}
=============================================================================
