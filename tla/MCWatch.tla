------------------------------ MODULE MCWatch ------------------------------
(* A small display for TLC: two programs, three cells.                     *)
EXTENDS Watch

TwoPrograms == <<"p", "q">>
ThreeCells == <<"a", "b", "c">>
OfProgram == [a |-> "p", b |-> "p", c |-> "q"]
YieldCount == [a |-> 2, b |-> 0, c |-> 1]
\* the cells a and c have a value of two lines
LineCount == [a |-> 3, b |-> 0, c |-> 2]

\* while the cells are evaluated, which puts b before a; and after q was reset
Working == [a |-> "frozen", b |-> "computing", c |-> "frozen"]
OnlyP   == [a |-> "frozen", b |-> "frozen"]
Reads == {Working, OnlyP}

\* the first character typed selects two cells
Typing == <<{"a", "c"}>>
=============================================================================
