--------------------------- MODULE MCGenerations ---------------------------
(* Small programs for TLC: the constants of Generations, one group each.   *)
EXTENDS Generations, TLC

Interchangeable == Permutations(Pistons)

\* loop: a stem with two yields that also looks at a literal cell, which may
\* freeze before or after it, and at its own answer.
LoopCells    == {"base", "loop"}
LoopSlots    == {<<"base", "x">>, <<"loop", "x">>, <<"loop", "y">>}
LoopStems    == {"loop"}
LoopRequired == [base |-> {}, loop |-> {}]
LoopOptional == [base |-> {}, loop |-> {<<"base", "x">>, <<"loop", "x">>}]
=============================================================================
