---------------------------- MODULE MCEvalEngine ----------------------------
(* Small programs for TLC: the constants of EvalEngine, one group each.    *)
EXTENDS EvalEngine, TLC

Interchangeable == Permutations(Pistons)

NoneOf(C) == [c \in C |-> 0]
NoGuards(C) == [c \in C |-> NoSlot]

\* chain: a literal cell and a soft cell with two yields that reads it.
ChainCells    == {"data", "sort"}
ChainSlots    == {<<"data", "x">>, <<"sort", "x">>, <<"sort", "y">>}
ChainKind     == [data |-> "literal", sort |-> "soft"]
ChainRequired == [data |-> {}, sort |-> {<<"data", "x">>}]
ChainNumbers  == NoneOf(ChainCells)
ChainGuards   == NoGuards(ChainCells)

\* pair: a literal cell and a literal cell that reads it.
PairCells    == {"base", "top"}
PairSlots    == {<<"base", "x">>, <<"top", "x">>}
PairKind     == [base |-> "literal", top |-> "literal"]
PairRequired == [base |-> {}, top |-> {<<"base", "x">>}]
PairNumbers  == NoneOf(PairCells)
PairGuards   == NoGuards(PairCells)

\* one: a single soft cell with one yield.
OneCells    == {"only"}
OneSlots    == {<<"only", "x">>}
OneKind     == [only |-> "soft"]
OneRequired == [only |-> {}]
OneNumbers  == NoneOf(OneCells)
OneGuards   == NoGuards(OneCells)

\* fetch: a sql: cell and a dml: cell that reads it.
FetchCells    == {"query", "report"}
FetchSlots    == {<<"query", "x">>, <<"report", "x">>}
FetchKind     == [query |-> "sql", report |-> "dml"]
FetchRequired == [query |-> {}, report |-> {<<"query", "x">>}]
FetchNumbers  == NoneOf(FetchCells)
FetchGuards   == NoGuards(FetchCells)

\* judged: two iterations with a guard, a judge of each, and a prebound seed.
\* The semantic oracle is the J-th of the cell: its judges carry the number J.
JudgedCells    == {"seed", "refine-1", "refine-2", "judge of 1", "judge of 2"}
JudgedSlots    == {<<c, "x">> : c \in JudgedCells} \cup {<<"seed", "y">>}
JudgedIterNo   == [c \in JudgedCells |->
                     CASE c = "refine-1" -> 1 [] c = "refine-2" -> 2 [] OTHER -> 0]
JudgedJudgeOf  == [c \in JudgedCells |->
                     CASE c = "judge of 1" -> 1 [] c = "judge of 2" -> 2 [] OTHER -> 0]
JudgedKind     == [c \in JudgedCells |->
                     CASE c = "seed" -> "literal"
                       [] JudgedJudgeOf[c] > 0 -> "stem"
                       [] OTHER -> "soft"]
JudgedRequired == [c \in JudgedCells |->
                     CASE c = "seed" -> {}
                       [] c = "refine-1" -> {<<"seed", "x">>}
                       [] c \in {"refine-2", "judge of 1"} -> {<<"refine-1", "x">>}
                       [] c = "judge of 2" -> {<<"refine-2", "x">>}]
JudgedFirst    == [c \in JudgedCells |->
                     IF JudgedJudgeOf[c] > 0 THEN 1 ELSE JudgedIterNo[c]]
JudgedSecond   == [c \in JudgedCells |->
                     IF JudgedJudgeOf[c] > 0 THEN 2 ELSE JudgedIterNo[c]]
JudgedGuards   == [c \in JudgedCells |->
                     IF JudgedIterNo[c] > 0 THEN <<c, "x">> ELSE NoSlot]
=============================================================================
