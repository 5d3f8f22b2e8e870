------------------------------- MODULE Alone -------------------------------
(***************************************************************************)
(* A program with one loop that a single piston evaluates: what the        *)
(* compiler (expandIteration, writeJudgeCells of src/cmd/ct/parse.go)      *)
(* makes of a loop with a given to chain and one prose assertion, and the  *)
(* circumstances in which checkGuardSkip does what it is meant to.  With   *)
(* a second piston, a killed one or a second prose assertion it does not.  *)
(***************************************************************************)
EXTENDS EvalEngine

Iterations == {c \in Cells : IterNo[c] > 0}
Judges == {c \in Cells : JudgeOf[c] > 0}

ASSUME OnePistonAssumption == (\E p \in Pistons : Pistons = {p}) /\ MaxCrashes = 0

\* The iterations are numbered 1..k, by the number their names end in.  Each
\* reads a yield of the one before, and only they have guards, on yields of
\* their own.
ASSUME LoopAssumption ==
  /\ {IterNo[c] : c \in Iterations} = 1..Cardinality(Iterations)
  /\ \A c, d \in Iterations :
       /\ IterNo[c] = IterNo[d] => c = d
       /\ IterNo[d] = IterNo[c] + 1 => \E s \in Required[d] : s[1] = c
  /\ \A c \in Iterations : c \notin Prebound \cup Judges /\ Suffix[c] = IterNo[c]
  /\ \A c \in Cells : GuardSlot[c] # NoSlot =>
       c \in Iterations /\ GuardSlot[c] \in SlotsOf(c)

\* An iteration has one judge: its name ends in -judge-1, and it reads nothing
\* but the yields of its iteration.
ASSUME JudgesAssumption ==
  \A d \in Judges :
    /\ Suffix[d] <= 1 /\ Kind[d] = "stem"
    /\ \A s \in Required[d] : IterNo[s[1]] = JudgeOf[d]
=============================================================================
