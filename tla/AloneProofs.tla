---------------------------- MODULE AloneProofs ----------------------------
(***************************************************************************)
(* What checkGuardSkip does of a loop of any length, for a single piston:  *)
(* when an iteration meets its guard, all later iterations are bottomed,   *)
(* and no judge but theirs.  The code counts: it bottoms the judges of as  *)
(* many iterations as it found siblings to bottom.  That this is right     *)
(* depends on everything the piston did before, for the later iterations   *)
(* must all still be declared.                                             *)
(***************************************************************************)
EXTENDS Alone, EvalEngineProofs, WellFoundedInduction

\* The only piston, the statement it runs next and its local variables.
worker == CHOOSE p \in Pistons : TRUE
here   == pc[worker]
local  == loc[worker]

Over(c) == state[c] \in {"frozen", "bottom"}

Computing  == {"litYields", "litCell", "sqlRun", "sqlNext", "think", "subCell",
               "subFrozen", "subWrite", "subFreeze", "subCount", "subDone"}
Evaluating == Computing \ {"litYields", "sqlRun"}
JustFrozen == {"subClaim", "guard", "later"}

Skipping == \/ here = "skip"
            \/ here \in Bottoming /\ local.ret = "skip"

\* The state of the cell at hand, and of those that wait to be bottomed.
AtHand ==
  LET l == here  r == local  c == r.at
  IN /\ l \in {"claim", "claimed", "mark"} => state[c] = "declared"
     /\ l \in Computing => state[c] = "computing"
     /\ l \in JustFrozen \cup {"litClaim"} => state[c] = "frozen"
     /\ l = "botCell" => state[c] \in {"declared", "computing"}
     /\ l \in {"botYields", "botClaim"} => state[c] = "bottom"
     /\ l \in Critical \cup JustFrozen \cup {"claim"} => r.ret # "skip"
     /\ Skipping => \A d \in r.batch : state[d] = "declared" /\ (l = "botCell" => d # c)
     /\ l = "sqlRun" => Kind[c] = "sql"
     /\ l = "think" => Kind[c] # "sql"

NoneFrozen(c) == \A s \in SlotsOf(c) : ~frozen[s]

\* A cell that is not over has nothing frozen, unless it is at hand.
Untouched ==
  \A c \in Cells : ~Over(c) /\ ~(here \in Evaluating /\ local.at = c) =>
    NoneFrozen(c)

\* The rejected answer of a query is rejected for every yield.
Hopeless(r) == Kind[r.at] = "sql" /\ r.ans = "bad"

\* What is still to submit is what is not frozen yet.
Submitted ==
  LET l == here  r == local
      open == {s \in SlotsOf(r.at) : ~frozen[s]}
  IN /\ l = "sqlRun" => r.todo = SlotsOf(r.at)
     /\ l \in Submitting => r.slot \in r.todo
     /\ l \in Submitting \cup {"sqlNext", "think"} =>
          IF Hopeless(r) THEN NoneFrozen(r.at)
          ELSE r.todo = open /\ (r.todo = {} => SlotsOf(r.at) = {})
     /\ l = "subFreeze" => ~Hopeless(r)
     /\ l = "subCount" => ~Hopeless(r) /\ r.todo \ {r.slot} = open
     /\ l = "litCell" => \A s \in SlotsOf(r.at) : frozen[s] /\ value[s] = "literal"

\* The iterations are evaluated in their order ...
InOrder ==
  \A c, d \in Iterations :
    IterNo[c] < IterNo[d] /\ state[d] # "declared" => Over(c)

\* ... and until the guard is met.
GuardObeyed(n) ==
  \A c, d \in Iterations :
    IterNo[c] < IterNo[d] /\ IterNo[d] <= n /\ state[c] = "frozen" /\ GuardMet(c) =>
      state[d] = "bottom"

\* Between two skips: nothing follows the iteration that was just frozen, and
\* all is over before the one that is given up.
Looping ==
  LET r == local
  IN /\ InOrder
     /\ here \in JustFrozen /\ r.at \in Iterations =>
          \A d \in Iterations : IterNo[d] > IterNo[r.at] => state[d] = "declared"
     /\ here = "later" => r.at \in Iterations
     /\ here = "botCell" /\ r.at \in Iterations =>
          \A c \in Iterations : IterNo[c] < IterNo[r.at] => Over(c)
     /\ \A c, d \in Iterations :
          IterNo[c] < IterNo[d] /\ state[c] = "frozen" /\ GuardMet(c) =>
            state[d] = "bottom" \/ (here \in JustFrozen /\ r.at = c)

\* During the skip after iteration n.
SkippingAfter(n) ==
  LET r == local
  IN /\ GuardObeyed(n)
     /\ \A d \in Iterations :
          IF IterNo[d] <= n THEN Over(d)
          ELSE state[d] = "bottom" \/ d \in r.batch \/ (here = "botCell" /\ r.at = d)
     /\ \A d \in r.batch \cap Iterations : IterNo[d] > n
     /\ here \in Bottoming /\ r.at \in Iterations => IterNo[r.at] > n
     /\ \A m \in r.iters : m > n /\ \E d \in Iterations : IterNo[d] = m

LoopInv == IF Skipping THEN \E n \in Nat : SkippingAfter(n) ELSE Looping

\* The iteration a judge is to judge is bottomed.
Orphan(d) == \E c \in Iterations : IterNo[c] = JudgeOf[d] /\ state[c] = "bottom"

JudgeInv ==
  /\ \A d \in Judges : state[d] = "bottom" => Orphan(d)
  /\ here = "botCell" /\ local.at \in Judges => Orphan(local.at)
  /\ Skipping => \A d \in Judges \cap local.batch : Orphan(d)

AloneInv == AtHand /\ Untouched /\ Submitted /\ LoopInv /\ JudgeInv

-----------------------------------------------------------------------------
(* Steps.                                                                  *)

\* There is one piston, and nobody dies.
LEMMA OnlyWorker == worker \in Pistons /\ \A p \in Pistons : p = worker
BY OnePistonAssumption DEF worker

Base == TypeOK /\ Controlled /\ DataInv

Acts == PistonStep(worker) \/ ReleaseAll(worker)

\* A step of the program, without a crash.
LEMMA StepOf ==
  ASSUME Base, [Next]_vars
  PROVE  \/ Acts
         \/ UNCHANGED <<pc, loc, state, value, frozen>>
<1>1. ASSUME NEW p \in Pistons, PistonStep(p) \/ ReleaseAll(p) \/ Crash(p) PROVE Acts
  <2>1. ~Crash(p)
    BY OnePistonAssumption DEF Crash, Base, TypeOK
  <2> QED BY <1>1, <2>1, OnlyWorker DEF Acts
<1>2. CASE Lapse
  BY <1>2 DEF Lapse, TimePasses
<1>3. CASE UNCHANGED vars
  BY <1>3 DEF vars, tables
<1> QED BY <1>1, <1>2, <1>3 DEF Next

-----------------------------------------------------------------------------
(* What each statement does, in terms of the worker alone.                 *)

To(l, r) == here' = l /\ local' = r

Still     == UNCHANGED <<state, frozen, value>>
CellsStay == UNCHANGED state
SlotsStay == UNCHANGED <<frozen, value>>

\* What Return does of replSubmit.
Returns ==
  To(IF Kind[local.at] = "sql" THEN "sqlNext" ELSE "think",
     [local EXCEPT !.todo = @ \ {local.slot}])

\* Cells that were being computed are declared again.
SetBack(C) ==
  \A c \in Cells : \/ state'[c] = state[c]
                   \/ c \in C /\ state[c] = "computing" /\ state'[c] = "declared"

\* A set of numbers that is not empty has a least element.
LEMMA MinOfNumbers ==
  ASSUME NEW T \in SUBSET Nat, T # {}
  PROVE  Min(T) \in T
<1> DEFINE R == OpToRel(<, Nat)
<1>1. IsWellFoundedOn(R, Nat)
  BY NatLessThanWellFounded
<1>2. \A x, y \in Nat : y < x => <<y, x>> \in R
  BY DEF OpToRel
<1> HIDE DEF R
<1>3. PICK x \in T : \A y \in T : <<y, x>> \notin R
  BY <1>1, WFMin
<1>4. ASSUME NEW y \in T PROVE x <= y
  <2>1. x \in Nat /\ y \in Nat
    OBVIOUS
  <2>2. ~(y < x)
    BY <2>1, <1>2, <1>3
  <2> QED BY <2>1, <2>2
<1> QED BY <1>4 DEF Min

\* The effect of ReapCells.
LEMMA ReapCellsMoves ==
  ASSUME Base, ReapCells(worker)
  PROVE  /\ here = "idle" /\ To("reapClaims", local)
         /\ SlotsStay /\ SetBack(Cells)
BY OnlyWorker
   DEF ReapCells, ReapStaleCells, SetBack, Base, TypeOK, TablesTypeOK, Goto, Leave, tables,
       here, local, To, Still, CellsStay, SlotsStay

\* The effect of ReapClaims.
LEMMA ReapClaimsMoves ==
  ASSUME Base, ReapClaims(worker)
  PROVE  here = "reapClaims" /\ To("find", local) /\ Still
BY OnlyWorker
   DEF ReapClaims, DeleteClaims, Base, TypeOK, TablesTypeOK, Goto, Leave, tables,
       here, local, To, Still, CellsStay, SlotsStay

\* The effect of FindReady.
LEMMA FindReadyMoves ==
  ASSUME Base, FindReady(worker)
  PROVE  /\ here = "find" /\ Still
         /\ \E c \in Cells : state[c] = "declared" /\ To("claim", [NoLocals EXCEPT !.at = c])
BY OnlyWorker
   DEF FindReady, Findable, Ready, Base, TypeOK, TablesTypeOK, Goto, Leave, tables,
       here, local, To, Still, CellsStay, SlotsStay

\* The effect of Quiescent.
LEMMA QuiescentMoves ==
  ASSUME Base, Quiescent(worker)
  PROVE  here = "find" /\ To("idle", NoLocals) /\ Still
BY OnlyWorker
   DEF Quiescent, Base, TypeOK, TablesTypeOK, Goto, Leave, tables,
       here, local, To, Still, CellsStay, SlotsStay

\* The effect of ClaimWon.
LEMMA ClaimWonMoves ==
  ASSUME Base, ClaimWon(worker)
  PROVE  here = "claim" /\ To("claimed", local) /\ Still
BY OnlyWorker
   DEF ClaimWon, InsertClaim, Base, TypeOK, TablesTypeOK, Goto, Leave, tables,
       here, local, To, Still, CellsStay, SlotsStay

\* The effect of ClaimLost.
LEMMA ClaimLostMoves ==
  ASSUME Base, ClaimLost(worker)
  PROVE  here = "claim" /\ To("find", NoLocals) /\ Still
BY OnlyWorker
   DEF ClaimLost, Base, TypeOK, TablesTypeOK, Goto, Leave, tables,
       here, local, To, Still, CellsStay, SlotsStay

\* The effect of CheckInputs.
LEMMA CheckInputsMoves ==
  ASSUME Base, CheckInputs(worker)
  PROVE  /\ here = "claimed" /\ local' = local /\ Still
         /\ here' = IF Poisoned(local.at) THEN "botCell" ELSE "mark"
BY OnlyWorker
   DEF CheckInputs, Base, TypeOK, TablesTypeOK, Goto, Leave, tables,
       here, local, To, Still, CellsStay, SlotsStay

\* The effect of Mark.
LEMMA MarkMoves ==
  ASSUME Base, Mark(worker)
  PROVE  /\ here = "mark" /\ here' = Dispatch[Kind[local.at]]
         /\ SlotsStay /\ state' = [state EXCEPT ![local.at] = "computing"]
         /\ local' = IF Kind[local.at] = "dml" THEN NoLocals
                   ELSE [local EXCEPT !.todo = SlotsOf(local.at)]
BY OnlyWorker
   DEF Mark, SetCell, Base, TypeOK, TablesTypeOK, Goto, Leave, tables,
       here, local, To, Still, CellsStay, SlotsStay

\* The effect of LiteralYields.
LEMMA LiteralYieldsMoves ==
  ASSUME Base, LiteralYields(worker)
  PROVE  /\ here = "litYields" /\ To("litCell", local)
         /\ CellsStay /\ FreezeLiteral(local.at)
BY OnlyWorker
   DEF LiteralYields, FreezeLiteral, Base, TypeOK, TablesTypeOK, Goto, Leave, tables,
       here, local, To, Still, CellsStay, SlotsStay

\* The effect of LiteralCell.
LEMMA LiteralCellMoves ==
  ASSUME Base, LiteralCell(worker)
  PROVE  /\ here = "litCell" /\ To("litClaim", local)
         /\ SlotsStay /\ state' = [state EXCEPT ![local.at] = "frozen"]
BY OnlyWorker
   DEF LiteralCell, SetCell, Base, TypeOK, TablesTypeOK, Goto, Leave, tables,
       here, local, To, Still, CellsStay, SlotsStay

\* The effect of LiteralClaim.
LEMMA LiteralClaimMoves ==
  ASSUME Base, LiteralClaim(worker)
  PROVE  here = "litClaim" /\ To("idle", NoLocals) /\ Still
BY OnlyWorker
   DEF LiteralClaim, DeleteClaims, Base, TypeOK, TablesTypeOK, Goto, Leave, tables,
       here, local, To, Still, CellsStay, SlotsStay

\* The effect of SqlSucceeds.
LEMMA SqlSucceedsMoves ==
  ASSUME Base, SqlSucceeds(worker)
  PROVE  /\ here = "sqlRun" /\ here' = "sqlNext" /\ Still
         /\ \E v \in Answers : local' = [local EXCEPT !.ans = v]
BY OnlyWorker
   DEF SqlSucceeds, Base, TypeOK, TablesTypeOK, Goto, Leave, tables,
       here, local, To, Still, CellsStay, SlotsStay

\* The effect of SqlFails.
LEMMA SqlFailsMoves ==
  ASSUME Base, SqlFails(worker)
  PROVE  /\ here = "sqlRun" /\ here' \in {"botCell", "relClaim"} /\ Still
         /\ local' = [local EXCEPT !.ret = "find"]
BY OnlyWorker
   DEF SqlFails, Base, TypeOK, TablesTypeOK, Goto, Leave, tables,
       here, local, To, Still, CellsStay, SlotsStay

\* The effect of SqlSubmits.
LEMMA SqlSubmitsMoves ==
  ASSUME Base, SqlSubmits(worker)
  PROVE  /\ here = "sqlNext" /\ Still
         /\ \/ local.todo = {} /\ To("idle", NoLocals)
            \/ \E s \in local.todo : To("subCell", [local EXCEPT !.slot = s])
BY OnlyWorker
   DEF SqlSubmits, Base, TypeOK, TablesTypeOK, Goto, Leave, tables,
       here, local, To, Still, CellsStay, SlotsStay

\* The effect of LlmSubmits.
LEMMA LlmSubmitsMoves ==
  ASSUME Base, LlmSubmits(worker)
  PROVE  /\ here = "think" /\ Still
         /\ \/ local.todo = {} /\ To("idle", NoLocals)
            \/ /\ here' = "subCell" /\ local'.slot \in local.todo
               /\ local'.at = local.at /\ local'.todo = local.todo /\ local'.ret = local.ret
<1> USE OnlyWorker DEF Base, TypeOK, Goto, Leave, tables, here, local, To, Still, Locals
<1>1. ASSUME NEW s \in local.todo, NEW v \in Answers, Goto(worker, "subCell"),
             loc' = [loc EXCEPT ![worker].slot = s, ![worker].ans = v]
      PROVE  /\ here' = "subCell" /\ local'.slot = s
             /\ local'.at = local.at /\ local'.todo = local.todo /\ local'.ret = local.ret
  BY <1>1
<1>2. CASE local.todo = {} /\ Leave(worker)
  BY <1>2, LlmSubmits(worker) DEF LlmSubmits
<1> QED BY <1>1, <1>2 DEF LlmSubmits

\* The effect of SubmitCell.
LEMMA SubmitCellMoves ==
  ASSUME Base, SubmitCell(worker)
  PROVE  /\ here = "subCell" /\ Still
         /\ IF state[local.at] = "computing" THEN To("subFrozen", local) ELSE Returns
BY OnlyWorker
   DEF SubmitCell, Return, Returns, Base, TypeOK, TablesTypeOK, Goto, Leave, tables,
       here, local, To, Still, CellsStay, SlotsStay

\* The effect of SubmitFrozen.
LEMMA SubmitFrozenMoves ==
  ASSUME Base, SubmitFrozen(worker)
  PROVE  /\ here = "subFrozen" /\ Still
         /\ IF frozen[local.slot] THEN Returns ELSE To("subWrite", local)
BY OnlyWorker
   DEF SubmitFrozen, Return, Returns, Base, TypeOK, TablesTypeOK, Goto, Leave, tables,
       here, local, To, Still, CellsStay, SlotsStay

\* The effect of SubmitWrite.
LEMMA SubmitWriteMoves ==
  ASSUME Base, SubmitWrite(worker)
  PROVE  /\ here = "subWrite" /\ CellsStay /\ UNCHANGED frozen
         /\ \A s \in Slots : s # local.slot => value'[s] = value[s]
         /\ IF local.ans # "bad" THEN To("subFreeze", local)
            ELSE IF Kind[local.at] = "sql" THEN Returns ELSE To("think", local)
BY OnlyWorker
   DEF SubmitWrite, WriteSlot, Return, Returns, Base, TypeOK, TablesTypeOK, Goto, Leave, tables,
       here, local, To, Still, CellsStay, SlotsStay

\* The effect of SubmitFreeze.
LEMMA SubmitFreezeMoves ==
  ASSUME Base, SubmitFreeze(worker)
  PROVE  /\ here = "subFreeze" /\ To("subCount", local) /\ CellsStay
         /\ frozen' = [frozen EXCEPT ![local.slot] = TRUE] /\ value' = value
BY OnlyWorker
   DEF SubmitFreeze, FreezeSlot, Base, TypeOK, TablesTypeOK, Goto, Leave, tables,
       here, local, To, Still, CellsStay, SlotsStay

\* The effect of SubmitCount.
LEMMA SubmitCountMoves ==
  ASSUME Base, SubmitCount(worker)
  PROVE  /\ here = "subCount" /\ Still
         /\ IF AllFrozen(local.at) THEN To("subDone", local) ELSE Returns
BY OnlyWorker
   DEF SubmitCount, Return, Returns, Base, TypeOK, TablesTypeOK, Goto, Leave, tables,
       here, local, To, Still, CellsStay, SlotsStay

\* The effect of SubmitDone.
LEMMA SubmitDoneMoves ==
  ASSUME Base, SubmitDone(worker)
  PROVE  /\ here = "subDone" /\ To("subClaim", local)
         /\ SlotsStay /\ state' = [state EXCEPT ![local.at] = "frozen"]
BY OnlyWorker
   DEF SubmitDone, SetCell, Base, TypeOK, TablesTypeOK, Goto, Leave, tables,
       here, local, To, Still, CellsStay, SlotsStay

\* The effect of SubmitClaim.
LEMMA SubmitClaimMoves ==
  ASSUME Base, SubmitClaim(worker)
  PROVE  here = "subClaim" /\ To("guard", [local EXCEPT !.todo = {}]) /\ Still
BY OnlyWorker
   DEF SubmitClaim, DeleteClaims, Base, TypeOK, TablesTypeOK, Goto, Leave, tables,
       here, local, To, Still, CellsStay, SlotsStay

\* The effect of Guard.
LEMMA GuardMoves ==
  ASSUME Base, Guard(worker)
  PROVE  /\ here = "guard" /\ Still
         /\ IF GuardMet(local.at) THEN To("later", local) ELSE To("idle", NoLocals)
BY OnlyWorker
   DEF Guard, Base, TypeOK, TablesTypeOK, Goto, Leave, tables,
       here, local, To, Still, CellsStay, SlotsStay

\* The effect of Later.
LEMMA LaterMoves ==
  ASSUME Base, Later(worker)
  PROVE  /\ here = "later" /\ here' = "skip" /\ Still
         /\ local'.batch = LaterSiblings(local.at) /\ local'.ret = "skip"
         /\ local'.iters =
              SkippedIterations(local.at, Cardinality(LaterSiblings(local.at)))
BY OnlyWorker
   DEF Later, Base, TypeOK, TablesTypeOK, Goto, Leave, tables,
       here, local, To, Still, CellsStay, SlotsStay, Locals, NoLocals

\* The effect of SkipNext.
LEMMA SkipNextMoves ==
  ASSUME Base, SkipNext(worker)
  PROVE  /\ here = "skip" /\ here' = "botCell" /\ Still
         /\ local'.at \in local.batch /\ local'.batch = local.batch \ {local'.at}
         /\ local'.ret = local.ret /\ local'.iters = local.iters
BY OnlyWorker
   DEF SkipNext, Base, TypeOK, TablesTypeOK, Goto, Leave, tables,
       here, local, To, Still, CellsStay, SlotsStay, Locals, NoLocals

\* The effect of SkipJudges.
LEMMA SkipJudgesMoves ==
  ASSUME Base, SkipJudges(worker)
  PROVE  /\ here = "skip" /\ local.batch = {} /\ Still
         /\ \/ local.iters = {} /\ To("idle", NoLocals)
            \/ /\ here' = "skip" /\ local'.ret = local.ret
               /\ \E n \in local.iters :
                    /\ local'.iters = local.iters \ {n}
                    /\ local'.batch = {d \in Cells : JudgeOf[d] = n /\ state[d] = "declared"}
<1>1. local \in Locals /\ local.iters \in SUBSET Nat
  BY OnlyWorker DEF Base, TypeOK, local, Locals
<1>2. local.iters # {} => Min(local.iters) \in local.iters
  BY <1>1, MinOfNumbers, Zenon
<1> QED
  BY OnlyWorker, <1>1, <1>2
     DEF SkipJudges, Base, TypeOK, TablesTypeOK, Goto, Leave, tables, here, local, To, Still,
         Locals

\* The effect of BottomCell.
LEMMA BottomCellMoves ==
  ASSUME Base, BottomCell(worker)
  PROVE  /\ here = "botCell" /\ To("botYields", local)
         /\ SlotsStay /\ state' = [state EXCEPT ![local.at] = "bottom"]
BY OnlyWorker
   DEF BottomCell, SetBottom, Base, TypeOK, TablesTypeOK, Goto, Leave, tables,
       here, local, To, Still, CellsStay, SlotsStay

\* The effect of BottomYields.
LEMMA BottomYieldsMoves ==
  ASSUME Base, BottomYields(worker)
  PROVE  /\ here = "botYields" /\ To("botClaim", local)
         /\ CellsStay /\ BottomSlots(local.at)
BY OnlyWorker
   DEF BottomYields, BottomSlots, Base, TypeOK, TablesTypeOK, Goto, Leave, tables,
       here, local, To, Still, CellsStay, SlotsStay

\* The effect of BottomClaim.
LEMMA BottomClaimMoves ==
  ASSUME Base, BottomClaim(worker)
  PROVE  here = "botClaim" /\ To(local.ret, local) /\ Still
BY OnlyWorker
   DEF BottomClaim, DeleteClaims, Base, TypeOK, TablesTypeOK, Goto, Leave, tables,
       here, local, To, Still, CellsStay, SlotsStay

\* The effect of ReleaseNext.
LEMMA ReleaseNextMoves ==
  ASSUME Base, ReleaseNext(worker)
  PROVE  /\ here = "release" /\ Still
         /\ \/ here' = "relClaim" /\ local'.ret = local.ret
            \/ To(local.ret, NoLocals)
<1> USE OnlyWorker DEF Base, TypeOK, Goto, tables, here, local, To, Still, Locals
<1>1. ASSUME NEW c \in local.batch, Goto(worker, "relClaim"),
             loc' = [loc EXCEPT ![worker].at = c, ![worker].batch = @ \ {c}]
      PROVE  here' = "relClaim" /\ local'.ret = local.ret
  BY <1>1
<1>2. CASE Goto(worker, local.ret) /\ loc' = [loc EXCEPT ![worker] = NoLocals]
  BY <1>2, ReleaseNext(worker) DEF ReleaseNext
<1> QED BY <1>1, <1>2 DEF ReleaseNext

\* The effect of ReleaseClaim.
LEMMA ReleaseClaimMoves ==
  ASSUME Base, ReleaseClaim(worker)
  PROVE  here = "relClaim" /\ To("relCell", local) /\ Still
BY OnlyWorker
   DEF ReleaseClaim, DeleteClaims, Base, TypeOK, TablesTypeOK, Goto, Leave, tables,
       here, local, To, Still, CellsStay, SlotsStay

\* The effect of ReleaseCell.
LEMMA ReleaseCellMoves ==
  ASSUME Base, ReleaseCell(worker)
  PROVE  /\ here = "relCell" /\ To("relTrace", local)
         /\ SlotsStay /\ SetBack({local.at})
BY OnlyWorker
   DEF ReleaseCell, ResetIfComputing, SetBack, Base, TypeOK, TablesTypeOK, Goto, Leave, tables,
       here, local, To, Still, CellsStay, SlotsStay

\* The effect of ReleaseTrace.
LEMMA ReleaseTraceMoves ==
  ASSUME Base, ReleaseTrace(worker)
  PROVE  here = "relTrace" /\ To("release", local) /\ Still
BY OnlyWorker
   DEF ReleaseTrace, TraceRelease, Base, TypeOK, TablesTypeOK, Goto, Leave, tables,
       here, local, To, Still, CellsStay, SlotsStay

\* The effect of ReleaseAll.
LEMMA ReleaseAllMoves ==
  ASSUME Base, ReleaseAll(worker)
  PROVE  here = "idle" /\ here' = "release" /\ Still
BY OnlyWorker
   DEF ReleaseAll, Base, TypeOK, TablesTypeOK, Goto, Leave, tables,
       here, local, To, Still, CellsStay, SlotsStay, Locals, NoLocals

-----------------------------------------------------------------------------
(* The invariant step by step.                                             *)

\* The worker has the types and the control that all pistons have.
LEMMA WorkerTyped ==
  ASSUME Base
  PROVE  /\ here \in Labels /\ local \in Locals /\ ControlOf(here, local)
         /\ state \in [Cells -> States]
         /\ value \in [Slots -> Values] /\ frozen \in [Slots -> BOOLEAN]
BY OnlyWorker DEF Base, TypeOK, TablesTypeOK, Controlled, here, local

\* The cell at hand is in the state its label says.
LEMMA AtHandStep ==
  ASSUME Base, AtHand, Submitted, Acts
  PROVE  AtHand'
<1> USE WorkerTyped DEF To, Still, CellsStay, SlotsStay, Locals, ControlOf, Nowhere, NoLocals,
        AtHand, Skipping, Computing, JustFrozen, Bottoming, Critical
<1>1. CASE ReapCells(worker)  BY <1>1, ReapCellsMoves
<1>2. CASE ReapClaims(worker)  BY <1>2, ReapClaimsMoves
<1>3. CASE FindReady(worker)  BY <1>3, FindReadyMoves
<1>4. CASE Quiescent(worker)  BY <1>4, QuiescentMoves
<1>5. CASE ClaimWon(worker)  BY <1>5, ClaimWonMoves
<1>6. CASE ClaimLost(worker)  BY <1>6, ClaimLostMoves
<1>7. CASE CheckInputs(worker)  BY <1>7, CheckInputsMoves
<1>8. CASE Mark(worker)
  <2>1. local.at \in Cells /\ Kind[local.at] \in Kinds /\ local.ret # "skip"
    BY <1>8, MarkMoves, RetortAssumption
  <2>2. here' \in {"litYields", "sqlRun", "think", "idle"} /\ local'.ret # "skip"
    BY <1>8, <2>1, MarkMoves DEF Dispatch, Kinds
  <2>3. here' # "idle" => local'.at = local.at /\ state'[local.at] = "computing"
    BY <1>8, <2>1, MarkMoves DEF Dispatch, Kinds
  <2>4. /\ here' = "sqlRun" => Kind[local.at] = "sql"
        /\ here' = "think" => Kind[local.at] # "sql"
    BY <1>8, <2>1, MarkMoves DEF Dispatch, Kinds
  <2> QED BY <2>2, <2>3, <2>4
<1>9. CASE LiteralYields(worker)  BY <1>9, LiteralYieldsMoves
<1>10. CASE LiteralCell(worker)  BY <1>10, LiteralCellMoves
<1>11. CASE LiteralClaim(worker)  BY <1>11, LiteralClaimMoves
<1>12. CASE SqlSucceeds(worker)  BY <1>12, SqlSucceedsMoves
<1>13. CASE SqlFails(worker)  BY <1>13, SqlFailsMoves
<1>14. CASE SqlSubmits(worker)  BY <1>14, SqlSubmitsMoves
<1>15. CASE LlmSubmits(worker)  BY <1>15, LlmSubmitsMoves
<1>16. CASE SubmitCell(worker)  BY <1>16, SubmitCellMoves
<1>17. CASE SubmitFrozen(worker)
  BY <1>17, SubmitFrozenMoves DEF Returns
<1>18. CASE SubmitWrite(worker)
  BY <1>18, SubmitWriteMoves DEF Returns
<1>19. CASE SubmitFreeze(worker)  BY <1>19, SubmitFreezeMoves
<1>20. CASE SubmitCount(worker)
  BY <1>20, SubmitCountMoves DEF Returns
<1>21. CASE SubmitDone(worker)  BY <1>21, SubmitDoneMoves
<1>22. CASE SubmitClaim(worker)  BY <1>22, SubmitClaimMoves
<1>23. CASE Guard(worker)  BY <1>23, GuardMoves
<1>24. CASE Later(worker)
  BY <1>24, LaterMoves DEF LaterSiblings
<1>25. CASE SkipNext(worker)  BY <1>25, SkipNextMoves
<1>26. CASE SkipJudges(worker)
  <2>1. CASE To("idle", NoLocals)
    BY <2>1
  <2>2. CASE here' = "skip"
    BY <1>26, <2>2, SkipJudgesMoves
  <2> QED BY <1>26, <2>1, <2>2, SkipJudgesMoves
<1>27. CASE BottomCell(worker)  BY <1>27, BottomCellMoves
<1>28. CASE BottomYields(worker)  BY <1>28, BottomYieldsMoves
<1>29. CASE BottomClaim(worker)  BY <1>29, BottomClaimMoves
<1>30. CASE ReleaseNext(worker)
  BY <1>30, ReleaseNextMoves DEF Releasing
<1>31. CASE ReleaseClaim(worker)  BY <1>31, ReleaseClaimMoves
<1>32. CASE ReleaseCell(worker)  BY <1>32, ReleaseCellMoves
<1>33. CASE ReleaseTrace(worker)  BY <1>33, ReleaseTraceMoves
<1>34. CASE ReleaseAll(worker)  BY <1>34, ReleaseAllMoves
<1> QED
  BY <1>1, <1>2, <1>3, <1>4, <1>5, <1>6, <1>7, <1>8, <1>9, <1>10, <1>11,
     <1>12, <1>13, <1>14, <1>15, <1>16, <1>17, <1>18, <1>19, <1>20,
     <1>21, <1>22, <1>23, <1>24, <1>25, <1>26, <1>27, <1>28, <1>29,
     <1>30, <1>31, <1>32, <1>33, <1>34
     DEF Acts, PistonStep, EvalStep, Submit, GiveUp

\* Only a cell that is over, or at hand, has something frozen.
LEMMA UntouchedStep ==
  ASSUME Base, AtHand, Untouched, Submitted, Acts
  PROVE  Untouched'
<1> USE WorkerTyped DEF To, Still, CellsStay, SlotsStay, ControlOf, Nowhere, Untouched, Over,
        NoneFrozen, Computing, Evaluating
<1>1. CASE ReapCells(worker)
  BY <1>1, ReapCellsMoves DEF SetBack
<1>2. CASE ReapClaims(worker)  BY <1>2, ReapClaimsMoves
<1>3. CASE FindReady(worker)  BY <1>3, FindReadyMoves
<1>4. CASE Quiescent(worker)  BY <1>4, QuiescentMoves
<1>5. CASE ClaimWon(worker)  BY <1>5, ClaimWonMoves
<1>6. CASE ClaimLost(worker)  BY <1>6, ClaimLostMoves
<1>7. CASE CheckInputs(worker)  BY <1>7, CheckInputsMoves
<1>8. CASE Mark(worker)
  BY <1>8, MarkMoves DEF AtHand
<1>9. CASE LiteralYields(worker)
  BY <1>9, LiteralYieldsMoves DEF FreezeLiteral, SlotsOf
<1>10. CASE LiteralCell(worker)
  BY <1>10, LiteralCellMoves
<1>11. CASE LiteralClaim(worker)  BY <1>11, LiteralClaimMoves
<1>12. CASE SqlSucceeds(worker)  BY <1>12, SqlSucceedsMoves
<1>13. CASE SqlFails(worker)  BY <1>13, SqlFailsMoves
<1>14. CASE SqlSubmits(worker)
  BY <1>14, SqlSubmitsMoves DEF Locals, Submitted, Submitting, Hopeless
<1>15. CASE LlmSubmits(worker)
  BY <1>15, LlmSubmitsMoves DEF Locals, Submitted, Submitting, Hopeless
<1>16. CASE SubmitCell(worker)
  BY <1>16, SubmitCellMoves DEF Returns, Locals
<1>17. CASE SubmitFrozen(worker)
  BY <1>17, SubmitFrozenMoves DEF Returns, Locals
<1>18. CASE SubmitWrite(worker)
  BY <1>18, SubmitWriteMoves DEF Returns, Locals
<1>19. CASE SubmitFreeze(worker)
  BY <1>19, SubmitFreezeMoves DEF Locals, SlotsOf, Submitting
<1>20. CASE SubmitCount(worker)
  BY <1>20, SubmitCountMoves DEF Returns, Locals
<1>21. CASE SubmitDone(worker)
  BY <1>21, SubmitDoneMoves
<1>22. CASE SubmitClaim(worker)  BY <1>22, SubmitClaimMoves
<1>23. CASE Guard(worker)  BY <1>23, GuardMoves
<1>24. CASE Later(worker)  BY <1>24, LaterMoves
<1>25. CASE SkipNext(worker)  BY <1>25, SkipNextMoves
<1>26. CASE SkipJudges(worker)  BY <1>26, SkipJudgesMoves
<1>27. CASE BottomCell(worker)
  BY <1>27, BottomCellMoves
<1>28. CASE BottomYields(worker)
  BY <1>28, BottomYieldsMoves DEF BottomSlots, SlotsOf, AtHand
<1>29. CASE BottomClaim(worker)  BY <1>29, BottomClaimMoves
<1>30. CASE ReleaseNext(worker)  BY <1>30, ReleaseNextMoves
<1>31. CASE ReleaseClaim(worker)  BY <1>31, ReleaseClaimMoves
<1>32. CASE ReleaseCell(worker)
  BY <1>32, ReleaseCellMoves DEF SetBack
<1>33. CASE ReleaseTrace(worker)  BY <1>33, ReleaseTraceMoves
<1>34. CASE ReleaseAll(worker)  BY <1>34, ReleaseAllMoves
<1> QED
  BY <1>1, <1>2, <1>3, <1>4, <1>5, <1>6, <1>7, <1>8, <1>9, <1>10, <1>11,
     <1>12, <1>13, <1>14, <1>15, <1>16, <1>17, <1>18, <1>19, <1>20,
     <1>21, <1>22, <1>23, <1>24, <1>25, <1>26, <1>27, <1>28, <1>29,
     <1>30, <1>31, <1>32, <1>33, <1>34
     DEF Acts, PistonStep, EvalStep, Submit, GiveUp

\* What is still to submit is what is not frozen.
LEMMA SubmittedStep ==
  ASSUME Base, AtHand, Untouched, Submitted, Acts
  PROVE  Submitted'
<1> USE WorkerTyped DEF To, Still, CellsStay, SlotsStay, ControlOf, Nowhere, Submitted, Hopeless,
        NoneFrozen, Submitting
<1>1. CASE ReapCells(worker)  BY <1>1, ReapCellsMoves
<1>2. CASE ReapClaims(worker)  BY <1>2, ReapClaimsMoves
<1>3. CASE FindReady(worker)  BY <1>3, FindReadyMoves
<1>4. CASE Quiescent(worker)  BY <1>4, QuiescentMoves
<1>5. CASE ClaimWon(worker)  BY <1>5, ClaimWonMoves
<1>6. CASE ClaimLost(worker)  BY <1>6, ClaimLostMoves
<1>7. CASE CheckInputs(worker)
  BY <1>7, CheckInputsMoves
<1>8. CASE Mark(worker)
  <2>1. local.at \in Cells /\ Kind[local.at] \in Kinds
    BY <1>8, MarkMoves, RetortAssumption
  <2>2. NoneFrozen(local.at)
    BY <1>8, <2>1, MarkMoves DEF Untouched, AtHand, Over, Evaluating, Computing
  <2>3. CASE Kind[local.at] = "dml"
    BY <1>8, <2>3, MarkMoves DEF Dispatch
  <2>4. CASE Kind[local.at] # "dml"
    <3>1. local' = [local EXCEPT !.todo = SlotsOf(local.at)]
      BY <1>8, <2>4, MarkMoves
    <3>2. local'.at = local.at /\ local'.todo = SlotsOf(local.at)
      BY <3>1 DEF Locals
    <3>3. \/ here' \in {"litYields", "sqlRun"}
          \/ here' = "think" /\ Kind[local.at] # "sql"
      BY <1>8, <2>1, <2>4, MarkMoves DEF Dispatch, Kinds
    <3> QED BY <1>8, <2>2, <3>2, <3>3, MarkMoves
  <2> QED BY <2>3, <2>4
<1>9. CASE LiteralYields(worker)
  <2>1. /\ here = "litYields" /\ here' = "litCell" /\ local' = local
        /\ state' = state /\ FreezeLiteral(local.at)
    BY <1>9, LiteralYieldsMoves
  <2>2. local.at \in Cells /\ ~Over(local.at)
    BY <2>1 DEF AtHand, Computing, Over
  <2>3. NoneFrozen(local.at)
    <3>1. here \notin Evaluating
      BY <2>1 DEF Evaluating
    <3> QED BY <2>2, <3>1 DEF Untouched
  <2>4. \A s \in SlotsOf(local.at) : frozen'[s] /\ value'[s] = "literal"
    BY <2>1, <2>3 DEF FreezeLiteral, SlotsOf
  <2> QED
    BY <2>1, <2>4 DEF SlotsOf
<1>10. CASE LiteralCell(worker)  BY <1>10, LiteralCellMoves
<1>11. CASE LiteralClaim(worker)  BY <1>11, LiteralClaimMoves
<1>12. CASE SqlSucceeds(worker)
  <2>1. local.at \in Cells /\ NoneFrozen(local.at)
    BY <1>12, SqlSucceedsMoves DEF Untouched, AtHand, Over, Evaluating, Computing
  <2>2. local'.at = local.at /\ local'.todo = SlotsOf(local.at)
    BY <1>12, SqlSucceedsMoves DEF Locals
  <2> QED BY <1>12, <2>1, <2>2, SqlSucceedsMoves
<1>13. CASE SqlFails(worker)  BY <1>13, SqlFailsMoves
<1>14. CASE SqlSubmits(worker)
  BY <1>14, SqlSubmitsMoves DEF Locals
<1>15. CASE LlmSubmits(worker)
  BY <1>15, LlmSubmitsMoves DEF AtHand
<1>16. CASE SubmitCell(worker)
  BY <1>16, SubmitCellMoves DEF AtHand, Computing
<1>17. CASE SubmitFrozen(worker)
  BY <1>17, SubmitFrozenMoves
<1>18. CASE SubmitWrite(worker)
  BY <1>18, SubmitWriteMoves DEF Returns, Locals
<1>19. CASE SubmitFreeze(worker)
  BY <1>19, SubmitFreezeMoves DEF SlotsOf
<1>20. CASE SubmitCount(worker)
  BY <1>20, SubmitCountMoves DEF Returns, Locals, AllFrozen
<1>21. CASE SubmitDone(worker)  BY <1>21, SubmitDoneMoves
<1>22. CASE SubmitClaim(worker)  BY <1>22, SubmitClaimMoves
<1>23. CASE Guard(worker)  BY <1>23, GuardMoves
<1>24. CASE Later(worker)  BY <1>24, LaterMoves
<1>25. CASE SkipNext(worker)  BY <1>25, SkipNextMoves
<1>26. CASE SkipJudges(worker)  BY <1>26, SkipJudgesMoves
<1>27. CASE BottomCell(worker)  BY <1>27, BottomCellMoves
<1>28. CASE BottomYields(worker)  BY <1>28, BottomYieldsMoves
<1>29. CASE BottomClaim(worker)
  BY <1>29, BottomClaimMoves DEF Locals
<1>30. CASE ReleaseNext(worker)
  BY <1>30, ReleaseNextMoves DEF Locals
<1>31. CASE ReleaseClaim(worker)  BY <1>31, ReleaseClaimMoves
<1>32. CASE ReleaseCell(worker)  BY <1>32, ReleaseCellMoves
<1>33. CASE ReleaseTrace(worker)  BY <1>33, ReleaseTraceMoves
<1>34. CASE ReleaseAll(worker)  BY <1>34, ReleaseAllMoves
<1> QED
  BY <1>1, <1>2, <1>3, <1>4, <1>5, <1>6, <1>7, <1>8, <1>9, <1>10, <1>11,
     <1>12, <1>13, <1>14, <1>15, <1>16, <1>17, <1>18, <1>19, <1>20,
     <1>21, <1>22, <1>23, <1>24, <1>25, <1>26, <1>27, <1>28, <1>29,
     <1>30, <1>31, <1>32, <1>33, <1>34
     DEF Acts, PistonStep, EvalStep, Submit, GiveUp

\* The numbers of the iterations.
LEMMA Numbered ==
  /\ Iterations \subseteq Cells /\ Judges \subseteq Cells
  /\ \A c \in Cells : IterNo[c] \in Nat /\ JudgeOf[c] \in Nat
  /\ \A c \in Iterations : IterNo[c] > 0 /\ c \notin Judges
  /\ \A c, d \in Iterations : IterNo[c] = IterNo[d] => c = d
BY EngineAssumption, LoopAssumption DEF Iterations, Judges

\* A cell whose inputs are frozen comes after iterations that are over.
LEMMA EarlierOver ==
  ASSUME Base, Untouched, InOrder, here \in KnowsInputs, local.at \in Iterations
  PROVE  \A c \in Iterations : IterNo[c] < IterNo[local.at] => Over(c)
<1> DEFINE d == local.at
<1> SUFFICES ASSUME NEW c \in Iterations, IterNo[c] < IterNo[d] PROVE Over(c)
  OBVIOUS
<1>1. PICK e \in Iterations : IterNo[d] = IterNo[e] + 1
  <2> DEFINE N == {IterNo[x] : x \in Iterations}
             k == Cardinality(Iterations)
  <2>1. N = 1..k
    BY LoopAssumption
  <2>2. k \in Nat
    <3>1. IsFiniteSet(Iterations)
      BY RetortAssumption, FS_Subset DEF Iterations
    <3> QED BY <3>1, FS_CardinalityType
  <2>3. IterNo[d] \in 1..k /\ IterNo[c] \in 1..k
    BY <2>1
  <2> HIDE DEF k
  <2>4. IterNo[d] - 1 \in 1..k
    BY <2>2, <2>3
  <2>5. PICK e \in Iterations : IterNo[e] = IterNo[d] - 1
    BY <2>1, <2>4
  <2>6. IterNo[d] = IterNo[e] + 1
    BY <2>3, <2>5
  <2> QED BY <2>6
<1>2. PICK s \in Required[d] : s[1] = e
  BY <1>1, LoopAssumption
<1>3. frozen[s]
  <2>1. \A t \in Required[local.at] : frozen[t]
    BY OnlyWorker DEF Base, DataInv, Informed, InputsFrozen, here, local
  <2> QED BY <2>1, <1>2
<1>4. s \in SlotsOf(e)
  BY <1>2, Numbered, RetortAssumption DEF SlotsOf
<1>5. Over(e)
  BY <1>3, <1>4, Numbered DEF Untouched, NoneFrozen, KnowsInputs, Evaluating, Computing
<1>6. CASE IterNo[c] = IterNo[e]
  BY <1>5, <1>6, Numbered
<1>7. CASE IterNo[c] < IterNo[e]
  BY <1>5, <1>7 DEF InOrder, Over
<1>8. IterNo[c] \in Nat /\ IterNo[e] \in Nat
  BY Numbered
<1> QED BY <1>1, <1>6, <1>7, <1>8

\* A guard watches a yield of its own iteration.
LEMMA GuardElsewhere ==
  ASSUME NEW c \in Iterations, NEW d, c # d,
         \A s \in Slots : s[1] # d => frozen'[s] = frozen[s] /\ value'[s] = value[s]
  PROVE  GuardMet(c)' = GuardMet(c)
<1>1. GuardSlot[c] # NoSlot => GuardSlot[c] \in Slots /\ GuardSlot[c][1] = c
  BY LoopAssumption, Numbered DEF SlotsOf
<1> QED BY <1>1 DEF GuardMet

\* A step that moves no cell, and no guard of a frozen iteration, stays between two skips.
LEMMA LoopingKept ==
  ASSUME Looping, state' = state,
         \A c \in Iterations : state[c] = "frozen" => GuardMet(c)' = GuardMet(c),
         here \notin JustFrozen, here' \notin JustFrozen \cup {"botCell"}
  PROVE  Looping'
<1>1. InOrder'
  BY DEF Looping, InOrder, Over
<1>2. \A c, d \in Iterations :
        IterNo[c] < IterNo[d] /\ state'[c] = "frozen" /\ GuardMet(c)' => state'[d] = "bottom"
  BY DEF Looping
<1>3. here' # "later" /\ here' # "botCell"
  BY DEF JustFrozen
<1> QED BY <1>1, <1>2, <1>3 DEF Looping

\* Between two skips, every step but Later stays between two skips.
LEMMA LoopingStep ==
  ASSUME Base, AtHand, Untouched, Submitted, ~Skipping, Looping, Acts, ~Later(worker)
  PROVE  ~Skipping' /\ Looping'
<1> USE WorkerTyped, Numbered DEF To, Still, CellsStay, SlotsStay, ControlOf, Nowhere, AtHand, Over,
        Looping, InOrder, Skipping, Bottoming, Critical, JustFrozen, Computing
<1>1. CASE ReapCells(worker)
  BY <1>1, ReapCellsMoves DEF SetBack, GuardMet
<1>2. CASE ReapClaims(worker)
  BY <1>2, ReapClaimsMoves DEF GuardMet, NoLocals
<1>3. CASE FindReady(worker)
  BY <1>3, FindReadyMoves DEF GuardMet, NoLocals, Locals, Releasing
<1>4. CASE Quiescent(worker)
  BY <1>4, QuiescentMoves DEF GuardMet, NoLocals
<1>5. CASE ClaimWon(worker)
  BY <1>5, ClaimWonMoves DEF GuardMet, NoLocals
<1>6. CASE ClaimLost(worker)
  BY <1>6, ClaimLostMoves DEF GuardMet, NoLocals
<1>7. CASE CheckInputs(worker)
  BY <1>7, CheckInputsMoves, EarlierOver DEF GuardMet, KnowsInputs
<1>8. CASE Mark(worker)
  <2>1. local.at \in Cells /\ Kind[local.at] \in Kinds
    BY <1>8, MarkMoves, RetortAssumption
  <2>2. here' \in {"litYields", "sqlRun", "think", "idle"}
    BY <1>8, <2>1, MarkMoves DEF Dispatch, Kinds
  <2>3. state' = [state EXCEPT ![local.at] = "computing"] /\ state[local.at] = "declared"
    BY <1>8, MarkMoves
  <2>4. \A c \in Iterations : GuardMet(c)' = GuardMet(c)
    BY <1>8, MarkMoves DEF GuardMet
  <2>5. local.at \in Iterations =>
          \A c \in Iterations : IterNo[c] < IterNo[local.at] => Over(c)
    BY <1>8, MarkMoves, EarlierOver DEF KnowsInputs
  <2>6. InOrder'
    BY <2>1, <2>3, <2>5
  <2>7. here \notin JustFrozen
    BY <1>8, MarkMoves
  <2> QED BY <2>1, <2>2, <2>3, <2>4, <2>6, <2>7
<1>9. CASE LiteralYields(worker)
  <2>1. state' = state /\ here \notin JustFrozen /\ state[local.at] = "computing"
    BY <1>9, LiteralYieldsMoves
  <2>2. here' \notin JustFrozen \cup {"botCell"} /\ ~Skipping'
    BY <1>9, LiteralYieldsMoves
  <2>3. \A s \in Slots : s[1] # local.at => frozen'[s] = frozen[s] /\ value'[s] = value[s]
    BY <1>9, LiteralYieldsMoves DEF FreezeLiteral
  <2> HIDE WorkerTyped DEF Looping, InOrder, Skipping, JustFrozen, ControlOf, AtHand
  <2>4. \A c \in Iterations : state[c] = "frozen" => GuardMet(c)' = GuardMet(c)
    BY <2>1, <2>3, GuardElsewhere
  <2> QED BY <2>1, <2>2, <2>4, LoopingKept
<1>10. CASE LiteralCell(worker)
  BY <1>10, LiteralCellMoves, LoopAssumption DEF GuardMet, Submitted, SlotsOf
<1>11. CASE LiteralClaim(worker)
  BY <1>11, LiteralClaimMoves DEF GuardMet, NoLocals
<1>12. CASE SqlSucceeds(worker)
  BY <1>12, SqlSucceedsMoves DEF GuardMet, NoLocals, Locals, Releasing
<1>13. CASE SqlFails(worker)
  BY <1>13, SqlFailsMoves DEF GuardMet, NoLocals, Locals, Releasing
<1>14. CASE SqlSubmits(worker)
  BY <1>14, SqlSubmitsMoves DEF GuardMet, NoLocals, Locals, Releasing
<1>15. CASE LlmSubmits(worker)
  BY <1>15, LlmSubmitsMoves DEF GuardMet, NoLocals, Locals, Releasing
<1>16. CASE SubmitCell(worker)
  BY <1>16, SubmitCellMoves DEF GuardMet, Returns, Locals
<1>17. CASE SubmitFrozen(worker)
  BY <1>17, SubmitFrozenMoves DEF GuardMet, Returns, Locals
<1>18. CASE SubmitWrite(worker)
  <2>1. state' = state /\ here \notin JustFrozen /\ state[local.at] = "computing"
    BY <1>18, SubmitWriteMoves
  <2>2. here' \notin JustFrozen \cup {"botCell"} /\ ~Skipping'
    BY <1>18, SubmitWriteMoves DEF Returns
  <2>3. \A s \in Slots : s[1] # local.at => frozen'[s] = frozen[s] /\ value'[s] = value[s]
    BY <1>18, SubmitWriteMoves DEF Submitting, SlotsOf
  <2> HIDE WorkerTyped DEF Looping, InOrder, Skipping, JustFrozen, ControlOf, AtHand
  <2>4. \A c \in Iterations : state[c] = "frozen" => GuardMet(c)' = GuardMet(c)
    BY <2>1, <2>3, GuardElsewhere
  <2> QED BY <2>1, <2>2, <2>4, LoopingKept
<1>19. CASE SubmitFreeze(worker)
  <2>1. state' = state /\ here \notin JustFrozen /\ state[local.at] = "computing"
    BY <1>19, SubmitFreezeMoves
  <2>2. here' \notin JustFrozen \cup {"botCell"} /\ ~Skipping'
    BY <1>19, SubmitFreezeMoves
  <2>3. \A s \in Slots : s[1] # local.at => frozen'[s] = frozen[s] /\ value'[s] = value[s]
    BY <1>19, SubmitFreezeMoves DEF Submitting, SlotsOf
  <2> HIDE WorkerTyped DEF Looping, InOrder, Skipping, JustFrozen, ControlOf, AtHand
  <2>4. \A c \in Iterations : state[c] = "frozen" => GuardMet(c)' = GuardMet(c)
    BY <2>1, <2>3, GuardElsewhere
  <2> QED BY <2>1, <2>2, <2>4, LoopingKept
<1>20. CASE SubmitCount(worker)
  BY <1>20, SubmitCountMoves DEF GuardMet, Returns, Locals
<1>21. CASE SubmitDone(worker)
  BY <1>21, SubmitDoneMoves DEF GuardMet
<1>22. CASE SubmitClaim(worker)
  BY <1>22, SubmitClaimMoves DEF GuardMet, NoLocals, Locals, Releasing
<1>23. CASE Guard(worker)
  BY <1>23, GuardMoves, LoopAssumption DEF GuardMet, NoLocals
<1>24. CASE Later(worker)
  BY <1>24
<1>25. CASE SkipNext(worker)
  BY <1>25, SkipNextMoves
<1>26. CASE SkipJudges(worker)
  BY <1>26, SkipJudgesMoves
<1>27. CASE BottomCell(worker)
  BY <1>27, BottomCellMoves DEF GuardMet
<1>28. CASE BottomYields(worker)
  <2>1. state' = state /\ here \notin JustFrozen /\ state[local.at] = "bottom"
    BY <1>28, BottomYieldsMoves
  <2>2. here' \notin JustFrozen \cup {"botCell"} /\ ~Skipping'
    BY <1>28, BottomYieldsMoves
  <2>3. \A s \in Slots : s[1] # local.at => frozen'[s] = frozen[s] /\ value'[s] = value[s]
    BY <1>28, BottomYieldsMoves DEF BottomSlots
  <2> HIDE WorkerTyped DEF Looping, InOrder, Skipping, JustFrozen, ControlOf, AtHand
  <2>4. \A c \in Iterations : state[c] = "frozen" => GuardMet(c)' = GuardMet(c)
    BY <2>1, <2>3, GuardElsewhere
  <2> QED BY <2>1, <2>2, <2>4, LoopingKept
<1>29. CASE BottomClaim(worker)
  BY <1>29, BottomClaimMoves DEF GuardMet, NoLocals, Locals, Releasing
<1>30. CASE ReleaseNext(worker)
  BY <1>30, ReleaseNextMoves DEF GuardMet, NoLocals, Locals, Releasing
<1>31. CASE ReleaseClaim(worker)
  BY <1>31, ReleaseClaimMoves DEF GuardMet, NoLocals
<1>32. CASE ReleaseCell(worker)
  BY <1>32, ReleaseCellMoves DEF SetBack, GuardMet
<1>33. CASE ReleaseTrace(worker)
  BY <1>33, ReleaseTraceMoves DEF GuardMet, NoLocals
<1>34. CASE ReleaseAll(worker)
  BY <1>34, ReleaseAllMoves DEF GuardMet, NoLocals
<1> QED
  BY <1>1, <1>2, <1>3, <1>4, <1>5, <1>6, <1>7, <1>8, <1>9, <1>10, <1>11,
     <1>12, <1>13, <1>14, <1>15, <1>16, <1>17, <1>18, <1>19, <1>20,
     <1>21, <1>22, <1>23, <1>24, <1>25, <1>26, <1>27, <1>28, <1>29,
     <1>30, <1>31, <1>32, <1>33, <1>34
     DEF Acts, PistonStep, EvalStep, Submit, GiveUp

\* The declared siblings that checkGuardSkip finds are later iterations only,
\* and at most as many as there are.
LEMMA SiblingsCounted ==
  ASSUME NEW c \in Iterations
  PROVE  /\ \A d \in LaterSiblings(c) : d \in Iterations /\ IterNo[d] > IterNo[c]
         /\ \A d \in Iterations : IterNo[d] > IterNo[c] /\ state[d] = "declared" =>
              d \in LaterSiblings(c)
         /\ \A m \in SkippedIterations(c, Cardinality(LaterSiblings(c))) :
              m > IterNo[c] /\ \E d \in Iterations : IterNo[d] = m
<1> DEFINE L == LaterSiblings(c)
           n == IterNo[c]
           k == Cardinality(Iterations)
<1>1. \A d \in L : d \in Iterations /\ IterNo[d] > n
  <2> SUFFICES ASSUME NEW d \in L PROVE d \in Iterations /\ IterNo[d] > n
    OBVIOUS
  <2>1. d \in Cells /\ Suffix[d] > n /\ (d \in Iterations \/ d \in Judges)
    BY DEF LaterSiblings, Iterations, Judges
  <2>2. n \in Nat /\ n > 0 /\ Suffix[d] \in Nat
    BY <2>1, Numbered, EngineAssumption
  <2>3. d \notin Judges
    BY <2>1, <2>2, JudgesAssumption
  <2> QED BY <2>1, <2>3, LoopAssumption
<1>2. \A d \in Iterations : IterNo[d] > n /\ state[d] = "declared" => d \in L
  BY LoopAssumption, Numbered DEF LaterSiblings
<1>3. IsFiniteSet(Iterations) /\ k \in Nat
  <2>1. IsFiniteSet(Iterations)
    BY RetortAssumption, Numbered, FS_Subset
  <2> QED BY <2>1, FS_CardinalityType
<1>4. {IterNo[x] : x \in Iterations} = 1..k
  BY LoopAssumption
<1>5. n \in 1..k
  BY <1>4
<1>6. IsFiniteSet(L) /\ Cardinality(L) \in Nat /\ n + Cardinality(L) <= k
  <2> DEFINE N == {IterNo[x] : x \in L}
  <2>1. IsFiniteSet(L)
    BY <1>1, <1>3, FS_Subset
  <2>2. N \subseteq (n + 1)..k
    <3> SUFFICES ASSUME NEW x \in L PROVE IterNo[x] \in (n + 1)..k
      OBVIOUS
    <3>1. x \in Iterations /\ IterNo[x] > n /\ IterNo[x] \in 1..k
      BY <1>1, <1>4
    <3> HIDE DEF k, n
    <3> QED BY <3>1, <1>3, <1>5
  <2>3. Cardinality(L) = Cardinality(N)
    <3> DEFINE f == [x \in L |-> IterNo[x]]
    <3>1. f \in Bijection(L, N)
      <4>1. f \in [L -> N] /\ \A y \in N : \E x \in L : f[x] = y
        OBVIOUS
      <4>2. \A x, y \in L : f[x] = f[y] => x = y
        BY <1>1, Numbered
      <4> QED BY <4>1, <4>2 DEF Bijection, Injection, Surjection, IsInjective
    <3> HIDE DEF L, N
    <3>2. ExistsBijection(L, N)
      BY <3>1 DEF ExistsBijection
    <3> QED BY <2>1, <3>2, FS_Bijection
  <2>4. IsFiniteSet((n + 1)..k) /\ Cardinality((n + 1)..k) = k - n
    <3> HIDE DEF k, n
    <3>1. n \in Int /\ n + 1 \in Int /\ k \in Int /\ n <= k
      BY <1>3, <1>5
    <3>2. /\ IsFiniteSet((n + 1)..k)
          /\ Cardinality((n + 1)..k) = IF n + 1 > k THEN 0 ELSE k - (n + 1) + 1
      BY <3>1, FS_Interval
    <3> QED BY <3>1, <3>2
  <2>5. Cardinality(N) <= k - n
    <3> HIDE DEF N, k, n
    <3>1. Cardinality(N) <= Cardinality((n + 1)..k)
      BY <2>2, <2>4, FS_Subset
    <3> QED BY <2>4, <3>1
  <2>6. Cardinality(L) \in Nat
    BY <2>1, FS_CardinalityType
  <2> HIDE DEF L, N, k, n
  <2> QED BY <2>1, <2>3, <2>5, <2>6, <1>3, <1>5
<1>7. \A m \in SkippedIterations(c, Cardinality(L)) :
        m > n /\ \E d \in Iterations : IterNo[d] = m
  <2> SUFFICES ASSUME NEW m \in n + 1 .. n + Cardinality(L)
               PROVE  m > n /\ \E d \in Iterations : IterNo[d] = m
    BY DEF SkippedIterations
  <2>1. m > n /\ m \in 1..k
    <3> HIDE DEF L, k, n
    <3> QED BY <1>3, <1>5, <1>6
  <2> QED BY <2>1, <1>4
<1> QED BY <1>1, <1>2, <1>7

\* A skip starts with all later iterations.
LEMMA SkipStarts ==
  ASSUME Base, AtHand, ~Skipping, Looping, Later(worker)
  PROVE  Skipping' /\ \E n \in Nat : SkippingAfter(n)'
<1> DEFINE c == local.at
<1>1. /\ here = "later" /\ here' = "skip" /\ Still
      /\ local'.batch = LaterSiblings(c)
      /\ local'.iters = SkippedIterations(c, Cardinality(LaterSiblings(c)))
  BY LaterMoves
<1>0. c \in Iterations /\ state[c] = "frozen"
  BY <1>1 DEF Looping, AtHand, JustFrozen
<1>2. PICK n \in Nat : n = IterNo[c]
  BY <1>0, Numbered
<1>3. Skipping'
  BY <1>1 DEF Skipping
<1>4. \A d \in Iterations : IterNo[d] > n => state[d] = "declared"
  BY <1>0, <1>1, <1>2 DEF Looping, JustFrozen
<1>5. GuardObeyed(n)'
  <2> SUFFICES ASSUME NEW e \in Iterations, NEW d \in Iterations, IterNo[e] < IterNo[d],
                      IterNo[d] <= n, state[e] = "frozen", GuardMet(e)
               PROVE  state[d] = "bottom"
    BY <1>1 DEF GuardObeyed, Still, GuardMet
  <2>1. e # c
    BY <1>2, Numbered
  <2> QED BY <2>1 DEF Looping
<1>6. \A d \in Iterations : IF IterNo[d] <= n THEN Over(d)' ELSE d \in local'.batch
  <2> SUFFICES ASSUME NEW d \in Iterations
               PROVE  IF IterNo[d] <= n THEN Over(d) ELSE d \in LaterSiblings(c)
    BY <1>1 DEF Over, Still
  <2>1. CASE IterNo[d] < n
    BY <1>0, <1>2, <2>1, Numbered DEF Looping, InOrder
  <2>2. CASE IterNo[d] = n
    BY <1>0, <1>2, <2>2, Numbered DEF Over
  <2>3. CASE IterNo[d] > n
    BY <1>0, <1>2, <1>4, <2>3, SiblingsCounted, Numbered
  <2> QED BY <1>2, <2>1, <2>2, <2>3, Numbered
<1>7. /\ \A d \in local'.batch \cap Iterations : IterNo[d] > n
      /\ \A m \in local'.iters : m > n /\ \E d \in Iterations : IterNo[d] = m
  BY <1>0, <1>1, <1>2, SiblingsCounted
<1>8. here' \notin Bottoming
  BY <1>1 DEF Bottoming
<1>9. SkippingAfter(n)'
  BY <1>5, <1>6, <1>7, <1>8 DEF SkippingAfter
<1> QED BY <1>2, <1>3, <1>9

\* A skip goes on, or ends when all later iterations are bottomed.
LEMMA SkipStep ==
  ASSUME Base, AtHand, Skipping, NEW n \in Nat, SkippingAfter(n), Acts
  PROVE  IF Skipping' THEN SkippingAfter(n)' ELSE Looping'
<1> USE WorkerTyped, Numbered DEF To, Still, CellsStay, SlotsStay, ControlOf, Nowhere, Over
<1>1. CASE SkipNext(worker)
  BY <1>1, SkipNextMoves DEF SkippingAfter, Skipping, Bottoming, GuardObeyed, GuardMet
<1>2. CASE SkipJudges(worker)
  <2>1. CASE here' = "skip"
    BY <1>2, <2>1, SkipJudgesMoves
       DEF SkippingAfter, Skipping, Bottoming, GuardObeyed, GuardMet, Judges
  <2>2. CASE To("idle", NoLocals)
    <3>1. /\ ~Skipping'
          /\ \A d \in Iterations : IF IterNo[d] <= n THEN Over(d) ELSE state[d] = "bottom"
      BY <1>2, <2>2, SkipJudgesMoves DEF SkippingAfter, Skipping, Bottoming
    <3>2. \A c, d \in Iterations :
            IterNo[c] < IterNo[d] /\ state[c] = "frozen" /\ GuardMet(c) => state[d] = "bottom"
      BY <3>1 DEF SkippingAfter, GuardObeyed
    <3> QED BY <1>2, <2>2, <3>1, <3>2, SkipJudgesMoves DEF Looping, InOrder, JustFrozen, GuardMet
  <2> QED BY <1>2, <2>1, <2>2, SkipJudgesMoves
<1>3. CASE BottomCell(worker)
  BY <1>3, BottomCellMoves DEF SkippingAfter, Skipping, Bottoming, GuardObeyed, GuardMet
<1>4. CASE BottomYields(worker)
  <2>1. \A c \in Iterations : c # local.at => GuardMet(c)' = GuardMet(c)
    <3>1. \A s \in Slots : s[1] # local.at => frozen'[s] = frozen[s] /\ value'[s] = value[s]
      BY <1>4, BottomYieldsMoves DEF BottomSlots
    <3> QED BY <3>1, GuardElsewhere
  <2>2. \A c \in Iterations : IterNo[c] <= n => c # local.at
    BY <1>4, BottomYieldsMoves DEF SkippingAfter, Bottoming
  <2>3. GuardObeyed(n)'
    BY <1>4, <2>1, <2>2, BottomYieldsMoves DEF SkippingAfter, GuardObeyed
  <2> QED BY <1>4, <2>3, BottomYieldsMoves DEF SkippingAfter, Skipping, Bottoming
<1>5. CASE BottomClaim(worker)
  BY <1>5, BottomClaimMoves DEF SkippingAfter, Skipping, Bottoming, GuardObeyed, GuardMet
<1>6. here \in Bottoming \cup {"skip"}
  BY DEF Skipping
<1> QED
  BY <1>1, <1>2, <1>3, <1>4, <1>5, <1>6,
     ReapCellsMoves, ReapClaimsMoves, FindReadyMoves, QuiescentMoves, ClaimWonMoves,
     ClaimLostMoves, CheckInputsMoves, MarkMoves, LiteralYieldsMoves, LiteralCellMoves,
     LiteralClaimMoves, SqlSucceedsMoves, SqlFailsMoves, SqlSubmitsMoves, LlmSubmitsMoves,
     SubmitCellMoves, SubmitFrozenMoves, SubmitWriteMoves, SubmitFreezeMoves, SubmitCountMoves,
     SubmitDoneMoves, SubmitClaimMoves, GuardMoves, LaterMoves, ReleaseNextMoves,
     ReleaseClaimMoves, ReleaseCellMoves, ReleaseTraceMoves, ReleaseAllMoves
     DEF Bottoming, Acts, PistonStep, EvalStep, Submit, GiveUp

\* Every step keeps the order of the loop.
LEMMA LoopStep ==
  ASSUME Base, AtHand, Untouched, Submitted, LoopInv, Acts
  PROVE  LoopInv'
<1>1. CASE Skipping
  <2>1. PICK n \in Nat : SkippingAfter(n)
    BY <1>1 DEF LoopInv
  <2> QED BY <1>1, <2>1, SkipStep DEF LoopInv
<1>2. CASE ~Skipping
  <2>1. CASE Later(worker)
    BY <1>2, <2>1, SkipStarts DEF LoopInv
  <2>2. CASE ~Later(worker)
    BY <1>2, <2>2, LoopingStep DEF LoopInv
  <2> QED BY <2>1, <2>2
<1> QED BY <1>1, <1>2

\* Which cells a step makes bottomed, and which it is about to bottom.
LEMMA BottomMoves ==
  ASSUME Base, AtHand, Acts
  PROVE  /\ \A c \in Cells : state[c] = "bottom" => state'[c] = "bottom"
         /\ \A c \in Cells : state'[c] = "bottom" =>
              state[c] = "bottom" \/ (here = "botCell" /\ c = local.at)
         /\ here' = "botCell" =>
              \/ CheckInputs(worker) /\ Poisoned(local'.at)
              \/ SqlFails(worker) /\ Kind[local'.at] = "sql"
              \/ SkipNext(worker)
         /\ Skipping' => Skipping \/ Later(worker)
         /\ Skipping' /\ ~Later(worker) /\ ~SkipJudges(worker) => local'.batch \subseteq local.batch
<1> USE WorkerTyped DEF To, Still, CellsStay, SlotsStay, ControlOf, Nowhere, AtHand, Skipping,
        Bottoming, Critical, JustFrozen, Computing
<1>1. CASE ReapCells(worker)
  BY <1>1, ReapCellsMoves DEF SetBack
<1>2. CASE ReapClaims(worker)
  BY <1>2, ReapClaimsMoves DEF NoLocals, Locals
<1>3. CASE FindReady(worker)
  BY <1>3, FindReadyMoves DEF NoLocals, Locals
<1>4. CASE Quiescent(worker)
  BY <1>4, QuiescentMoves DEF NoLocals, Locals
<1>5. CASE ClaimWon(worker)
  BY <1>5, ClaimWonMoves DEF NoLocals, Locals
<1>6. CASE ClaimLost(worker)
  BY <1>6, ClaimLostMoves DEF NoLocals, Locals
<1>7. CASE CheckInputs(worker)
  BY <1>7, CheckInputsMoves DEF NoLocals, Locals
<1>8. CASE Mark(worker)
  <2>1. local.at \in Cells /\ Kind[local.at] \in Kinds
    BY <1>8, MarkMoves, RetortAssumption
  <2>2. here' \in {"litYields", "sqlRun", "think", "idle"}
    BY <1>8, <2>1, MarkMoves DEF Dispatch, Kinds
  <2> QED BY <1>8, <2>1, <2>2, MarkMoves
<1>9. CASE LiteralYields(worker)
  BY <1>9, LiteralYieldsMoves DEF NoLocals, Locals
<1>10. CASE LiteralCell(worker)
  BY <1>10, LiteralCellMoves DEF NoLocals, Locals
<1>11. CASE LiteralClaim(worker)
  BY <1>11, LiteralClaimMoves DEF NoLocals, Locals
<1>12. CASE SqlSucceeds(worker)
  BY <1>12, SqlSucceedsMoves DEF NoLocals, Locals
<1>13. CASE SqlFails(worker)
  BY <1>13, SqlFailsMoves DEF NoLocals, Locals
<1>14. CASE SqlSubmits(worker)
  BY <1>14, SqlSubmitsMoves DEF NoLocals, Locals
<1>15. CASE LlmSubmits(worker)
  BY <1>15, LlmSubmitsMoves DEF NoLocals, Locals
<1>16. CASE SubmitCell(worker)
  BY <1>16, SubmitCellMoves DEF Returns, Locals
<1>17. CASE SubmitFrozen(worker)
  BY <1>17, SubmitFrozenMoves DEF Returns, Locals
<1>18. CASE SubmitWrite(worker)
  BY <1>18, SubmitWriteMoves DEF Returns, Locals
<1>19. CASE SubmitFreeze(worker)
  BY <1>19, SubmitFreezeMoves DEF NoLocals, Locals
<1>20. CASE SubmitCount(worker)
  BY <1>20, SubmitCountMoves DEF Returns, Locals
<1>21. CASE SubmitDone(worker)
  BY <1>21, SubmitDoneMoves DEF NoLocals, Locals
<1>22. CASE SubmitClaim(worker)
  BY <1>22, SubmitClaimMoves DEF NoLocals, Locals
<1>23. CASE Guard(worker)
  BY <1>23, GuardMoves DEF NoLocals, Locals
<1>24. CASE Later(worker)
  BY <1>24, LaterMoves DEF NoLocals, Locals
<1>25. CASE SkipNext(worker)
  BY <1>25, SkipNextMoves DEF NoLocals, Locals
<1>26. CASE SkipJudges(worker)
  BY <1>26, SkipJudgesMoves DEF NoLocals, Locals
<1>27. CASE BottomCell(worker)
  BY <1>27, BottomCellMoves DEF NoLocals, Locals
<1>28. CASE BottomYields(worker)
  BY <1>28, BottomYieldsMoves DEF NoLocals, Locals
<1>29. CASE BottomClaim(worker)
  BY <1>29, BottomClaimMoves DEF NoLocals, Locals
<1>30. CASE ReleaseNext(worker)
  BY <1>30, ReleaseNextMoves DEF NoLocals, Locals, Releasing
<1>31. CASE ReleaseClaim(worker)
  BY <1>31, ReleaseClaimMoves DEF NoLocals, Locals
<1>32. CASE ReleaseCell(worker)
  BY <1>32, ReleaseCellMoves DEF SetBack
<1>33. CASE ReleaseTrace(worker)
  BY <1>33, ReleaseTraceMoves DEF NoLocals, Locals
<1>34. CASE ReleaseAll(worker)
  BY <1>34, ReleaseAllMoves DEF NoLocals, Locals
<1> QED
  BY <1>1, <1>2, <1>3, <1>4, <1>5, <1>6, <1>7, <1>8, <1>9, <1>10, <1>11,
     <1>12, <1>13, <1>14, <1>15, <1>16, <1>17, <1>18, <1>19, <1>20,
     <1>21, <1>22, <1>23, <1>24, <1>25, <1>26, <1>27, <1>28, <1>29,
     <1>30, <1>31, <1>32, <1>33, <1>34
     DEF Acts, PistonStep, EvalStep, Submit, GiveUp

\* A judge is bottomed only after its iteration.
LEMMA JudgeStep ==
  ASSUME Base, AtHand, LoopInv, JudgeInv, Acts
  PROVE  JudgeInv'
<1>1. ASSUME NEW d \in Judges, Orphan(d) PROVE Orphan(d)'
  BY <1>1, BottomMoves, Numbered DEF Orphan
<1>2. \A d \in Judges : state'[d] = "bottom" => Orphan(d)'
  <2> SUFFICES ASSUME NEW d \in Judges, state'[d] = "bottom" PROVE Orphan(d)'
    OBVIOUS
  <2>1. state[d] = "bottom" \/ (here = "botCell" /\ d = local.at)
    BY BottomMoves, Numbered
  <2> QED BY <1>1, <2>1 DEF JudgeInv
<1>3. ASSUME NEW d \in Judges, here' = "botCell", local'.at = d PROVE Orphan(d)'
  <2>1. CASE CheckInputs(worker) /\ Poisoned(d)
    <3>1. PICK s \in Required[d] : state[s[1]] = "bottom"
      BY <1>3, <2>1 DEF Poisoned
    <3>2. IterNo[s[1]] = JudgeOf[d] /\ s[1] \in Cells
      BY <1>3, JudgesAssumption, RetortAssumption, Numbered
    <3>3. s[1] \in Iterations
      BY <1>3, <3>2 DEF Iterations, Judges
    <3>4. Orphan(d)
      BY <3>1, <3>2, <3>3 DEF Orphan
    <3> QED BY <1>1, <3>4
  <2>2. CASE SkipNext(worker)
    <3>1. d \in local.batch /\ Skipping
      BY <1>3, <2>2, SkipNextMoves DEF Skipping
    <3>2. Orphan(d)
      BY <1>3, <3>1 DEF JudgeInv
    <3> QED BY <1>1, <1>3, <3>2
  <2>3. ~(SqlFails(worker) /\ Kind[d] = "sql")
    BY <1>3, JudgesAssumption
  <2> QED BY <1>3, <2>1, <2>2, <2>3, BottomMoves
<1>4. ASSUME Skipping', NEW d \in Judges, d \in local'.batch PROVE Orphan(d)'
  <2>1. CASE Later(worker)
    <3>1. local.at \in Iterations
      BY <2>1, LaterMoves DEF LoopInv, Looping, Skipping, Bottoming
    <3>2. d \in Iterations
      BY <1>4, <2>1, <3>1, LaterMoves, SiblingsCounted
    <3> QED BY <3>2, Numbered
  <2>2. CASE SkipJudges(worker)
    <3>1. Skipping /\ here = "skip" /\ local.batch = {}
      BY <2>2, SkipJudgesMoves DEF Skipping
    <3>2. PICK n \in Nat : SkippingAfter(n)
      BY <3>1 DEF LoopInv
    <3>3. PICK m \in local.iters : d \in {e \in Cells : JudgeOf[e] = m}
      BY <1>4, <2>2, SkipJudgesMoves DEF To, NoLocals
    <3>4. PICK c \in Iterations : IterNo[c] = m /\ m > n
      BY <3>2 DEF SkippingAfter
    <3>5. state[c] = "bottom"
      BY <3>1, <3>2, <3>4, Numbered DEF SkippingAfter
    <3>6. Orphan(d)
      BY <3>3, <3>4, <3>5 DEF Orphan
    <3> QED BY <1>1, <3>6
  <2>3. CASE ~Later(worker) /\ ~SkipJudges(worker)
    <3>1. Skipping /\ d \in local.batch
      BY <1>4, <2>3, BottomMoves
    <3>2. Orphan(d)
      BY <3>1 DEF JudgeInv
    <3> QED BY <1>1, <3>2
  <2> QED BY <2>1, <2>2, <2>3
<1>5. here' = "botCell" /\ local'.at \in Judges => Orphan(local.at)'
  BY <1>3 DEF Orphan
<1> QED BY <1>2, <1>4, <1>5 DEF JudgeInv

-----------------------------------------------------------------------------
(* The theorems.                                                           *)

\* A program that was just poured has no iteration begun and nothing bottomed.
LEMMA AloneInit == Init => AloneInv
<1> SUFFICES ASSUME Init PROVE AloneInv
  OBVIOUS
<1>1. /\ here = "idle" /\ local = NoLocals
      /\ \A c \in Cells : state[c] = IF c \in Prebound THEN "frozen" ELSE "declared"
      /\ \A s \in Slots : frozen[s] = (s[1] \in Prebound)
  BY OnlyWorker DEF Init, Poured, here, local
<1>2. ~Skipping
  BY <1>1 DEF Skipping, Bottoming
<1>3. AtHand /\ Submitted
  BY <1>1, <1>2 DEF AtHand, Submitted, Submitting, Computing, JustFrozen, Critical
<1>4. Untouched
  BY <1>1 DEF Untouched, NoneFrozen, SlotsOf, Over
<1>5. Looping
  BY <1>1, LoopAssumption, Numbered DEF Looping, InOrder, JustFrozen
<1>6. JudgeInv
  BY <1>1, <1>2, Numbered DEF JudgeInv
<1> QED BY <1>2, <1>3, <1>4, <1>5, <1>6 DEF AloneInv, LoopInv

\* The invariant of the loop holds in every reachable state.
LEMMA AloneAlways == Spec => [](Base /\ AloneInv)
<1>1. Base /\ AloneInv /\ [Next]_vars => AloneInv'
  <2> SUFFICES ASSUME Base, AloneInv, [Next]_vars PROVE AloneInv'
    OBVIOUS
  <2>1. CASE Acts
    BY <2>1, AtHandStep, UntouchedStep, SubmittedStep, LoopStep, JudgeStep DEF AloneInv
  <2>2. CASE UNCHANGED <<pc, loc, state, value, frozen>>
    <3>1. here' = here /\ local' = local
      BY <2>2 DEF here, local
    <3>2. AtHand' /\ Untouched' /\ Submitted'
      BY <2>2, <3>1
         DEF AloneInv, AtHand, Untouched, Submitted, Skipping, Over, NoneFrozen
    <3>3. LoopInv'
      BY <2>2, <3>1
         DEF AloneInv, LoopInv, Looping, InOrder, SkippingAfter, GuardObeyed, GuardMet, Skipping,
             Over
    <3>4. JudgeInv'
      <4>1. \A d : Orphan(d)' = Orphan(d)
        BY <2>2 DEF Orphan
      <4>2. Skipping' = Skipping /\ (\A d \in Judges : state'[d] = state[d])
        BY <2>2, <3>1 DEF Skipping
      <4>3. \A d \in Judges : state'[d] = "bottom" => Orphan(d)'
        BY <4>1, <4>2 DEF AloneInv, JudgeInv
      <4>4. here' = "botCell" /\ local'.at \in Judges => Orphan(local.at)'
        BY <2>2, <3>1 DEF AloneInv, JudgeInv, Orphan
      <4>5. Skipping' => \A d \in Judges \cap local'.batch : Orphan(d)'
        BY <3>1, <4>1, <4>2 DEF AloneInv, JudgeInv
      <4> QED BY <4>3, <4>4, <4>5 DEF JudgeInv
    <3> QED BY <3>2, <3>3, <3>4 DEF AloneInv
  <2> QED BY <2>1, <2>2, StepOf
<1> QED BY AloneInit, <1>1, Typed, DataAlways, PTL DEF Spec, Base

\* Evaluated by one piston that is never killed, a loop stops where its guard
\* is met: once the piston is idle, every later iteration is bottomed.
THEOREM LaterSkippedAlone == Spec => []LaterSkipped
<1>1. Base /\ AloneInv => LaterSkipped
  <2> SUFFICES ASSUME Base, AloneInv, NEW c \in Cells, NEW d \in Cells,
                      IterNo[c] > 0, IterNo[d] > IterNo[c], GuardMet(c), state[c] = "frozen",
                      \A p \in Pistons : pc[p] = "idle"
               PROVE  state[d] = "bottom"
    BY DEF LaterSkipped
  <2>1. here = "idle"
    BY OnlyWorker DEF here
  <2>2. Looping
    BY <2>1 DEF AloneInv, LoopInv, Skipping, Bottoming
  <2>3. c \in Iterations /\ d \in Iterations
    BY EngineAssumption DEF Iterations
  <2> QED BY <2>1, <2>2, <2>3 DEF Looping, JustFrozen
<1> QED BY <1>1, AloneAlways, PTL

\* Under the same circumstances checkGuardSkip bottoms no judge but those of
\* the iterations it skipped, although it only counts what it bottomed.
THEOREM JudgesFollow == Spec => []JudgeFollowsIteration
<1>1. Base /\ AloneInv => JudgeFollowsIteration
  BY DEF AloneInv, JudgeInv, Orphan, JudgeFollowsIteration, Judges, Iterations
<1> QED BY <1>1, AloneAlways, PTL
=============================================================================
