----------------------------- MODULE EvalEngine -----------------------------
(***************************************************************************)
(* The evaluation engine of ct: pistons (ct processes, or the LLM sessions *)
(* that drive them) evaluating one program concurrently.  A piston runs    *)
(* replEvalStep (reap, find, claim, then evaluate a hard body or dispatch  *)
(* a soft one), replSubmit for every yield, replRelease, bottomCell and    *)
(* checkGuardSkip; its program counter pc[p] stands between two SQL        *)
(* statements, so that any two pistons interleave there.                   *)
(*                                                                         *)
(* Rows of claim_log, bindings, pistons and trace (but for the failure     *)
(* count) are written and never read back by the engine; their INSERTs     *)
(* belong to the statement they follow.  Programs here have no perpetual   *)
(* stem cell: replRespawnStem returns at once for a name ending in -N.     *)
(***************************************************************************)
EXTENDS Retort, FiniteSetsExt

CONSTANTS
  NoCell, NoSlot,
  IterNo,     \* IterNo[c]: n when c is iteration n of the iterated cell, else 0
  JudgeOf,    \* JudgeOf[c]: n when c is a judge of iteration n, else 0
  Suffix,     \* Suffix[c]: the number the name of c ends in, else 0
  GuardSlot,  \* GuardSlot[c]: the slot c's guard oracle watches, or NoSlot
  MaxCrashes, \* how many times a piston may die
  Lapsing     \* the leases that may run out: none, the abandoned ones or any

ASSUME EngineAssumption ==
  /\ NoCell \notin Cells
  /\ NoSlot \notin Slots
  /\ IterNo \in [Cells -> Nat] /\ JudgeOf \in [Cells -> Nat]
  /\ Suffix \in [Cells -> Nat]
  /\ GuardSlot \in [Cells -> Slots \cup {NoSlot}]
  /\ MaxCrashes \in Nat
  /\ Lapsing \in {"none", "abandoned", "any"}

VARIABLES
  pc,         \* pc[p]: the statement piston p runs next
  loc,        \* loc[p]: the local variables of p's handlers
  crashes,    \* pistons that died so far
  revoked,    \* history: a claim on c was deleted under its holder at work
  evaluated   \* history: how often c was marked frozen, 2 standing for more

vars == <<tables, pc, loc, crashes, revoked, evaluated>>

Labels == {"idle", "reapClaims", "find", "claim", "claimed", "mark",
           "litYields", "litCell", "litClaim", "sqlRun", "sqlNext", "think",
           "subCell", "subFrozen", "subWrite", "subFreeze", "subCount",
           "subDone", "subClaim", "guard", "later", "skip", "botCell", "botYields",
           "botClaim", "release", "relClaim", "relCell", "relTrace"}

Locals == [at    : Cells \cup {NoCell},     \* the cell the handler works on
           slot  : Slots \cup {NoSlot},     \* replSubmit: the yield
           ans   : Values,                  \* replSubmit: the value
           todo  : SUBSET Slots,            \* yields still to submit
           batch : SUBSET Cells,            \* cells still to bottom or release
           iters : SUBSET Nat,              \* iterations whose judges are next
           ret   : {"idle", "find", "skip"}] \* where bottom and release return

NoLocals == [at |-> NoCell, slot |-> NoSlot, ans |-> "null", todo |-> {},
             batch |-> {}, iters |-> {}, ret |-> "idle"]

TypeOK ==
  /\ TablesTypeOK
  /\ pc \in [Pistons -> Labels]
  /\ loc \in [Pistons -> Locals]
  /\ crashes \in 0..MaxCrashes
  /\ revoked \in [Cells -> BOOLEAN]
  /\ evaluated \in [Cells -> 0..2]

Init ==
  /\ Poured
  /\ pc = [p \in Pistons |-> "idle"]
  /\ loc = [p \in Pistons |-> NoLocals]
  /\ crashes = 0
  /\ revoked = [c \in Cells |-> FALSE]
  /\ evaluated = [c \in Cells |-> 0]

-----------------------------------------------------------------------------
(* Between winning the INSERT on the claim and deleting it again, a piston *)
(* is at work on its cell.  A guard skip visits cells it never claimed.    *)
Critical == {"claimed", "mark", "litYields", "litCell", "litClaim", "sqlRun",
             "sqlNext", "think", "subCell", "subFrozen", "subWrite",
             "subFreeze", "subCount", "subDone", "subClaim"}
Bottoming == {"botCell", "botYields", "botClaim"}

AtWork(p, c) ==
  /\ loc[p].at = c
  /\ \/ pc[p] \in Critical
     \/ pc[p] \in Bottoming /\ loc[p].ret # "skip"
     \/ pc[p] = "relClaim" /\ loc[p].ret = "find"

\* The cells of C whose claim row belongs to a piston other than p at work.
Victims(p, C) ==
  {c \in C : claim[c] \in Pistons \ {p} /\ AtWork(claim[c], c)}

Revoke(C) == revoked' = [c \in Cells |-> revoked[c] \/ c \in C]

Goto(p, l) == pc' = [pc EXCEPT ![p] = l]

\* p leaves its handler: nothing local survives.
Leave(p) == Goto(p, "idle") /\ loc' = [loc EXCEPT ![p] = NoLocals]

History == <<crashes, revoked, evaluated>>

-----------------------------------------------------------------------------
(* replEvalStep: reap, find, claim.                                        *)

ReapCells(p) ==
  /\ pc[p] = "idle"
  /\ ReapStaleCells
  /\ Goto(p, "reapClaims")
  /\ UNCHANGED <<loc, History>>

ReapClaims(p) ==
  /\ pc[p] = "reapClaims"
  /\ DeleteClaims(StaleClaims)
  /\ Revoke(Victims(p, StaleClaims))
  /\ Goto(p, "find")
  /\ UNCHANGED <<loc, crashes, evaluated>>

FindReady(p) ==
  /\ pc[p] = "find"
  /\ \E c \in Cells :
       /\ Findable(c)
       /\ loc' = [loc EXCEPT ![p] = [NoLocals EXCEPT !.at = c]]
  /\ Goto(p, "claim")
  /\ UNCHANGED <<tables, History>>

\* Nothing is ready, or the piston was given a program and it is complete.
Quiescent(p) ==
  /\ pc[p] = "find"
  /\ Complete \/ \A c \in Cells : ~Findable(c)
  /\ Leave(p)
  /\ UNCHANGED <<tables, History>>

\* Mutant of ClaimWon: REPLACE INTO instead of INSERT IGNORE.
ClaimReplaced(p) ==
  /\ pc[p] = "claim"
  /\ InsertClaim(loc[p].at, p)
  /\ Goto(p, "claimed")
  /\ UNCHANGED <<loc, History>>

ClaimWon(p) ==
  /\ pc[p] = "claim"
  /\ claim[loc[p].at] = NoPiston
  /\ InsertClaim(loc[p].at, p)
  /\ Goto(p, "claimed")
  /\ UNCHANGED <<loc, History>>

ClaimLost(p) ==
  /\ pc[p] = "claim"
  /\ claim[loc[p].at] # NoPiston
  /\ Goto(p, "find")
  /\ loc' = [loc EXCEPT ![p] = NoLocals]
  /\ UNCHANGED <<tables, History>>

CheckInputs(p) ==
  /\ pc[p] = "claimed"
  /\ Goto(p, IF Poisoned(loc[p].at) THEN "botCell" ELSE "mark")
  /\ UNCHANGED <<tables, loc, History>>

-----------------------------------------------------------------------------
(* replEvalStep: evaluate a hard body, dispatch a soft one.                *)

\* A dml: body has no branch of its own: the cell stays computing, claimed.
Dispatch == [literal |-> "litYields", sql |-> "sqlRun", dml |-> "idle",
             soft |-> "think", stem |-> "think"]

Mark(p) ==
  LET c == loc[p].at
  IN /\ pc[p] = "mark"
     /\ SetCell(c, "computing", "fresh")
     /\ Goto(p, Dispatch[Kind[c]])
     /\ loc' = [loc EXCEPT ![p] = IF Kind[c] = "dml" THEN NoLocals
                                  ELSE [@ EXCEPT !.todo = SlotsOf(c)]]
     /\ UNCHANGED History

LiteralYields(p) ==
  /\ pc[p] = "litYields"
  /\ FreezeLiteral(loc[p].at)
  /\ Goto(p, "litCell")
  /\ UNCHANGED <<loc, History>>

\* One more evaluation of c ends with the cell marked frozen.
CountEvaluation(c) ==
  evaluated' = [evaluated EXCEPT ![c] = IF @ < 2 THEN @ + 1 ELSE @]

LiteralCell(p) ==
  LET c == loc[p].at
  IN /\ pc[p] = "litCell"
     /\ SetCell(c, "frozen", "none")
     /\ CountEvaluation(c)
     /\ Goto(p, "litClaim")
     /\ UNCHANGED <<loc, crashes, revoked>>

LiteralClaim(p) ==
  LET c == loc[p].at
  IN /\ pc[p] = "litClaim"
     /\ DeleteClaims({c})
     /\ Revoke(Victims(p, {c}))
     /\ Leave(p)
     /\ UNCHANGED <<crashes, evaluated>>

SqlSucceeds(p) ==
  /\ pc[p] = "sqlRun"
  /\ \E v \in Answers : loc' = [loc EXCEPT ![p].ans = v]
  /\ Goto(p, "sqlNext")
  /\ UNCHANGED <<tables, History>>

\* The failures before this one are counted from the trace.
SqlFails(p) ==
  /\ pc[p] = "sqlRun"
  /\ Goto(p, IF failures[loc[p].at] + 1 >= MaxFailures
             THEN "botCell" ELSE "relClaim")
  /\ loc' = [loc EXCEPT ![p].ret = "find"]
  /\ UNCHANGED <<tables, History>>

\* replSubmit of the one result for every yield, then the step returns.
SqlSubmits(p) ==
  /\ pc[p] = "sqlNext"
  /\ \/ /\ loc[p].todo = {}
        /\ Leave(p)
     \/ \E s \in loc[p].todo :
          /\ loc' = [loc EXCEPT ![p].slot = s]
          /\ Goto(p, "subCell")
  /\ UNCHANGED <<tables, History>>

\* The LLM behind a dispatched cell submits a yield, or has none left.
LlmSubmits(p) ==
  /\ pc[p] = "think"
  /\ \/ /\ loc[p].todo = {}
        /\ Leave(p)
     \/ \E s \in loc[p].todo, v \in Answers :
          /\ loc' = [loc EXCEPT ![p].slot = s, ![p].ans = v]
          /\ Goto(p, "subCell")
  /\ UNCHANGED <<tables, History>>

-----------------------------------------------------------------------------
(* replSubmit.                                                             *)

\* replSubmit returns before completing the cell; the slot is done with.
Return(p) ==
  /\ Goto(p, IF Kind[loc[p].at] = "sql" THEN "sqlNext" ELSE "think")
  /\ loc' = [loc EXCEPT ![p].todo = @ \ {loc[p].slot}]

\* Mutant of SubmitCell: the cell is looked up in the wrong state.
SubmitDeclared(p) ==
  /\ pc[p] = "subCell"
  /\ IF state[loc[p].at] = "declared"
     THEN Goto(p, "subFrozen") /\ UNCHANGED loc
     ELSE Return(p)
  /\ UNCHANGED <<tables, History>>

\* The caller need not hold a claim: any computing cell takes a submission.
SubmitCell(p) ==
  /\ pc[p] = "subCell"
  /\ IF state[loc[p].at] = "computing"
     THEN Goto(p, "subFrozen") /\ UNCHANGED loc
     ELSE Return(p)
  /\ UNCHANGED <<tables, History>>

SubmitFrozen(p) ==
  /\ pc[p] = "subFrozen"
  /\ IF frozen[loc[p].slot] THEN Return(p)
     ELSE Goto(p, "subWrite") /\ UNCHANGED loc
  /\ UNCHANGED <<tables, History>>

\* Mutant of SubmitWrite: a rejected value is frozen all the same.
SubmitUnjudged(p) ==
  /\ pc[p] = "subWrite"
  /\ WriteSlot(loc[p].slot, loc[p].ans)
  /\ Goto(p, "subFreeze")
  /\ UNCHANGED <<loc, History>>

\* The value is written first; the oracles then judge the local copy of it.
\* A failed oracle leaves the value in place and the LLM revises its answer.
SubmitWrite(p) ==
  /\ pc[p] = "subWrite"
  /\ WriteSlot(loc[p].slot, loc[p].ans)
  /\ CASE loc[p].ans # "bad" -> Goto(p, "subFreeze") /\ UNCHANGED loc
       [] loc[p].ans = "bad" /\ Kind[loc[p].at] = "sql" -> Return(p)
       [] OTHER -> Goto(p, "think") /\ UNCHANGED loc
  /\ UNCHANGED History

SubmitFreeze(p) ==
  /\ pc[p] = "subFreeze"
  /\ FreezeSlot(loc[p].slot)
  /\ Goto(p, "subCount")
  /\ UNCHANGED <<loc, History>>

\* Mutant of SubmitCount: one frozen yield completes the cell.
SubmitFirst(p) ==
  /\ pc[p] = "subCount"
  /\ Goto(p, "subDone")
  /\ UNCHANGED <<tables, loc, History>>

SubmitCount(p) ==
  /\ pc[p] = "subCount"
  /\ IF AllFrozen(loc[p].at) THEN Goto(p, "subDone") /\ UNCHANGED loc
     ELSE Return(p)
  /\ UNCHANGED <<tables, History>>

SubmitDone(p) ==
  LET c == loc[p].at
  IN /\ pc[p] = "subDone"
     /\ SetCell(c, "frozen", "none")
     /\ CountEvaluation(c)
     /\ Goto(p, "subClaim")
     /\ UNCHANGED <<loc, crashes, revoked>>

\* Whoever holds the claim is credited with the cell and loses the claim.
\* Every slot is frozen, so what is left in todo could only be rejected.
SubmitClaim(p) ==
  LET c == loc[p].at
  IN /\ pc[p] = "subClaim"
     /\ DeleteClaims({c})
     /\ Revoke(Victims(p, {c}))
     /\ Goto(p, "guard")
     /\ loc' = [loc EXCEPT ![p].todo = {}]
     /\ UNCHANGED <<crashes, evaluated>>

-----------------------------------------------------------------------------
(* checkGuardSkip.                                                         *)

\* The guard: until a field of the iteration reads "done".
GuardMet(c) ==
  /\ GuardSlot[c] # NoSlot
  /\ frozen[GuardSlot[c]]
  /\ value[GuardSlot[c]] = "done"

\* Mutant of LaterSiblings: the next iteration is not a later one.
SiblingsAfterNext(c) ==
  {d \in Cells : /\ state[d] = "declared"
                 /\ IterNo[d] > 0 \/ JudgeOf[d] > 0
                 /\ Suffix[d] > IterNo[c] + 1}

\* Declared cells named base-..., by the number their name ends in.  A judge,
\* base-n-judge-k, matches too, with the number k.
LaterSiblings(c) ==
  {d \in Cells : /\ state[d] = "declared"
                 /\ IterNo[d] > 0 \/ JudgeOf[d] > 0
                 /\ Suffix[d] > IterNo[c]}

Guard(p) ==
  /\ pc[p] = "guard"
  /\ IF GuardMet(loc[p].at) THEN Goto(p, "later") /\ UNCHANGED loc
     ELSE Leave(p)
  /\ UNCHANGED <<tables, History>>

\* Mutant of SkippedIterations: the loop starts at the current iteration.
SkippedFromCurrent(c, bottomed) == IterNo[c] .. IterNo[c] + bottomed

\* for n := currentN + 1; n <= currentN + bottomed; n++
SkippedIterations(c, bottomed) == IterNo[c] + 1 .. IterNo[c] + bottomed

Later(p) ==
  LET c == loc[p].at
  IN /\ pc[p] = "later"
     /\ loc' = [loc EXCEPT ![p] = [NoLocals EXCEPT
                  !.batch = LaterSiblings(c), !.ret = "skip",
                  !.iters = SkippedIterations(c, Cardinality(LaterSiblings(c)))]]
     /\ Goto(p, "skip")
     /\ UNCHANGED <<tables, History>>

SkipNext(p) ==
  /\ pc[p] = "skip"
  /\ \E c \in loc[p].batch :
       loc' = [loc EXCEPT ![p].at = c, ![p].batch = @ \ {c}]
  /\ Goto(p, "botCell")
  /\ UNCHANGED <<tables, History>>

\* Then the declared judges of as many iterations as cells were bottomed.
SkipJudges(p) ==
  /\ pc[p] = "skip"
  /\ loc[p].batch = {}
  /\ IF loc[p].iters = {} THEN Leave(p)
     ELSE LET n == Min(loc[p].iters)
          IN /\ loc' = [loc EXCEPT ![p].iters = @ \ {n}, ![p].batch =
                          {d \in Cells : JudgeOf[d] = n /\ state[d] = "declared"}]
             /\ UNCHANGED pc
  /\ UNCHANGED <<tables, History>>

-----------------------------------------------------------------------------
(* bottomCell.                                                             *)

BottomCell(p) ==
  /\ pc[p] = "botCell"
  /\ SetBottom(loc[p].at)
  /\ Goto(p, "botYields")
  /\ UNCHANGED <<loc, History>>

BottomYields(p) ==
  /\ pc[p] = "botYields"
  /\ BottomSlots(loc[p].at)
  /\ Goto(p, "botClaim")
  /\ UNCHANGED <<loc, History>>

BottomClaim(p) ==
  LET c == loc[p].at
  IN /\ pc[p] = "botClaim"
     /\ DeleteClaims({c})
     /\ Revoke(Victims(p, {c}))
     /\ Goto(p, loc[p].ret)
     /\ UNCHANGED <<loc, crashes, evaluated>>

-----------------------------------------------------------------------------
(* replRelease, and replReleaseAll when ct repl is interrupted.            *)

ReleaseAll(p) ==
  /\ pc[p] = "idle"
  /\ \E c \in Cells : claim[c] = p
  /\ loc' = [loc EXCEPT ![p] = [NoLocals EXCEPT
               !.batch = {c \in Cells : claim[c] = p}]]
  /\ Goto(p, "release")
  /\ UNCHANGED <<tables, History>>

ReleaseNext(p) ==
  /\ pc[p] = "release"
  /\ \/ \E c \in loc[p].batch :
          /\ loc' = [loc EXCEPT ![p].at = c, ![p].batch = @ \ {c}]
          /\ Goto(p, "relClaim")
     \/ /\ loc[p].batch = {}
        /\ Goto(p, loc[p].ret)
        /\ loc' = [loc EXCEPT ![p] = NoLocals]
  /\ UNCHANGED <<tables, History>>

\* Only a claim of p's own is deleted.
ReleaseClaim(p) ==
  LET c == loc[p].at
  IN /\ pc[p] = "relClaim"
     /\ DeleteClaims({d \in {c} : claim[d] = p})
     /\ Goto(p, "relCell")
     /\ UNCHANGED <<loc, History>>

ReleaseCell(p) ==
  /\ pc[p] = "relCell"
  /\ ResetIfComputing(loc[p].at)
  /\ Goto(p, "relTrace")
  /\ UNCHANGED <<loc, History>>

ReleaseTrace(p) ==
  /\ pc[p] = "relTrace"
  /\ TraceRelease(loc[p].at, loc[p].ret = "find")
  /\ Goto(p, "release")
  /\ UNCHANGED <<loc, History>>

-----------------------------------------------------------------------------
(* The environment.                                                        *)

\* A process is killed, or an LLM walks away from the cell dispatched to it.
Crash(p) ==
  /\ crashes < MaxCrashes
  /\ pc[p] # "idle"
  /\ crashes' = crashes + 1
  /\ Leave(p)
  /\ UNCHANGED <<tables, revoked, evaluated>>

\* The cells whose lease may run out: a lease that is not abandoned runs out
\* only on a piston slower than two minutes.
Expiring ==
  CASE Lapsing = "none"      -> {}
    [] Lapsing = "abandoned" -> {c \in Cells : \A p \in Pistons : ~AtWork(p, c)}
    [] Lapsing = "any"       -> Cells

Lapse ==
  /\ \E c \in Expiring : "fresh" \in {since[c], age[c]}
  /\ TimePasses(Expiring)
  /\ UNCHANGED <<pc, loc, History>>

EvalStep(p) ==
  \/ ReapCells(p) \/ ReapClaims(p) \/ FindReady(p) \/ Quiescent(p)
  \/ ClaimWon(p) \/ ClaimLost(p) \/ CheckInputs(p) \/ Mark(p)
  \/ LiteralYields(p) \/ LiteralCell(p) \/ LiteralClaim(p)
  \/ SqlSucceeds(p) \/ SqlFails(p) \/ SqlSubmits(p) \/ LlmSubmits(p)

Submit(p) ==
  \/ SubmitCell(p) \/ SubmitFrozen(p) \/ SubmitWrite(p) \/ SubmitFreeze(p)
  \/ SubmitCount(p) \/ SubmitDone(p) \/ SubmitClaim(p)
  \/ Guard(p) \/ Later(p) \/ SkipNext(p) \/ SkipJudges(p)

GiveUp(p) ==
  \/ BottomCell(p) \/ BottomYields(p) \/ BottomClaim(p)
  \/ ReleaseNext(p) \/ ReleaseClaim(p) \/ ReleaseCell(p) \/ ReleaseTrace(p)

PistonStep(p) == EvalStep(p) \/ Submit(p) \/ GiveUp(p)

Next ==
  \/ \E p \in Pistons : PistonStep(p) \/ ReleaseAll(p) \/ Crash(p)
  \/ Lapse

Spec == Init /\ [][Next]_vars

-----------------------------------------------------------------------------
(* Correctness.                                                            *)

\* A cell marked frozen has every one of its yields frozen: no interleaving
\* of submissions, reaping, re-claiming and crashes marks it early.
FrozenComplete == \A c \in Cells : state[c] = "frozen" => AllFrozen(c)

\* No piston computes a cell before the yields it reads are frozen, although
\* readiness was read several statements before the cell was marked.
InputsReady ==
  \A c \in Cells : state[c] = "computing" => \A s \in Required[c] : frozen[s]

\* Two pistons are at work on the same cell only if the claim of one of them
\* was deleted under it, by the reaper or by a guard skip: INSERT IGNORE is
\* the mutex, and nothing else the engine does breaks it.
OneEvaluator ==
  \A c \in Cells, p, q \in Pistons :
    AtWork(p, c) /\ AtWork(q, c) /\ p # q => revoked[c]

\* A yield whose value its oracles reject is never frozen, unless a claim
\* on the cell was revoked and two submissions wrote the same slot.
OracleSound ==
  \A s \in Slots : frozen[s] /\ value[s] = "bad" => revoked[s[1]]

\* As long as no piston died in the middle of bottomCell, every bottomed
\* cell has the bottom value in all its slots, so its dependents can see it.
BottomSealed ==
  \A c \in Cells :
    /\ state[c] = "bottom"
    /\ crashes = 0
    /\ \A p \in Pistons : ~(pc[p] = "botYields" /\ loc[p].at = c)
    => \A s \in SlotsOf(c) : frozen[s] /\ value[s] = "bottom"

\* The tables behave as the claim store of formal/Claims.lean: one holder per
\* frame, changed only through a free frame, and frozen yields that change
\* only when their whole cell is bottomed.
Store == INSTANCE ClaimStore WITH
  Frames <- Cells, Absent <- "null", Bottom <- "bottom", holder <- claim,
  yieldStore <- [s \in Slots |-> IF frozen[s] THEN value[s] ELSE "null"]

ImplementsClaimStore == Store!Spec

-----------------------------------------------------------------------------
(* What only holds of one piston, or of no code at all: see the README.    *)

\* Once an iteration meets its guard and its piston is done, every later
\* iteration is bottomed.
LaterSkipped ==
  \A c, d \in Cells :
    /\ IterNo[c] > 0 /\ IterNo[d] > IterNo[c]
    /\ GuardMet(c) /\ state[c] = "frozen"
    /\ \A p \in Pistons : pc[p] = "idle"
    => state[d] = "bottom"

\* A judge is bottomed only together with the iteration it judges.
JudgeFollowsIteration ==
  \A d \in Cells :
    /\ JudgeOf[d] > 0 /\ state[d] = "bottom"
    => \E c \in Cells : IterNo[c] = JudgeOf[d] /\ state[c] = "bottom"

\* Racing pistons never evaluate a cell twice.
NoDoubleEvaluation == \A c \in Cells : evaluated[c] < 2

-----------------------------------------------------------------------------
(* Liveness.  A piston session polls for ever (ct next --wait, ct repl, or *)
(* a supervisor that restarts ct piston) and a started handler runs on; an *)
(* LLM asked again and again in the end gives an answer its oracles        *)
(* accept; time passes.                                                    *)

AcceptableAnswer(p) == LlmSubmits(p) /\ loc'[p].ans # "bad"

FairSpec ==
  /\ Spec
  /\ \A p \in Pistons : WF_vars(PistonStep(p)) /\ SF_vars(AcceptableAnswer(p))
  /\ WF_vars(Lapse)

\* The program completes and stays complete.
Settles == <>[]Complete
=============================================================================
