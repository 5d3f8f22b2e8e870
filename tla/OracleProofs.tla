---------------------------- MODULE OracleProofs ----------------------------
(***************************************************************************)
(* A value the oracles reject is never frozen, for every program, every    *)
(* set of pistons, any crashes and any leases that run out, as long as no  *)
(* claim on the cell was revoked.                                          *)
(*                                                                         *)
(* replSubmit writes the value, judges its own copy of it and then freezes *)
(* whatever the row holds.  What is judged is what is frozen because the   *)
(* row is in the hands of one piston: any other writer would be at work on *)
(* the same cell, which OneEvaluator excludes.                             *)
(***************************************************************************)
EXTENDS EvalEngineProofs

\* The value between SubmitWrite and SubmitFreeze is the one that was judged.
JudgedHeld ==
  \A p \in Pistons :
    pc[p] = "subFreeze" => value[loc[p].slot] # "bad" \/ revoked[loc[p].at]

OracleInv == OracleSound /\ JudgedHeld

\* What a handler leaves in the table of yields when it writes no answer.
Fixed == {"literal", "bottom"}

-----------------------------------------------------------------------------
(* The four statements that write yields.                                  *)

Silent(p) == UNCHANGED <<value, frozen>> /\ pc'[p] # "subFreeze"

\* The steps of replEvalStep but the literal branch write no yield.
LEMMA EvalStepSilent ==
  ASSUME TypeOK, Controlled, NEW p \in Pistons, EvalStep(p), ~LiteralYields(p)
  PROVE  Silent(p)
<1> USE DEF Silent, Goto, Leave, tables, TypeOK
<1>1. CASE ReapCells(p) \/ ReapClaims(p) \/ FindReady(p) \/ Quiescent(p)
  BY <1>1 DEF ReapCells, ReapStaleCells, ReapClaims, DeleteClaims, FindReady,
              Quiescent
<1>2. CASE ClaimWon(p) \/ ClaimLost(p) \/ CheckInputs(p)
  BY <1>2 DEF ClaimWon, InsertClaim, ClaimLost, CheckInputs
<1>3. CASE Mark(p)
  <2>1. loc[p].at \in Cells
    BY <1>3 DEF Mark, Controlled, ControlOf, Nowhere
  <2>2. Dispatch[Kind[loc[p].at]] # "subFreeze"
    BY <2>1, RetortAssumption DEF Dispatch, Kinds
  <2> QED BY <1>3, <2>2 DEF Mark, SetCell
<1>4. CASE LiteralCell(p) \/ LiteralClaim(p)
  BY <1>4 DEF LiteralCell, SetCell, LiteralClaim, DeleteClaims
<1>5. CASE SqlSucceeds(p) \/ SqlFails(p) \/ SqlSubmits(p) \/ LlmSubmits(p)
  BY <1>5 DEF SqlSucceeds, SqlFails, SqlSubmits, LlmSubmits
<1> QED BY <1>1, <1>2, <1>3, <1>4, <1>5 DEF EvalStep

\* replSubmit and checkGuardSkip write yields in two statements only.
LEMMA SubmitSilent ==
  ASSUME TypeOK, NEW p \in Pistons, Submit(p), ~SubmitWrite(p), ~SubmitFreeze(p)
  PROVE  Silent(p)
BY DEF Submit, SubmitCell, SubmitFrozen, SubmitCount, SubmitDone, SubmitClaim,
       SetCell, DeleteClaims, Guard, Later, SkipNext, SkipJudges, Return,
       Silent, Goto, Leave, tables, TypeOK

\* Of bottomCell and replRelease only one statement writes yields.
LEMMA GiveUpSilent ==
  ASSUME TypeOK, NEW p \in Pistons, GiveUp(p), ~BottomYields(p)
  PROVE  Silent(p)
<1>1. loc[p].ret # "subFreeze"
  BY DEF TypeOK, Locals
<1> QED
  BY <1>1 DEF GiveUp, BottomCell, SetBottom, BottomClaim, ReleaseNext,
          ReleaseClaim, DeleteClaims, ReleaseCell, ResetIfComputing,
          ReleaseTrace, TraceRelease, Silent, Goto, tables, TypeOK

\* A step that writes a yield leaves a fixed value in it, or replaces an open
\* value by the answer at hand, or freezes what is there.
Writes(p, s) ==
  \/ value'[s] \in Fixed
  \/ value'[s] = value[s] /\ frozen'[s] = frozen[s]
  \/ /\ pc[p] = "subWrite" /\ s = loc[p].slot
     /\ ~frozen[s] /\ ~frozen'[s]
  \/ /\ pc[p] = "subFreeze" /\ s = loc[p].slot
     /\ value'[s] = value[s]

\* Every step writes every yield in one of these four ways, or not at all.
LEMMA StepWrites ==
  ASSUME TypeOK, Controlled, NEW p \in Pistons, Step(p), NEW s \in Slots
  PROVE  Writes(p, s)
<1> USE DEF TypeOK, TablesTypeOK, Writes, Fixed
<1>1. CASE Silent(p)
  BY <1>1 DEF Silent
<1>2. CASE LiteralYields(p)
  BY <1>2 DEF LiteralYields, FreezeLiteral
<1>3. CASE BottomYields(p)
  BY <1>3 DEF BottomYields, BottomSlots
<1>4. CASE SubmitWrite(p)
  BY <1>4 DEF SubmitWrite, WriteSlot
<1>5. CASE SubmitFreeze(p)
  BY <1>5 DEF SubmitFreeze, FreezeSlot
<1>6. CASE ReleaseAll(p) \/ Crash(p)
  BY <1>6 DEF ReleaseAll, Crash, tables
<1> QED
  BY <1>1, <1>2, <1>3, <1>4, <1>5, <1>6, EvalStepSilent, SubmitSilent,
     GiveUpSilent DEF Step, PistonStep

\* A piston comes to freeze a slot with an accepted value in it, or frozen
\* already by somebody else.
LEMMA StepJudges ==
  ASSUME TypeOK, Controlled, NEW p \in Pistons, Step(p), pc'[p] = "subFreeze"
  PROVE  /\ loc'[p] = loc[p] /\ loc[p].slot \in SlotsOf(loc[p].at)
         /\ \/ value'[loc[p].slot] # "bad"
            \/ frozen[loc[p].slot] /\ value'[loc[p].slot] = value[loc[p].slot]
<1>1. SubmitWrite(p)
  <2>1. ~Silent(p)
    BY DEF Silent
  <2>2. ~LiteralYields(p) /\ ~BottomYields(p) /\ ~SubmitFreeze(p)
    BY DEF LiteralYields, BottomYields, SubmitFreeze, Goto, TypeOK
  <2>3. ~ReleaseAll(p) /\ ~Crash(p)
    BY DEF ReleaseAll, Crash, Goto, Leave, TypeOK
  <2> QED BY <2>1, <2>2, <2>3, EvalStepSilent, SubmitSilent, GiveUpSilent
          DEF Step, PistonStep
<1>2. loc[p].slot \in SlotsOf(loc[p].at)
  BY <1>1 DEF SubmitWrite, Controlled, ControlOf, Submitting
<1>3. loc[p].ans # "bad" /\ UNCHANGED loc
  BY <1>1 DEF SubmitWrite, Return, Goto, TypeOK
<1>4. value'[loc[p].slot] = IF frozen[loc[p].slot] THEN value[loc[p].slot]
                                                   ELSE loc[p].ans
  BY <1>1, <1>2 DEF SubmitWrite, WriteSlot, SlotsOf, TypeOK, TablesTypeOK
<1> QED BY <1>2, <1>3, <1>4

-----------------------------------------------------------------------------
(* The invariant.                                                          *)

\* Every step keeps the judged values in the hands of their pistons.
LEMMA OracleStep ==
  ASSUME TypeOK, Controlled, HoldsClaim, OracleInv, [Next]_vars
  PROVE  OracleInv'
<1>1. CASE UNCHANGED vars
  BY <1>1 DEF OracleInv, OracleSound, JudgedHeld, vars, tables
<1>2. CASE Lapse
  BY <1>2 DEF Lapse, TimePasses, History, OracleInv, OracleSound, JudgedHeld
<1>3. ASSUME NEW p \in Pistons, Step(p) PROVE OracleInv'
  <2>1. \A c \in Cells : revoked[c] => revoked'[c]
    BY <1>3, StepKeepsRevoked
  <2>2. \A q \in Pistons : pc[q] \in Submitting =>
          /\ loc[q].slot \in Slots /\ loc[q].at \in Cells
          /\ loc[q].slot[1] = loc[q].at
    BY DEF Controlled, ControlOf, Submitting, Nowhere, SlotsOf
  <2>3. \A s \in Slots : s[1] \in Cells
    BY RetortAssumption
  <2>4. OracleSound'
    <3> SUFFICES ASSUME NEW s \in Slots, frozen'[s], value'[s] = "bad"
                 PROVE  revoked'[s[1]]
      BY DEF OracleSound
    <3>1. \/ value'[s] = value[s] /\ frozen'[s] = frozen[s]
          \/ pc[p] = "subFreeze" /\ s = loc[p].slot /\ value'[s] = value[s]
      BY <1>3, StepWrites DEF Writes, Fixed
    <3>2. revoked[s[1]]
      BY <2>2, <3>1 DEF OracleInv, OracleSound, JudgedHeld, Submitting
    <3> QED BY <2>1, <2>3, <3>2
  <2>5. ASSUME NEW q \in Pistons, pc'[q] = "subFreeze"
        PROVE  value'[loc'[q].slot] # "bad" \/ revoked'[loc'[q].at]
    <3>1. CASE q = p
      <4>1. /\ loc'[p] = loc[p] /\ loc[p].slot \in Slots
            /\ loc[p].slot[1] = loc[p].at
            /\ \/ value'[loc[p].slot] # "bad"
               \/ frozen[loc[p].slot] /\ value'[loc[p].slot] = value[loc[p].slot]
        BY <1>3, <2>5, <3>1, StepJudges DEF SlotsOf
      <4> QED BY <2>1, <2>3, <3>1, <4>1 DEF OracleInv, OracleSound
    <3>2. CASE q # p
      <4>1. pc[q] = "subFreeze" /\ loc'[q] = loc[q]
        BY <1>3, <2>5, <3>2, OthersStay
      <4>2. loc[q].slot \in Slots /\ loc[q].at \in Cells
            /\ loc[q].slot[1] = loc[q].at
        BY <2>2, <4>1 DEF Submitting
      <4>3. value[loc[q].slot] # "bad" \/ revoked[loc[q].at]
        BY <4>1 DEF OracleInv, JudgedHeld
      <4>4. CASE pc[p] = "subWrite" /\ loc[q].slot = loc[p].slot
        <5>1. loc[p].at = loc[q].at
          BY <2>2, <4>2, <4>4 DEF Submitting
        <5>2. AtWork(p, loc[q].at) /\ AtWork(q, loc[q].at)
          BY <4>1, <4>4, <5>1 DEF AtWork, Critical
        <5>3. revoked[loc[q].at]
          BY <3>2, <4>2, <5>2 DEF HoldsClaim
        <5> QED BY <2>1, <4>1, <4>2, <5>3
      <4>5. CASE ~(pc[p] = "subWrite" /\ loc[q].slot = loc[p].slot)
        <5>1. value'[loc[q].slot] \in Fixed
              \/ value'[loc[q].slot] = value[loc[q].slot]
          BY <1>3, <4>2, <4>5, StepWrites DEF Writes
        <5> QED BY <2>1, <4>1, <4>2, <4>3, <5>1 DEF Fixed
      <4> QED BY <4>4, <4>5
    <3> QED BY <3>1, <3>2
  <2> QED BY <2>4, <2>5 DEF OracleInv, JudgedHeld
<1> QED BY <1>1, <1>2, <1>3 DEF Next, Step

\* A value that an oracle rejects is never frozen, unless a claim on its cell
\* was revoked: between the judgement and the freeze nobody replaces the value.
THEOREM OracleSoundAlways == Spec => []OracleSound
<1>1. Init => OracleInv
  <2>1. \A s \in Slots : Poured => value[s] # "bad"
    BY DEF Poured
  <2>2. Init => OracleSound
    BY <2>1 DEF Init, OracleSound
  <2>3. Init => JudgedHeld
    BY DEF Init, JudgedHeld
  <2> QED BY <2>2, <2>3 DEF OracleInv
<1>2. TypeOK /\ Controlled /\ HoldsClaim /\ OracleInv /\ [Next]_vars => OracleInv'
  BY OracleStep
<1>3. OracleInv => OracleSound
  BY DEF OracleInv
<1> QED BY <1>1, <1>2, <1>3, Typed, HoldsClaimAlways, PTL DEF Spec
=============================================================================
