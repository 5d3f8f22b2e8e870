-------------------------- MODULE EvalEngineProofs --------------------------
(* Theorems about EvalEngine, for every program, every set of pistons, any *)
(* number of crashes and any leases that may run out.                      *)
EXTENDS EvalEngine, FiniteSetTheorems, TLAPS

-----------------------------------------------------------------------------
(* What the statements of Retort do to the tables: they keep the types,    *)
(* and no statement ever makes a frozen yield unfrozen.                    *)

FrozenStays == \A s \in Slots : frozen[s] => frozen'[s]

\* Marking a cell with a state and a timestamp keeps types and frozen yields.
LEMMA SetCellKeeps ==
  ASSUME TablesTypeOK, NEW c, NEW st \in States, NEW t \in Ages,
         SetCell(c, st, t)
  PROVE  TablesTypeOK' /\ FrozenStays
BY DEF TablesTypeOK, SetCell, FrozenStays

\* Marking a cell bottom keeps types and frozen yields.
LEMMA SetBottomKeeps ==
  ASSUME TablesTypeOK, NEW c, SetBottom(c)
  PROVE  TablesTypeOK' /\ FrozenStays
BY DEF TablesTypeOK, SetBottom, FrozenStays, States

\* Inserting a claim keeps types and frozen yields.
LEMMA InsertClaimKeeps ==
  ASSUME TablesTypeOK, NEW c, NEW p \in Pistons, InsertClaim(c, p)
  PROVE  TablesTypeOK' /\ FrozenStays
BY DEF TablesTypeOK, InsertClaim, FrozenStays, Ages

\* Deleting claims keeps types and frozen yields.
LEMMA DeleteClaimsKeeps ==
  ASSUME TablesTypeOK, NEW C, DeleteClaims(C)
  PROVE  TablesTypeOK' /\ FrozenStays
BY DEF TablesTypeOK, DeleteClaims, FrozenStays, Ages

\* Writing a slot keeps types and frozen yields.
LEMMA WriteSlotKeeps ==
  ASSUME TablesTypeOK, NEW s, NEW v \in Values, WriteSlot(s, v)
  PROVE  TablesTypeOK' /\ FrozenStays
BY DEF TablesTypeOK, WriteSlot, FrozenStays

\* Freezing a slot keeps types and frozen yields.
LEMMA FreezeSlotKeeps ==
  ASSUME TablesTypeOK, NEW s, FreezeSlot(s)
  PROVE  TablesTypeOK' /\ FrozenStays
BY DEF TablesTypeOK, FreezeSlot, FrozenStays

\* The literal body keeps types and frozen yields.
LEMMA FreezeLiteralKeeps ==
  ASSUME TablesTypeOK, NEW c, FreezeLiteral(c)
  PROVE  TablesTypeOK' /\ FrozenStays
BY DEF TablesTypeOK, FreezeLiteral, FrozenStays, Values

\* Bottoming the slots of a cell keeps types and frozen yields.
LEMMA BottomSlotsKeeps ==
  ASSUME TablesTypeOK, NEW c, BottomSlots(c)
  PROVE  TablesTypeOK' /\ FrozenStays
BY DEF TablesTypeOK, BottomSlots, FrozenStays, Values

\* Reaping cells keeps types and frozen yields.
LEMMA ReapKeeps ==
  ASSUME TablesTypeOK, ReapStaleCells
  PROVE  TablesTypeOK' /\ FrozenStays
BY DEF TablesTypeOK, ReapStaleCells, FrozenStays, States, Ages

\* Resetting a computing cell keeps types and frozen yields.
LEMMA ResetKeeps ==
  ASSUME TablesTypeOK, NEW c, ResetIfComputing(c)
  PROVE  TablesTypeOK' /\ FrozenStays
BY DEF TablesTypeOK, ResetIfComputing, FrozenStays, States, Ages

\* Counting a failure keeps types and frozen yields.
LEMMA TraceReleaseKeeps ==
  ASSUME TablesTypeOK, NEW c \in Cells, NEW b \in BOOLEAN, TraceRelease(c, b)
  PROVE  TablesTypeOK' /\ FrozenStays
<1>1. failures' \in [Cells -> 0..MaxFailures]
  <2>1. CASE b = TRUE
    BY <2>1 DEF TablesTypeOK, TraceRelease, MaxFailures
  <2>2. CASE b = FALSE
    BY <2>2 DEF TablesTypeOK, TraceRelease, MaxFailures
  <2> QED BY <2>1, <2>2
<1> QED BY <1>1 DEF TablesTypeOK, TraceRelease, FrozenStays

\* The passing of a lease keeps types and frozen yields.
LEMMA TimePassesKeeps ==
  ASSUME TablesTypeOK, NEW C, TimePasses(C)
  PROVE  TablesTypeOK' /\ FrozenStays
BY DEF TablesTypeOK, TimePasses, FrozenStays, Ages

\* So does a step that leaves the tables alone.
LEMMA UnchangedKeeps ==
  ASSUME TablesTypeOK, UNCHANGED tables
  PROVE  TablesTypeOK' /\ FrozenStays
BY DEF TablesTypeOK, tables, FrozenStays

-----------------------------------------------------------------------------
(* The control of one piston: what its local variables hold at each of its *)
(* labels.  It speaks of no table, so no other piston can disturb it.      *)

Nowhere    == {"idle", "reapClaims", "find", "skip", "release"}
Submitting == {"subCell", "subFrozen", "subWrite", "subFreeze"}
Releasing  == {"release", "relClaim", "relCell", "relTrace"}

ControlOf(l, r) ==
  /\ l \notin Nowhere => r.at \in Cells
  /\ l \in Critical \cup {"claim"} => r.todo \subseteq SlotsOf(r.at)
  /\ l \in Critical \cup {"claim"} => r.batch = {}
  /\ l \in Submitting => r.slot \in SlotsOf(r.at)
  /\ l = "skip" => r.ret = "skip"
  /\ l \in Releasing => r.ret # "skip" /\ (r.ret = "find" => r.batch = {})

Controlled == \A p \in Pistons : ControlOf(pc[p], loc[p])

\* The empty local variables have their type.
LEMMA NoLocalsType == NoLocals \in Locals
BY DEF NoLocals, Locals, Values

\* A piston that moves to label l with local variables r that fit it leaves
\* the control of all pistons well formed.
LEMMA MoveKeeps ==
  ASSUME TypeOK, Controlled, NEW p \in Pistons, NEW l \in Labels,
         NEW r \in Locals, ControlOf(l, r),
         pc' = [pc EXCEPT ![p] = l], loc' = [loc EXCEPT ![p] = r]
  PROVE  /\ pc' \in [Pistons -> Labels]
         /\ loc' \in [Pistons -> Locals]
         /\ Controlled'
<1>1. pc' \in [Pistons -> Labels] /\ loc' \in [Pistons -> Locals]
  BY DEF TypeOK
<1>2. ASSUME NEW q \in Pistons PROVE ControlOf(pc'[q], loc'[q])
  <2>1. CASE q = p  BY <2>1 DEF TypeOK
  <2>2. CASE q # p  BY <2>2 DEF TypeOK, Controlled
  <2> QED BY <2>1, <2>2
<1> QED BY <1>1, <1>2 DEF Controlled

\* The move of a piston that leaves its handler.
LEMMA LeaveKeeps ==
  ASSUME TypeOK, Controlled, NEW p \in Pistons, Leave(p)
  PROVE  /\ pc' \in [Pistons -> Labels]
         /\ loc' \in [Pistons -> Locals]
         /\ Controlled'
<1>1. "idle" \in Labels /\ ControlOf("idle", NoLocals)
  BY DEF Labels, ControlOf, Nowhere, Critical, Submitting, Releasing
<1> QED BY <1>1, NoLocalsType, MoveKeeps DEF Leave, Goto

\* The move of a piston that keeps its local variables.
LEMMA GotoKeeps ==
  ASSUME TypeOK, Controlled, NEW p \in Pistons, NEW l \in Labels,
         ControlOf(l, loc[p]), Goto(p, l), UNCHANGED loc
  PROVE  /\ pc' \in [Pistons -> Labels]
         /\ loc' \in [Pistons -> Locals]
         /\ Controlled'
<1>1. loc[p] \in Locals /\ loc' = [loc EXCEPT ![p] = loc[p]]
  BY DEF TypeOK
<1> QED BY <1>1, MoveKeeps DEF Goto

-----------------------------------------------------------------------------
(* One step keeps the types, the control and the frozen yields.            *)

\* Every step keeps the types, the control and the frozen yields.
LEMMA StepKeeps ==
  ASSUME TypeOK, Controlled, [Next]_vars
  PROVE  TypeOK' /\ Controlled' /\ FrozenStays
<1> DEFINE Moved == /\ pc' \in [Pistons -> Labels]
                    /\ loc' \in [Pistons -> Locals]
                    /\ Controlled'
           Counted == /\ crashes' \in 0..MaxCrashes
                      /\ revoked' \in [Cells -> BOOLEAN]
                      /\ evaluated' \in [Cells -> 0..2]
           Kept == TablesTypeOK' /\ FrozenStays
<1>a. SUFFICES Kept /\ Moved /\ Counted
  BY DEF TypeOK
<1>b. TablesTypeOK /\ (UNCHANGED History => Counted)
  BY DEF TypeOK, History
<1>c. ASSUME NEW c \in Cells, CountEvaluation(c), UNCHANGED <<crashes, revoked>>
      PROVE  Counted
  BY <1>c DEF TypeOK, CountEvaluation
<1>d. ASSUME NEW C, Revoke(C), UNCHANGED <<crashes, evaluated>>
      PROVE  Counted
  BY <1>d DEF TypeOK, Revoke
<1> HIDE DEF Moved, Counted, Kept
<1>1. CASE UNCHANGED vars
  BY <1>1, <1>b, UnchangedKeeps
     DEF vars, History, TypeOK, Controlled, Moved, Kept
<1>2. CASE Lapse
  BY <1>2, <1>b, TimePassesKeeps DEF Lapse, TypeOK, Controlled, Moved, Kept
<1>3. ASSUME NEW p \in Pistons,
             PistonStep(p) \/ ReleaseAll(p) \/ Crash(p)
      PROVE  Kept /\ Moved /\ Counted
  <2>a. /\ pc[p] \in Labels /\ loc[p] \in Locals
        /\ ControlOf(pc[p], loc[p])
    BY DEF TypeOK, Controlled
  <2>b. ASSUME Return(p), pc[p] \in Critical
        PROVE  Moved
    <3> DEFINE r == [loc[p] EXCEPT !.todo = @ \ {loc[p].slot}]
    <3>1. /\ r \in Locals
          /\ "sqlNext" \in Labels /\ ControlOf("sqlNext", r)
          /\ "think" \in Labels /\ ControlOf("think", r)
      BY <2>a, <2>b
         DEF Locals, ControlOf, Nowhere, Critical, Submitting, Releasing,
             Labels
    <3> QED BY <2>b, <3>1, MoveKeeps DEF Return, Goto, Moved
  <2>1. CASE ReapCells(p)
    <3>1. Kept
      BY <2>1, <2>a, <1>b, ReapKeeps DEF ReapCells, Kept
    <3>2. "reapClaims" \in Labels /\ ControlOf("reapClaims", loc[p])
      BY <2>1, <2>a
         DEF ReapCells, ControlOf, Nowhere, Critical, Submitting, Releasing,
             Labels
    <3>3. Moved
      BY <2>1, <3>2, GotoKeeps DEF ReapCells, History, Moved
    <3> QED BY <2>1, <3>1, <3>3, <1>b DEF ReapCells
  <2>2. CASE ReapClaims(p)
    <3>1. Kept
      BY <2>2, <2>a, <1>b, DeleteClaimsKeeps DEF ReapClaims, Kept
    <3>2. "find" \in Labels /\ ControlOf("find", loc[p])
      BY <2>2, <2>a
         DEF ReapClaims, ControlOf, Nowhere, Critical, Submitting, Releasing,
             Labels
    <3>3. Moved
      BY <2>2, <3>2, GotoKeeps DEF ReapClaims, History, Moved
    <3> QED BY <2>2, <3>1, <3>3, <1>d DEF ReapClaims
  <2>3. CASE FindReady(p)
    <3>1. Kept
      BY <2>3, <2>a, <1>b, UnchangedKeeps DEF FindReady, Kept
    <3>2. PICK c \in Cells : loc' = [loc EXCEPT ![p] = [NoLocals EXCEPT !.at = c]]
      BY <2>3 DEF FindReady
    <3> DEFINE r == [NoLocals EXCEPT !.at = c]
    <3>4. r \in Locals /\ "claim" \in Labels /\ ControlOf("claim", r)
      BY DEF NoLocals, Locals, Values, ControlOf, Nowhere, Critical,
         Submitting, Releasing, Labels
    <3>3. Moved
      BY <2>3, <3>2, <3>4, MoveKeeps DEF FindReady, Goto, Moved
    <3> QED BY <2>3, <3>1, <3>3, <1>b DEF FindReady
  <2>4. CASE Quiescent(p)
    <3>1. Kept
      BY <2>4, <2>a, <1>b, UnchangedKeeps DEF Quiescent, Kept
    <3>3. Moved
      BY <2>4, LeaveKeeps DEF Quiescent, Moved
    <3> QED BY <2>4, <3>1, <3>3, <1>b DEF Quiescent
  <2>5. CASE ClaimWon(p)
    <3>1. Kept
      BY <2>5, <2>a, <1>b, InsertClaimKeeps DEF ClaimWon, Kept
    <3>2. "claimed" \in Labels /\ ControlOf("claimed", loc[p])
      BY <2>5, <2>a
         DEF ClaimWon, ControlOf, Nowhere, Critical, Submitting, Releasing,
             Labels
    <3>3. Moved
      BY <2>5, <3>2, GotoKeeps DEF ClaimWon, History, Moved
    <3> QED BY <2>5, <3>1, <3>3, <1>b DEF ClaimWon
  <2>6. CASE ClaimLost(p)
    <3>1. Kept
      BY <2>6, <2>a, <1>b, UnchangedKeeps DEF ClaimLost, Kept
    <3> DEFINE r == NoLocals
    <3>2. r \in Locals /\ "find" \in Labels /\ ControlOf("find", r)
      BY <2>6, <2>a, NoLocalsType
         DEF ClaimLost, NoLocals, Locals, ControlOf, Nowhere, Critical,
             Submitting, Releasing, Labels
    <3>3. Moved
      BY <2>6, <3>2, MoveKeeps DEF ClaimLost, Goto, Moved
    <3> QED BY <2>6, <3>1, <3>3, <1>b DEF ClaimLost
  <2>7. CASE CheckInputs(p)
    <3>1. Kept
      BY <2>7, <2>a, <1>b, UnchangedKeeps DEF CheckInputs, Kept
    <3>2. /\ "botCell" \in Labels /\ ControlOf("botCell", loc[p])
          /\ "mark" \in Labels /\ ControlOf("mark", loc[p])
      BY <2>7, <2>a
         DEF CheckInputs, ControlOf, Nowhere, Critical, Submitting, Releasing,
             Labels
    <3>3. Moved
      BY <2>7, <3>2, GotoKeeps DEF CheckInputs, Moved
    <3> QED BY <2>7, <3>1, <3>3, <1>b DEF CheckInputs
  <2>8. CASE Mark(p)
    <3>1. Kept
      BY <2>8, <2>a, <1>b, SetCellKeeps DEF Mark, Kept, States, Ages
    <3> DEFINE c == loc[p].at
               l == Dispatch[Kind[c]]
               r == IF Kind[c] = "dml" THEN NoLocals
                    ELSE [loc[p] EXCEPT !.todo = SlotsOf(c)]
    <3>2. c \in Cells
      BY <2>8, <2>a
         DEF Mark, ControlOf, Nowhere, Critical, Submitting, Releasing, Labels
    <3>4. Kind[c] \in Kinds /\ SlotsOf(c) \subseteq Slots
      BY <3>2, RetortAssumption DEF SlotsOf
    <3>5. r \in Locals
      BY <2>a, <3>4, NoLocalsType DEF Locals
    <3>6. l \in Labels /\ ControlOf(l, r)
      <4>1. l \in {"idle", "litYields", "sqlRun", "think"} /\ (Kind[c] = "dml" <=> l = "idle")
        BY <3>4 DEF Kinds, Dispatch
      <4>2. l # "idle" => r.at = c /\ r.todo = SlotsOf(c) /\ r.batch = {}
        <5>1. loc[p].batch = {}
          BY <2>8, <2>a DEF Mark, ControlOf, Critical
        <5>2. l # "idle" => r = [loc[p] EXCEPT !.todo = SlotsOf(c)]
          BY <4>1
        <5> HIDE DEF l, r
        <5> QED BY <2>a, <5>1, <5>2 DEF Locals
      <4> HIDE DEF l, r
      <4> QED
        BY <3>2, <4>1, <4>2
           DEF ControlOf, Nowhere, Critical, Submitting, Releasing, Labels
    <3>7. pc' = [pc EXCEPT ![p] = l] /\ loc' = [loc EXCEPT ![p] = r]
      BY <2>8 DEF Mark, Goto
    <3>3. Moved
      BY <3>5, <3>6, <3>7, MoveKeeps DEF Moved
    <3> QED BY <2>8, <3>1, <3>3, <1>b DEF Mark
  <2>9. CASE LiteralYields(p)
    <3>1. Kept
      BY <2>9, <2>a, <1>b, FreezeLiteralKeeps DEF LiteralYields, Kept
    <3>2. "litCell" \in Labels /\ ControlOf("litCell", loc[p])
      BY <2>9, <2>a
         DEF LiteralYields, ControlOf, Nowhere, Critical, Submitting,
             Releasing, Labels
    <3>3. Moved
      BY <2>9, <3>2, GotoKeeps DEF LiteralYields, History, Moved
    <3> QED BY <2>9, <3>1, <3>3, <1>b DEF LiteralYields
  <2>10. CASE LiteralCell(p)
    <3>1. Kept
      BY <2>10, <2>a, <1>b, SetCellKeeps DEF LiteralCell, Kept, States, Ages
    <3>2. "litClaim" \in Labels /\ ControlOf("litClaim", loc[p])
      BY <2>10, <2>a
         DEF LiteralCell, ControlOf, Nowhere, Critical, Submitting, Releasing,
             Labels
    <3>3. Moved
      BY <2>10, <3>2, GotoKeeps DEF LiteralCell, History, Moved
    <3> QED BY <2>10, <2>a, <3>1, <3>3, <1>c
            DEF LiteralCell, ControlOf, Nowhere, Critical, Submitting, Releasing, Labels
  <2>11. CASE LiteralClaim(p)
    <3>1. Kept
      BY <2>11, <2>a, <1>b, DeleteClaimsKeeps DEF LiteralClaim, Kept
    <3>3. Moved
      BY <2>11, LeaveKeeps DEF LiteralClaim, Moved
    <3> QED BY <2>11, <3>1, <3>3, <1>d DEF LiteralClaim
  <2>12. CASE SqlSucceeds(p)
    <3>1. Kept
      BY <2>12, <2>a, <1>b, UnchangedKeeps DEF SqlSucceeds, Kept
    <3>2. PICK v \in Answers : loc' = [loc EXCEPT ![p] = [loc[p] EXCEPT !.ans = v]]
      BY <2>12 DEF SqlSucceeds
    <3> DEFINE r == [loc[p] EXCEPT !.ans = v]
    <3>4. r \in Locals /\ "sqlNext" \in Labels /\ ControlOf("sqlNext", r)
      BY <2>12, <2>a
         DEF SqlSucceeds, Locals, Values, ControlOf, Nowhere, Critical,
             Submitting, Releasing, Labels
    <3>3. Moved
      BY <2>12, <3>2, <3>4, MoveKeeps DEF SqlSucceeds, Goto, Moved
    <3> QED BY <2>12, <3>1, <3>3, <1>b DEF SqlSucceeds
  <2>13. CASE SqlFails(p)
    <3>1. Kept
      BY <2>13, <2>a, <1>b, UnchangedKeeps DEF SqlFails, Kept
    <3> DEFINE r == [loc[p] EXCEPT !.ret = "find"]
    <3>2. r \in Locals
      BY <2>a DEF Locals
    <3>4. /\ "botCell" \in Labels /\ ControlOf("botCell", r)
          /\ "relClaim" \in Labels /\ ControlOf("relClaim", r)
      BY <2>13, <2>a
         DEF SqlFails, Locals, ControlOf, Nowhere, Critical, Submitting,
             Releasing, Labels
    <3>3. Moved
      BY <2>13, <3>2, <3>4, MoveKeeps DEF SqlFails, Goto, Moved
    <3> QED BY <2>13, <3>1, <3>3, <1>b DEF SqlFails
  <2>14. CASE SqlSubmits(p)
    <3>1. Kept
      BY <2>14, <2>a, <1>b, UnchangedKeeps DEF SqlSubmits, Kept
    <3>2. ASSUME Leave(p) PROVE Moved
      BY <3>2, LeaveKeeps DEF Moved
    <3>4. ASSUME ~Leave(p) PROVE Moved
      <4>1. PICK s \in loc[p].todo :
              /\ loc' = [loc EXCEPT ![p] = [loc[p] EXCEPT !.slot = s]]
              /\ Goto(p, "subCell")
        BY <2>14, <2>a, <3>4 DEF SqlSubmits, TypeOK
      <4> DEFINE r == [loc[p] EXCEPT !.slot = s]
      <4>2. r \in Locals /\ "subCell" \in Labels /\ ControlOf("subCell", r)
        BY <2>14, <2>a
           DEF SqlSubmits, Locals, Values, ControlOf, Nowhere, Critical,
               Submitting, Releasing, Labels
      <4> QED BY <4>1, <4>2, MoveKeeps DEF Goto, Moved
    <3>3. Moved
      BY <3>2, <3>4
    <3> QED BY <2>14, <3>1, <3>3, <1>b DEF SqlSubmits
  <2>15. CASE LlmSubmits(p)
    <3>1. Kept
      BY <2>15, <2>a, <1>b, UnchangedKeeps DEF LlmSubmits, Kept
    <3>2. ASSUME Leave(p) PROVE Moved
      BY <3>2, LeaveKeeps DEF Moved
    <3>4. ASSUME ~Leave(p) PROVE Moved
      <4>1. PICK s \in loc[p].todo, v \in Answers :
              /\ loc' = [loc EXCEPT ![p].slot = s, ![p].ans = v]
              /\ Goto(p, "subCell")
        BY <2>15, <3>4 DEF LlmSubmits
      <4> DEFINE r == [loc[p] EXCEPT !.slot = s, !.ans = v]
      <4>2. r \in Locals /\ "subCell" \in Labels /\ ControlOf("subCell", r)
        BY <2>15, <2>a
           DEF LlmSubmits, Locals, Values, ControlOf, Nowhere, Critical,
               Submitting, Releasing, Labels
      <4>3. loc' = [loc EXCEPT ![p] = r]
        BY <4>1 DEF TypeOK
      <4> HIDE DEF r
      <4> QED BY <4>1, <4>2, <4>3, MoveKeeps DEF Goto, Moved
    <3>3. Moved
      BY <3>2, <3>4
    <3> QED BY <2>15, <3>1, <3>3, <1>b DEF LlmSubmits
  <2>16. CASE SubmitCell(p)
    <3>1. Kept
      BY <2>16, <2>a, <1>b, UnchangedKeeps DEF SubmitCell, Kept
    <3>2. ASSUME Goto(p, "subFrozen") /\ UNCHANGED loc PROVE Moved
      <4>1. "subFrozen" \in Labels /\ ControlOf("subFrozen", loc[p])
        BY <2>16, <2>a
           DEF SubmitCell, ControlOf, Nowhere, Critical, Submitting,
               Releasing, Labels
      <4> QED BY <3>2, <4>1, GotoKeeps DEF Moved
    <3>4. ASSUME Return(p) PROVE Moved
      BY <3>4, <2>16, <2>a, <2>b DEF SubmitCell, Critical
    <3>3. Moved
      BY <2>16, <3>2, <3>4 DEF SubmitCell
    <3> QED BY <2>16, <3>1, <3>3, <1>b DEF SubmitCell
  <2>17. CASE SubmitFrozen(p)
    <3>1. Kept
      BY <2>17, <2>a, <1>b, UnchangedKeeps DEF SubmitFrozen, Kept
    <3>2. ASSUME Goto(p, "subWrite") /\ UNCHANGED loc PROVE Moved
      <4>1. "subWrite" \in Labels /\ ControlOf("subWrite", loc[p])
        BY <2>17, <2>a
           DEF SubmitFrozen, ControlOf, Nowhere, Critical, Submitting,
               Releasing, Labels
      <4> QED BY <3>2, <4>1, GotoKeeps DEF Moved
    <3>4. ASSUME Return(p) PROVE Moved
      BY <3>4, <2>17, <2>a, <2>b DEF SubmitFrozen, Critical
    <3>3. Moved
      BY <2>17, <3>2, <3>4 DEF SubmitFrozen
    <3> QED BY <2>17, <3>1, <3>3, <1>b DEF SubmitFrozen
  <2>18. CASE SubmitWrite(p)
    <3>1. Kept
      BY <2>18, <2>a, <1>b, WriteSlotKeeps DEF SubmitWrite, Kept, Locals
    <3>2. ASSUME Goto(p, "subFreeze") /\ UNCHANGED loc PROVE Moved
      <4>1. "subFreeze" \in Labels /\ ControlOf("subFreeze", loc[p])
        BY <2>18, <2>a
           DEF SubmitWrite, ControlOf, Nowhere, Critical, Submitting,
               Releasing, Labels
      <4> QED BY <3>2, <4>1, GotoKeeps DEF Moved
    <3>4. ASSUME Goto(p, "think") /\ UNCHANGED loc PROVE Moved
      <4>1. "think" \in Labels /\ ControlOf("think", loc[p])
        BY <2>18, <2>a
           DEF SubmitWrite, ControlOf, Nowhere, Critical, Submitting,
               Releasing, Labels
      <4> QED BY <3>4, <4>1, GotoKeeps DEF Moved
    <3>5. ASSUME Return(p) PROVE Moved
      BY <3>5, <2>18, <2>a, <2>b DEF SubmitWrite, Critical
    <3>3. Moved
      BY <2>18, <3>2, <3>4, <3>5 DEF SubmitWrite
    <3> QED BY <2>18, <3>1, <3>3, <1>b DEF SubmitWrite
  <2>19. CASE SubmitFreeze(p)
    <3>1. Kept
      BY <2>19, <2>a, <1>b, FreezeSlotKeeps DEF SubmitFreeze, Kept
    <3>2. "subCount" \in Labels /\ ControlOf("subCount", loc[p])
      BY <2>19, <2>a
         DEF SubmitFreeze, ControlOf, Nowhere, Critical, Submitting,
             Releasing, Labels
    <3>3. Moved
      BY <2>19, <3>2, GotoKeeps DEF SubmitFreeze, History, Moved
    <3> QED BY <2>19, <3>1, <3>3, <1>b DEF SubmitFreeze
  <2>20. CASE SubmitCount(p)
    <3>1. Kept
      BY <2>20, <2>a, <1>b, UnchangedKeeps DEF SubmitCount, Kept
    <3>2. ASSUME Goto(p, "subDone") /\ UNCHANGED loc PROVE Moved
      <4>1. "subDone" \in Labels /\ ControlOf("subDone", loc[p])
        BY <2>20, <2>a
           DEF SubmitCount, ControlOf, Nowhere, Critical, Submitting,
               Releasing, Labels
      <4> QED BY <3>2, <4>1, GotoKeeps DEF Moved
    <3>4. ASSUME Return(p) PROVE Moved
      BY <3>4, <2>20, <2>a, <2>b DEF SubmitCount, Critical
    <3>3. Moved
      BY <2>20, <3>2, <3>4 DEF SubmitCount
    <3> QED BY <2>20, <3>1, <3>3, <1>b DEF SubmitCount
  <2>21. CASE SubmitDone(p)
    <3>1. Kept
      BY <2>21, <2>a, <1>b, SetCellKeeps DEF SubmitDone, Kept, States, Ages
    <3>2. "subClaim" \in Labels /\ ControlOf("subClaim", loc[p])
      BY <2>21, <2>a
         DEF SubmitDone, ControlOf, Nowhere, Critical, Submitting, Releasing,
             Labels
    <3>3. Moved
      BY <2>21, <3>2, GotoKeeps DEF SubmitDone, History, Moved
    <3> QED BY <2>21, <2>a, <3>1, <3>3, <1>c
            DEF SubmitDone, ControlOf, Nowhere, Critical, Submitting, Releasing, Labels
  <2>22. CASE SubmitClaim(p)
    <3>1. Kept
      BY <2>22, <2>a, <1>b, DeleteClaimsKeeps DEF SubmitClaim, Kept
    <3> DEFINE r == [loc[p] EXCEPT !.todo = {}]
    <3>2. r \in Locals /\ "guard" \in Labels /\ ControlOf("guard", r)
      BY <2>22, <2>a, NoLocalsType
         DEF SubmitClaim, NoLocals, Locals, ControlOf, Nowhere, Critical,
             Submitting, Releasing, Labels
    <3>3. Moved
      BY <2>22, <3>2, MoveKeeps DEF SubmitClaim, Goto, Moved
    <3> QED BY <2>22, <3>1, <3>3, <1>d DEF SubmitClaim
  <2>23. CASE Guard(p)
    <3>1. Kept
      BY <2>23, <2>a, <1>b, UnchangedKeeps DEF Guard, Kept
    <3>2. "later" \in Labels /\ ControlOf("later", loc[p])
      BY <2>23, <2>a
         DEF Guard, ControlOf, Nowhere, Critical, Submitting, Releasing,
             Labels
    <3>3. Moved
      BY <2>23, <3>2, GotoKeeps, LeaveKeeps DEF Guard, Moved
    <3> QED BY <2>23, <3>1, <3>3, <1>b DEF Guard
  <2>24. CASE Later(p)
    <3>1. Kept
      BY <2>24, <2>a, <1>b, UnchangedKeeps DEF Later, Kept
    <3> DEFINE c == loc[p].at
               r == [NoLocals EXCEPT !.batch = LaterSiblings(c), !.ret = "skip",
                       !.iters = SkippedIterations(c, Cardinality(LaterSiblings(c)))]
    <3>2. c \in Cells
      BY <2>24, <2>a
         DEF Later, ControlOf, Nowhere, Critical, Submitting, Releasing,
             Labels
    <3>4. SkippedIterations(c, Cardinality(LaterSiblings(c))) \subseteq Nat
      <4>1. IterNo[c] \in Nat
        BY <3>2, EngineAssumption
      <4>2. Cardinality(LaterSiblings(c)) \in Nat
        <5>1. LaterSiblings(c) \subseteq Cells
          BY DEF LaterSiblings
        <5> QED BY <5>1, RetortAssumption, FS_Subset, FS_CardinalityType
      <4> QED BY <4>1, <4>2 DEF SkippedIterations
    <3>5. r \in Locals /\ "skip" \in Labels /\ ControlOf("skip", r)
      BY <3>4, NoLocalsType
         DEF NoLocals, Locals, LaterSiblings, ControlOf, Nowhere, Critical,
             Submitting, Releasing, Labels
    <3>3. Moved
      BY <2>24, <3>5, MoveKeeps DEF Later, Goto, Moved
    <3> QED BY <2>24, <3>1, <3>3, <1>b DEF Later
  <2>25. CASE SkipNext(p)
    <3>1. Kept
      BY <2>25, <2>a, <1>b, UnchangedKeeps DEF SkipNext, Kept
    <3>2. PICK c \in loc[p].batch :
            loc' = [loc EXCEPT ![p] = [loc[p] EXCEPT !.at = c, !.batch = @ \ {c}]]
      BY <2>25, <2>a DEF SkipNext, TypeOK
    <3> DEFINE r == [loc[p] EXCEPT !.at = c, !.batch = @ \ {c}]
    <3>4. r \in Locals /\ "botCell" \in Labels /\ ControlOf("botCell", r)
      BY <2>25, <2>a
         DEF SkipNext, Locals, ControlOf, Nowhere, Critical, Submitting,
             Releasing, Labels
    <3>3. Moved
      BY <2>25, <3>2, <3>4, MoveKeeps DEF SkipNext, Goto, Moved
    <3> QED BY <2>25, <3>1, <3>3, <1>b DEF SkipNext
  <2>26. CASE SkipJudges(p)
    <3>1. Kept
      BY <2>26, <2>a, <1>b, UnchangedKeeps DEF SkipJudges, Kept
    <3>2. ASSUME Leave(p) PROVE Moved
      BY <3>2, LeaveKeeps DEF Moved
    <3>4. ASSUME ~Leave(p) PROVE Moved
      <4> DEFINE n == Min(loc[p].iters)
                 r == [loc[p] EXCEPT !.iters = @ \ {n}, !.batch =
                         {d \in Cells : JudgeOf[d] = n /\ state[d] = "declared"}]
      <4>1. loc' = [loc EXCEPT ![p] = r] /\ pc' = [pc EXCEPT ![p] = "skip"]
        BY <2>26, <2>a, <3>4 DEF SkipJudges, TypeOK
      <4>2. r \in Locals /\ "skip" \in Labels /\ ControlOf("skip", r)
        BY <2>26, <2>a
           DEF SkipJudges, Locals, ControlOf, Nowhere, Critical, Submitting,
               Releasing, Labels
      <4> QED BY <4>1, <4>2, MoveKeeps DEF Moved
    <3>3. Moved
      BY <3>2, <3>4
    <3> QED BY <2>26, <3>1, <3>3, <1>b DEF SkipJudges
  <2>27. CASE BottomCell(p)
    <3>1. Kept
      BY <2>27, <2>a, <1>b, SetBottomKeeps DEF BottomCell, Kept
    <3>2. "botYields" \in Labels /\ ControlOf("botYields", loc[p])
      BY <2>27, <2>a
         DEF BottomCell, ControlOf, Nowhere, Critical, Submitting, Releasing,
             Labels
    <3>3. Moved
      BY <2>27, <3>2, GotoKeeps DEF BottomCell, History, Moved
    <3> QED BY <2>27, <3>1, <3>3, <1>b DEF BottomCell
  <2>28. CASE BottomYields(p)
    <3>1. Kept
      BY <2>28, <2>a, <1>b, BottomSlotsKeeps DEF BottomYields, Kept
    <3>2. "botClaim" \in Labels /\ ControlOf("botClaim", loc[p])
      BY <2>28, <2>a
         DEF BottomYields, ControlOf, Nowhere, Critical, Submitting,
             Releasing, Labels
    <3>3. Moved
      BY <2>28, <3>2, GotoKeeps DEF BottomYields, History, Moved
    <3> QED BY <2>28, <3>1, <3>3, <1>b DEF BottomYields
  <2>29. CASE BottomClaim(p)
    <3>1. Kept
      BY <2>29, <2>a, <1>b, DeleteClaimsKeeps DEF BottomClaim, Kept
    <3>2. loc[p].ret \in Labels /\ ControlOf(loc[p].ret, loc[p])
      BY <2>29, <2>a
         DEF BottomClaim, Locals, ControlOf, Nowhere, Critical, Submitting,
             Releasing, Labels
    <3>3. Moved
      BY <2>29, <3>2, GotoKeeps DEF BottomClaim, Moved
    <3> QED BY <2>29, <3>1, <3>3, <1>d DEF BottomClaim
  <2>30. CASE ReleaseNext(p)
    <3>1. Kept
      BY <2>30, <2>a, <1>b, UnchangedKeeps DEF ReleaseNext, Kept
    <3>2. ASSUME loc[p].batch = {} PROVE Moved
      <4>1. loc[p].ret # "skip" => loc[p].ret \in Labels /\ ControlOf(loc[p].ret, NoLocals)
        BY <2>30, <2>a
           DEF Locals, ControlOf, Nowhere, Critical, Submitting, Releasing,
               Labels
      <4>2. loc[p].ret # "skip"
        BY <2>30, <2>a
           DEF ReleaseNext, ControlOf, Nowhere, Critical, Submitting,
               Releasing, Labels
      <4> QED BY <2>30, <3>2, <4>1, <4>2, NoLocalsType, MoveKeeps
              DEF ReleaseNext, Goto, Moved
    <3>4. ASSUME loc[p].batch # {} PROVE Moved
      <4>1. PICK c \in loc[p].batch :
              /\ loc' = [loc EXCEPT ![p] = [loc[p] EXCEPT !.at = c, !.batch = @ \ {c}]]
              /\ Goto(p, "relClaim")
        BY <2>30, <2>a, <3>4 DEF ReleaseNext, TypeOK
      <4> DEFINE r == [loc[p] EXCEPT !.at = c, !.batch = @ \ {c}]
      <4>2. r \in Locals /\ "relClaim" \in Labels /\ ControlOf("relClaim", r)
        BY <2>30, <2>a
           DEF ReleaseNext, Locals, ControlOf, Nowhere, Critical, Submitting,
               Releasing, Labels
      <4> QED BY <4>1, <4>2, MoveKeeps DEF Goto, Moved
    <3>3. Moved
      BY <3>2, <3>4
    <3> QED BY <2>30, <3>1, <3>3, <1>b DEF ReleaseNext
  <2>31. CASE ReleaseClaim(p)
    <3>1. Kept
      BY <2>31, <2>a, <1>b, DeleteClaimsKeeps DEF ReleaseClaim, Kept
    <3>2. "relCell" \in Labels /\ ControlOf("relCell", loc[p])
      BY <2>31, <2>a
         DEF ReleaseClaim, ControlOf, Nowhere, Critical, Submitting,
             Releasing, Labels
    <3>3. Moved
      BY <2>31, <3>2, GotoKeeps DEF ReleaseClaim, History, Moved
    <3> QED BY <2>31, <3>1, <3>3, <1>b DEF ReleaseClaim
  <2>32. CASE ReleaseCell(p)
    <3>1. Kept
      BY <2>32, <2>a, <1>b, ResetKeeps DEF ReleaseCell, Kept
    <3>2. "relTrace" \in Labels /\ ControlOf("relTrace", loc[p])
      BY <2>32, <2>a
         DEF ReleaseCell, ControlOf, Nowhere, Critical, Submitting, Releasing,
             Labels
    <3>3. Moved
      BY <2>32, <3>2, GotoKeeps DEF ReleaseCell, History, Moved
    <3> QED BY <2>32, <3>1, <3>3, <1>b DEF ReleaseCell
  <2>33. CASE ReleaseTrace(p)
    <3>1. Kept
      BY <2>33, <2>a, <1>b, TraceReleaseKeeps
         DEF ReleaseTrace, Kept, ControlOf, Nowhere, Critical, Submitting,
             Releasing, Labels
    <3>2. "release" \in Labels /\ ControlOf("release", loc[p])
      BY <2>33, <2>a
         DEF ReleaseTrace, ControlOf, Nowhere, Critical, Submitting,
             Releasing, Labels
    <3>3. Moved
      BY <2>33, <3>2, GotoKeeps DEF ReleaseTrace, History, Moved
    <3> QED BY <2>33, <3>1, <3>3, <1>b DEF ReleaseTrace
  <2>34. CASE ReleaseAll(p)
    <3>1. Kept
      BY <2>34, <2>a, <1>b, UnchangedKeeps DEF ReleaseAll, Kept
    <3> DEFINE r == [NoLocals EXCEPT !.batch = {c \in Cells : claim[c] = p}]
    <3>2. r \in Locals /\ "release" \in Labels /\ ControlOf("release", r)
      BY NoLocalsType
         DEF NoLocals, Locals, ControlOf, Nowhere, Critical, Submitting,
             Releasing, Labels
    <3>3. Moved
      BY <2>34, <3>2, MoveKeeps DEF ReleaseAll, Goto, Moved
    <3> QED BY <2>34, <3>1, <3>3, <1>b DEF ReleaseAll
  <2>35. CASE Crash(p)
    <3>1. Kept
      BY <2>35, <2>a, <1>b, UnchangedKeeps DEF Crash, Kept
    <3>3. Moved
      BY <2>35, LeaveKeeps DEF Crash, Moved
    <3>4. Counted
      BY <2>35, EngineAssumption DEF Crash, TypeOK, Counted
    <3> QED BY <3>1, <3>3, <3>4
  <2> QED
    BY <1>3, <2>1, <2>2, <2>3, <2>4, <2>5, <2>6, <2>7, <2>8, <2>9, <2>10,
       <2>11, <2>12, <2>13, <2>14, <2>15, <2>16, <2>17, <2>18, <2>19, <2>20,
       <2>21, <2>22, <2>23, <2>24, <2>25, <2>26, <2>27, <2>28, <2>29, <2>30,
       <2>31, <2>32, <2>33, <2>34, <2>35
       DEF PistonStep, EvalStep, Submit, GiveUp
<1> QED BY <1>1, <1>2, <1>3 DEF Next

-----------------------------------------------------------------------------
(* Type correctness.                                                       *)

\* The initial state is well typed and well controlled.
LEMMA InitTyped == Init => TypeOK /\ Controlled
<1> SUFFICES ASSUME Init PROVE TypeOK /\ Controlled
  OBVIOUS
<1>1. TablesTypeOK
  BY RetortAssumption
     DEF Init, Poured, TablesTypeOK, States, Ages, Values, MaxFailures
<1>2. TypeOK
  BY <1>1, NoLocalsType, EngineAssumption DEF Init, TypeOK, Labels
<1>3. Controlled
  BY DEF Init, Controlled, ControlOf, Nowhere, Critical, Submitting, Releasing
<1> QED BY <1>2, <1>3

\* Types and control hold in every reachable state.
THEOREM Typed == Spec => [](TypeOK /\ Controlled)
<1>1. TypeOK /\ Controlled /\ [Next]_vars => (TypeOK /\ Controlled)'
  BY StepKeeps
<1> QED BY InitTyped, <1>1, PTL DEF Spec

\* Every reachable state of the tables and of the pistons has its type.
THEOREM TypeCorrect == Spec => []TypeOK
BY Typed, PTL

-----------------------------------------------------------------------------
(* A step moves one piston.                                                *)

Step(p) == PistonStep(p) \/ ReleaseAll(p) \/ Crash(p)

\* A step of one piston leaves the control of the others alone.
LEMMA OthersStay ==
  ASSUME TypeOK, NEW p \in Pistons, NEW q \in Pistons, q # p, Step(p)
  PROVE  pc'[q] = pc[q] /\ loc'[q] = loc[q]
<1>1. CASE EvalStep(p)
  BY <1>1
     DEF EvalStep, ReapCells, ReapClaims, FindReady, Quiescent, ClaimWon,
         ClaimLost, CheckInputs, Mark, LiteralYields, LiteralCell,
         LiteralClaim, SqlSucceeds, SqlFails, SqlSubmits, LlmSubmits, TypeOK,
         Goto, Leave, Return
<1>2. CASE Submit(p)
  BY <1>2
     DEF Submit, SubmitCell, SubmitFrozen, SubmitWrite, SubmitFreeze,
         SubmitCount, SubmitDone, SubmitClaim, Guard, Later, SkipNext,
         SkipJudges, TypeOK, Goto, Leave, Return
<1>3. CASE GiveUp(p)
  BY <1>3
     DEF GiveUp, BottomCell, BottomYields, BottomClaim, ReleaseNext,
         ReleaseClaim, ReleaseCell, ReleaseTrace, TypeOK, Goto, Leave, Return
<1>4. CASE ReleaseAll(p)
  BY <1>4 DEF ReleaseAll, TypeOK, Goto, Leave, Return
<1>5. CASE Crash(p)
  BY <1>5 DEF Crash, TypeOK, Goto, Leave, Return
<1> QED BY <1>1, <1>2, <1>3, <1>4, <1>5 DEF Step, PistonStep

-----------------------------------------------------------------------------
(* A frozen cell is complete, and a cell is computed on frozen inputs.     *)
(* FrozenComplete is not inductive: a piston reads the frozen yields one   *)
(* statement before it marks the cell.  What it read stays true because no *)
(* statement of any piston takes a frozen yield back.  Likewise a piston   *)
(* knows the inputs of its cell to be frozen from FindReady to Mark.       *)

AboutToFreeze == {"litCell", "subDone"}
KnowsInputs   == {"claim", "claimed", "mark"}

InputsFrozen(c) == \A s \in Required[c] : frozen[s]

Informed ==
  \A p \in Pistons :
    /\ pc[p] \in AboutToFreeze => AllFrozen(loc[p].at)
    /\ pc[p] \in KnowsInputs => InputsFrozen(loc[p].at)

DataInv == FrozenComplete /\ InputsReady /\ Informed

\* What a step of p adds to what p knows and to the states of cells.
LEMMA StepInformed ==
  ASSUME TypeOK, Controlled, Informed, FrozenStays,
         NEW p \in Pistons, Step(p)
  PROVE  /\ pc'[p] \in AboutToFreeze =>
              \A s \in SlotsOf(loc'[p].at) : frozen'[s]
         /\ pc'[p] \in KnowsInputs =>
              \A s \in Required[loc'[p].at] : frozen'[s]
         /\ \A c \in Cells : state'[c] = "frozen" =>
              state[c] = "frozen" \/ AllFrozen(c)
         /\ \A c \in Cells : state'[c] = "computing" =>
              state[c] = "computing" \/ InputsFrozen(c)
<1> USE RetortAssumption DEF TypeOK, TablesTypeOK, FrozenStays, Informed,
        AboutToFreeze, KnowsInputs, AllFrozen, InputsFrozen, SlotsOf, Goto,
        Locals, NoLocals, tables
<1>1. CASE ReapCells(p)
  BY <1>1 DEF ReapCells, ReapStaleCells
<1>2. CASE ReapClaims(p)
  BY <1>2 DEF ReapClaims, DeleteClaims, Revoke, StaleClaims
<1>3. CASE FindReady(p)
  BY <1>3, RetortAssumption
     DEF FindReady, Findable, Ready, tables, TypeOK, TablesTypeOK, Goto,
         NoLocals, FrozenStays, Informed, AboutToFreeze, KnowsInputs,
         AllFrozen, InputsFrozen
<1>4. CASE Quiescent(p)
  BY <1>4 DEF Quiescent, Leave
<1>5. CASE ClaimWon(p)
  BY <1>5 DEF ClaimWon, InsertClaim
<1>6. CASE ClaimLost(p)
  BY <1>6 DEF ClaimLost
<1>7. CASE CheckInputs(p)
  BY <1>7 DEF CheckInputs
<1>8. CASE Mark(p)
  <2>1. loc[p].at \in Cells
    BY <1>8 DEF Mark, Controlled, ControlOf, Nowhere
  <2>2. Kind[loc[p].at] \in Kinds
    BY <2>1, RetortAssumption
  <2>3. Dispatch[Kind[loc[p].at]] \notin AboutToFreeze \cup KnowsInputs
    BY <2>2 DEF Dispatch, Kinds, AboutToFreeze, KnowsInputs
  <2>4. pc'[p] \notin AboutToFreeze \cup KnowsInputs
    BY <1>8, <2>3 DEF Mark, Goto, TypeOK
  <2>5. InputsFrozen(loc[p].at)
    BY <1>8 DEF Mark, Informed, KnowsInputs
  <2> QED BY <1>8, <2>4, <2>5 DEF Mark, SetCell, TypeOK, TablesTypeOK
<1>9. CASE LiteralYields(p)
  BY <1>9
     DEF LiteralYields, FreezeLiteral, TypeOK, TablesTypeOK, SlotsOf, Goto,
         KnowsInputs
<1>10. CASE LiteralCell(p)
  BY <1>10 DEF LiteralCell, SetCell, CountEvaluation
<1>11. CASE LiteralClaim(p)
  BY <1>11 DEF LiteralClaim, DeleteClaims, Leave
<1>12. CASE SqlSucceeds(p)
  BY <1>12 DEF SqlSucceeds
<1>13. CASE SqlFails(p)
  BY <1>13 DEF SqlFails
<1>14. CASE SqlSubmits(p)
  BY <1>14 DEF SqlSubmits, Leave
<1>15. CASE LlmSubmits(p)
  BY <1>15 DEF LlmSubmits, Leave
<1>16. CASE SubmitCell(p)
  BY <1>16 DEF SubmitCell, Return
<1>17. CASE SubmitFrozen(p)
  BY <1>17 DEF SubmitFrozen, Return
<1>18. CASE SubmitWrite(p)
  BY <1>18 DEF SubmitWrite, WriteSlot, Return
<1>19. CASE SubmitFreeze(p)
  BY <1>19 DEF SubmitFreeze, FreezeSlot
<1>20. CASE SubmitCount(p)
  <2>1. CASE AllFrozen(loc[p].at)
    BY <1>20, <2>1
       DEF SubmitCount, tables, TypeOK, TablesTypeOK, Goto, AllFrozen,
           SlotsOf, AboutToFreeze, KnowsInputs
  <2>2. CASE ~AllFrozen(loc[p].at)
    BY <1>20, <2>2
       DEF SubmitCount, Return, tables, TypeOK, TablesTypeOK, Goto,
           AboutToFreeze, KnowsInputs
  <2> QED BY <2>1, <2>2
<1>21. CASE SubmitDone(p)
  BY <1>21 DEF SubmitDone, SetCell, CountEvaluation
<1>22. CASE SubmitClaim(p)
  BY <1>22 DEF SubmitClaim, DeleteClaims
<1>23. CASE Guard(p)
  BY <1>23 DEF Guard, Leave
<1>24. CASE Later(p)
  BY <1>24 DEF Later
<1>25. CASE SkipNext(p)
  BY <1>25 DEF SkipNext
<1>26. CASE SkipJudges(p)
  BY <1>26 DEF SkipJudges, Leave
<1>27. CASE BottomCell(p)
  BY <1>27 DEF BottomCell, SetBottom
<1>28. CASE BottomYields(p)
  BY <1>28 DEF BottomYields, BottomSlots
<1>29. CASE BottomClaim(p)
  BY <1>29 DEF BottomClaim, DeleteClaims
<1>30. CASE ReleaseNext(p)
  <2>1. state' = state /\ frozen' = frozen /\ pc'[p] \in {"relClaim", loc[p].ret}
    BY <1>30 DEF ReleaseNext
  <2>2. loc[p].ret \notin AboutToFreeze \cup KnowsInputs
    OBVIOUS
  <2> QED BY <2>1, <2>2
<1>31. CASE ReleaseClaim(p)
  BY <1>31 DEF ReleaseClaim, DeleteClaims
<1>32. CASE ReleaseCell(p)
  BY <1>32 DEF ReleaseCell, ResetIfComputing
<1>33. CASE ReleaseTrace(p)
  BY <1>33 DEF ReleaseTrace, TraceRelease
<1>34. CASE ReleaseAll(p)
  BY <1>34 DEF ReleaseAll
<1>35. CASE Crash(p)
  BY <1>35 DEF Crash, Leave
<1> QED
  BY <1>1, <1>2, <1>3, <1>4, <1>5, <1>6, <1>7, <1>8, <1>9, <1>10, <1>11,
     <1>12, <1>13, <1>14, <1>15, <1>16, <1>17, <1>18, <1>19, <1>20, <1>21,
     <1>22, <1>23, <1>24, <1>25, <1>26, <1>27, <1>28, <1>29, <1>30, <1>31,
     <1>32, <1>33, <1>34, <1>35
     DEF Step, PistonStep, EvalStep, Submit, GiveUp

\* Required inputs and slots are slots, so FrozenStays speaks of them.
LEMMA DataStep ==
  ASSUME TypeOK, Controlled, DataInv, [Next]_vars
  PROVE  DataInv'
<1>1. FrozenStays
  BY StepKeeps
<1>2. /\ \A c \in Cells : AllFrozen(c) => AllFrozen(c)'
      /\ \A c \in Cells : InputsFrozen(c) => InputsFrozen(c)'
  BY <1>1, RetortAssumption DEF FrozenStays, AllFrozen, InputsFrozen, SlotsOf
<1>3. CASE UNCHANGED vars
  BY <1>3 DEF DataInv, FrozenComplete, InputsReady, Informed, AllFrozen,
              InputsFrozen, vars, tables
<1>4. CASE Lapse
  BY <1>4
     DEF Lapse, TimePasses, DataInv, FrozenComplete, InputsReady, Informed,
              AllFrozen, InputsFrozen
<1>5. ASSUME NEW p \in Pistons, Step(p)
      PROVE  DataInv'
  <2>1. FrozenComplete'
    <3> SUFFICES ASSUME NEW c \in Cells, state'[c] = "frozen"
                 PROVE  AllFrozen(c)'
      BY DEF FrozenComplete
    <3>1. state[c] = "frozen" \/ AllFrozen(c)
      BY <1>1, <1>5, StepInformed DEF DataInv
    <3> QED BY <1>2, <3>1 DEF DataInv, FrozenComplete
  <2>2. InputsReady'
    <3> SUFFICES ASSUME NEW c \in Cells, state'[c] = "computing"
                 PROVE  \A s \in Required[c] : frozen'[s]
      BY DEF InputsReady
    <3>1. state[c] = "computing" \/ InputsFrozen(c)
      BY <1>1, <1>5, StepInformed DEF DataInv
    <3> QED BY <1>2, <3>1 DEF DataInv, InputsReady, InputsFrozen
  <2>3. Informed'
    <3> SUFFICES ASSUME NEW q \in Pistons
                 PROVE  /\ pc'[q] \in AboutToFreeze =>
                             \A s \in SlotsOf(loc'[q].at) : frozen'[s]
                        /\ pc'[q] \in KnowsInputs =>
                             \A s \in Required[loc'[q].at] : frozen'[s]
      BY DEF Informed, AllFrozen, InputsFrozen
    <3>1. CASE q = p
      BY <1>1, <1>5, <3>1, StepInformed DEF DataInv
    <3>2. CASE q # p
      <4>1. pc'[q] = pc[q] /\ loc'[q] = loc[q]
        BY <1>5, <3>2, OthersStay
      <4>2. pc[q] \in AboutToFreeze \cup KnowsInputs => loc[q].at \in Cells
        BY DEF Controlled, ControlOf, Nowhere, AboutToFreeze, KnowsInputs
      <4> QED BY <1>2, <4>1, <4>2
              DEF DataInv, Informed, AllFrozen, InputsFrozen
    <3> QED BY <3>1, <3>2
  <2> QED BY <2>1, <2>2, <2>3 DEF DataInv
<1> QED BY <1>3, <1>4, <1>5 DEF Next, Step

\* What the pistons know of the tables holds initially.
LEMMA DataInit == Init => DataInv
<1> SUFFICES ASSUME Init PROVE DataInv
  OBVIOUS
<1>1. FrozenComplete
  BY RetortAssumption DEF Init, Poured, FrozenComplete, AllFrozen, SlotsOf
<1>2. InputsReady
  BY DEF Init, Poured, InputsReady
<1>3. Informed
  BY DEF Init, Informed, AboutToFreeze, KnowsInputs
<1> QED BY <1>1, <1>2, <1>3 DEF DataInv

\* What the pistons know of the tables holds always.
LEMMA DataAlways == Spec => []DataInv
<1>1. TypeOK /\ Controlled /\ DataInv /\ [Next]_vars => DataInv'
  BY DataStep
<1> QED BY DataInit, Typed, <1>1, PTL DEF Spec

\* replSubmit and the literal branch never mark a cell frozen while one of
\* its yields is not, whoever else submits to, reaps, releases or re-claims it.
THEOREM FrozenCompleteAlways == Spec => []FrozenComplete
<1>1. DataInv => FrozenComplete
  BY DEF DataInv
<1> QED BY DataAlways, <1>1, PTL

\* Readiness, read by findReadyCell, still holds when the cell is computed.
THEOREM InputsReadyAlways == Spec => []InputsReady
<1>1. DataInv => InputsReady
  BY DEF DataInv
<1> QED BY DataAlways, <1>1, PTL

-----------------------------------------------------------------------------
(* Mutual exclusion.  OneEvaluator is strengthened to: a piston at work on *)
(* a cell still holds its claim, unless the claim was revoked.             *)

HoldsClaim ==
  \A p \in Pistons, c \in Cells : AtWork(p, c) => claim[c] = p \/ revoked[c]

\* A piston that is at work after its own step holds the claim, or was at
\* work on the cell before.
LEMMA StepAtWork ==
  ASSUME TypeOK, Controlled, NEW p \in Pistons, Step(p),
         NEW c \in Cells, AtWork(p, c)'
  PROVE  \/ claim'[c] = p
         \/ AtWork(p, c) /\ claim'[c] = claim[c]
<1> USE RetortAssumption DEF TypeOK, TablesTypeOK, Goto, Locals, NoLocals,
        AtWork, Critical, Bottoming, tables
<1>1. CASE ReapCells(p)
  BY <1>1 DEF ReapCells, ReapStaleCells
<1>2. CASE ReapClaims(p)
  BY <1>2 DEF ReapClaims, DeleteClaims, Revoke, StaleClaims
<1>3. CASE FindReady(p)
  BY <1>3 DEF FindReady
<1>4. CASE Quiescent(p)
  BY <1>4 DEF Quiescent, Leave
<1>5. CASE ClaimWon(p)
  BY <1>5 DEF ClaimWon, InsertClaim
<1>6. CASE ClaimLost(p)
  BY <1>6 DEF ClaimLost
<1>7. CASE CheckInputs(p)
  BY <1>7 DEF CheckInputs
<1>8. CASE Mark(p)
  <2>1. loc[p].at = c
    BY <1>8, EngineAssumption DEF Mark, TypeOK, NoLocals, AtWork
  <2> QED BY <1>8, <2>1 DEF Mark, SetCell, AtWork, Critical
<1>9. CASE LiteralYields(p)
  BY <1>9 DEF LiteralYields, FreezeLiteral
<1>10. CASE LiteralCell(p)
  BY <1>10 DEF LiteralCell, SetCell, CountEvaluation
<1>11. CASE LiteralClaim(p)
  BY <1>11 DEF LiteralClaim, DeleteClaims, Leave
<1>12. CASE SqlSucceeds(p)
  BY <1>12 DEF SqlSucceeds
<1>13. CASE SqlFails(p)
  BY <1>13 DEF SqlFails
<1>14. CASE SqlSubmits(p)
  BY <1>14 DEF SqlSubmits, Leave
<1>15. CASE LlmSubmits(p)
  <2>1. loc'[p].at = c /\ pc[p] \in Critical /\ UNCHANGED claim
    BY <1>15 DEF LlmSubmits, AtWork, Critical, tables
  <2>2. CASE loc[p].todo = {} /\ Leave(p)
    BY <2>1, <2>2, EngineAssumption DEF Leave, NoLocals, TypeOK
  <2>3. CASE ~(loc[p].todo = {} /\ Leave(p))
    <3> HIDE RetortAssumption
            DEF Locals, NoLocals, TablesTypeOK, AtWork, Goto, tables
    <3>1. \E s \in loc[p].todo, v \in Answers :
            loc' = [loc EXCEPT ![p].slot = s, ![p].ans = v]
      BY <1>15, <2>3 DEF LlmSubmits
    <3>2. loc'[p].at = loc[p].at
      BY <3>1 DEF TypeOK, Locals
    <3> QED BY <2>1, <3>2 DEF AtWork
  <2> QED BY <2>2, <2>3
<1>16. CASE SubmitCell(p)
  BY <1>16 DEF SubmitCell, Return
<1>17. CASE SubmitFrozen(p)
  BY <1>17 DEF SubmitFrozen, Return
<1>18. CASE SubmitWrite(p)
  BY <1>18 DEF SubmitWrite, WriteSlot, Return
<1>19. CASE SubmitFreeze(p)
  BY <1>19 DEF SubmitFreeze, FreezeSlot
<1>20. CASE SubmitCount(p)
  BY <1>20 DEF SubmitCount, Return
<1>21. CASE SubmitDone(p)
  BY <1>21 DEF SubmitDone, SetCell, CountEvaluation
<1>22. CASE SubmitClaim(p)
  BY <1>22 DEF SubmitClaim, DeleteClaims
<1>23. CASE Guard(p)
  BY <1>23 DEF Guard, Leave
<1>24. CASE Later(p)
  BY <1>24 DEF Later
<1>25. CASE SkipNext(p)
  BY <1>25 DEF SkipNext
<1>26. CASE SkipJudges(p)
  BY <1>26 DEF SkipJudges, Leave
<1>27. CASE BottomCell(p)
  BY <1>27 DEF BottomCell, SetBottom
<1>28. CASE BottomYields(p)
  BY <1>28 DEF BottomYields, BottomSlots
<1>29. CASE BottomClaim(p)
  BY <1>29 DEF BottomClaim, DeleteClaims
<1>30. CASE ReleaseNext(p)
  <2>1. CASE loc[p].batch = {}
    BY <1>30, <2>1, EngineAssumption DEF ReleaseNext, NoLocals, TypeOK, AtWork
  <2>2. CASE loc[p].batch # {}
    <3>1. loc[p].ret # "find"
      BY <1>30, <2>2 DEF ReleaseNext, Controlled, ControlOf, Releasing
    <3>2. PICK d \in loc[p].batch :
            /\ loc' = [loc EXCEPT ![p] = [loc[p] EXCEPT !.at = d, !.batch = @ \ {d}]]
            /\ pc' = [pc EXCEPT ![p] = "relClaim"]
      BY <1>30, <2>2 DEF ReleaseNext, Goto, TypeOK
    <3>3. loc'[p].ret = loc[p].ret /\ pc'[p] = "relClaim"
      BY <3>2 DEF TypeOK, Locals
    <3> QED BY <3>1, <3>3 DEF AtWork, Critical, Bottoming
  <2> QED BY <2>1, <2>2
<1>31. CASE ReleaseClaim(p)
  BY <1>31 DEF ReleaseClaim, DeleteClaims
<1>32. CASE ReleaseCell(p)
  BY <1>32 DEF ReleaseCell, ResetIfComputing
<1>33. CASE ReleaseTrace(p)
  BY <1>33 DEF ReleaseTrace, TraceRelease
<1>34. CASE ReleaseAll(p)
  BY <1>34 DEF ReleaseAll
<1>35. CASE Crash(p)
  BY <1>35 DEF Crash, Leave
<1> QED
  BY <1>1, <1>2, <1>3, <1>4, <1>5, <1>6, <1>7, <1>8, <1>9, <1>10, <1>11,
     <1>12, <1>13, <1>14, <1>15, <1>16, <1>17, <1>18, <1>19, <1>20, <1>21,
     <1>22, <1>23, <1>24, <1>25, <1>26, <1>27, <1>28, <1>29, <1>30, <1>31,
     <1>32, <1>33, <1>34, <1>35
     DEF Step, PistonStep, EvalStep, Submit, GiveUp

\* A claim held by a piston at work is taken from it only by revoking it.
LEMMA StepRevokes ==
  ASSUME TypeOK, NEW p \in Pistons, Step(p),
         NEW c \in Cells, NEW q \in Pistons, q # p,
         AtWork(q, c), claim[c] = q
  PROVE  claim'[c] = q \/ revoked'[c]
<1> USE RetortAssumption DEF TypeOK, TablesTypeOK, Goto, Revoke, Victims,
        History, tables
<1>1. CASE ReapCells(p)
  BY <1>1 DEF ReapCells, ReapStaleCells
<1>2. CASE ReapClaims(p)
  BY <1>2 DEF ReapClaims, DeleteClaims, StaleClaims
<1>3. CASE FindReady(p)
  BY <1>3 DEF FindReady
<1>4. CASE Quiescent(p)
  BY <1>4 DEF Quiescent, Leave
<1>5. CASE ClaimWon(p)
  BY <1>5 DEF ClaimWon, InsertClaim
<1>6. CASE ClaimLost(p)
  BY <1>6 DEF ClaimLost
<1>7. CASE CheckInputs(p)
  BY <1>7 DEF CheckInputs
<1>8. CASE Mark(p)
  BY <1>8 DEF Mark, SetCell
<1>9. CASE LiteralYields(p)
  BY <1>9 DEF LiteralYields, FreezeLiteral
<1>10. CASE LiteralCell(p)
  BY <1>10 DEF LiteralCell, SetCell, CountEvaluation
<1>11. CASE LiteralClaim(p)
  BY <1>11 DEF LiteralClaim, DeleteClaims, Leave
<1>12. CASE SqlSucceeds(p)
  BY <1>12 DEF SqlSucceeds
<1>13. CASE SqlFails(p)
  BY <1>13 DEF SqlFails
<1>14. CASE SqlSubmits(p)
  BY <1>14 DEF SqlSubmits, Leave
<1>15. CASE LlmSubmits(p)
  BY <1>15 DEF LlmSubmits, Leave
<1>16. CASE SubmitCell(p)
  BY <1>16 DEF SubmitCell, Return
<1>17. CASE SubmitFrozen(p)
  BY <1>17 DEF SubmitFrozen, Return
<1>18. CASE SubmitWrite(p)
  BY <1>18 DEF SubmitWrite, WriteSlot, Return
<1>19. CASE SubmitFreeze(p)
  BY <1>19 DEF SubmitFreeze, FreezeSlot
<1>20. CASE SubmitCount(p)
  BY <1>20 DEF SubmitCount, Return
<1>21. CASE SubmitDone(p)
  BY <1>21 DEF SubmitDone, SetCell, CountEvaluation
<1>22. CASE SubmitClaim(p)
  BY <1>22 DEF SubmitClaim, DeleteClaims
<1>23. CASE Guard(p)
  BY <1>23 DEF Guard, Leave
<1>24. CASE Later(p)
  BY <1>24 DEF Later
<1>25. CASE SkipNext(p)
  BY <1>25 DEF SkipNext
<1>26. CASE SkipJudges(p)
  BY <1>26 DEF SkipJudges, Leave
<1>27. CASE BottomCell(p)
  BY <1>27 DEF BottomCell, SetBottom
<1>28. CASE BottomYields(p)
  BY <1>28 DEF BottomYields, BottomSlots
<1>29. CASE BottomClaim(p)
  BY <1>29 DEF BottomClaim, DeleteClaims
<1>30. CASE ReleaseNext(p)
  BY <1>30 DEF ReleaseNext
<1>31. CASE ReleaseClaim(p)
  BY <1>31 DEF ReleaseClaim, DeleteClaims
<1>32. CASE ReleaseCell(p)
  BY <1>32 DEF ReleaseCell, ResetIfComputing
<1>33. CASE ReleaseTrace(p)
  BY <1>33 DEF ReleaseTrace, TraceRelease
<1>34. CASE ReleaseAll(p)
  BY <1>34 DEF ReleaseAll
<1>35. CASE Crash(p)
  BY <1>35 DEF Crash, Leave
<1> QED
  BY <1>1, <1>2, <1>3, <1>4, <1>5, <1>6, <1>7, <1>8, <1>9, <1>10, <1>11,
     <1>12, <1>13, <1>14, <1>15, <1>16, <1>17, <1>18, <1>19, <1>20, <1>21,
     <1>22, <1>23, <1>24, <1>25, <1>26, <1>27, <1>28, <1>29, <1>30, <1>31,
     <1>32, <1>33, <1>34, <1>35
     DEF Step, PistonStep, EvalStep, Submit, GiveUp

\* A revocation is never forgotten.
LEMMA StepKeepsRevoked ==
  ASSUME TypeOK, NEW p \in Pistons, Step(p), NEW c \in Cells, revoked[c]
  PROVE  revoked'[c]
<1>1. CASE EvalStep(p)
  BY <1>1
     DEF EvalStep, ReapCells, ReapClaims, FindReady, Quiescent, ClaimWon,
         ClaimLost, CheckInputs, Mark, LiteralYields, LiteralCell,
         LiteralClaim, SqlSucceeds, SqlFails, SqlSubmits, LlmSubmits, TypeOK,
         Revoke, History
<1>2. CASE Submit(p)
  BY <1>2
     DEF Submit, SubmitCell, SubmitFrozen, SubmitWrite, SubmitFreeze,
         SubmitCount, SubmitDone, SubmitClaim, Guard, Later, SkipNext,
         SkipJudges, TypeOK, Revoke, History
<1>3. CASE GiveUp(p)
  BY <1>3
     DEF GiveUp, BottomCell, BottomYields, BottomClaim, ReleaseNext,
         ReleaseClaim, ReleaseCell, ReleaseTrace, TypeOK, Revoke, History
<1>4. CASE ReleaseAll(p)
  BY <1>4 DEF ReleaseAll, TypeOK, Revoke, History
<1>5. CASE Crash(p)
  BY <1>5 DEF Crash, TypeOK, Revoke, History
<1> QED BY <1>1, <1>2, <1>3, <1>4, <1>5 DEF Step, PistonStep

\* Every step keeps the invariant that a piston at work holds its claim or
\* was revoked.
LEMMA HoldsClaimStep ==
  ASSUME TypeOK, Controlled, HoldsClaim, [Next]_vars
  PROVE  HoldsClaim'
<1>1. CASE UNCHANGED vars
  BY <1>1 DEF HoldsClaim, AtWork, vars, tables
<1>2. CASE Lapse
  BY <1>2 DEF Lapse, TimePasses, History, HoldsClaim, AtWork
<1>3. ASSUME NEW p \in Pistons, Step(p)
      PROVE  HoldsClaim'
  <2> SUFFICES ASSUME NEW q \in Pistons, NEW c \in Cells, AtWork(q, c)'
               PROVE  claim'[c] = q \/ revoked'[c]
    BY DEF HoldsClaim
  <2>1. revoked[c] => revoked'[c]
    BY <1>3, StepKeepsRevoked
  <2>2. CASE q = p
    <3>1. claim'[c] = p \/ (AtWork(p, c) /\ claim'[c] = claim[c])
      BY <1>3, <2>2, StepAtWork
    <3> QED BY <2>1, <2>2, <3>1 DEF HoldsClaim
  <2>3. CASE q # p
    <3>1. pc'[q] = pc[q] /\ loc'[q] = loc[q]
      BY <1>3, <2>3, OthersStay
    <3>2. AtWork(q, c)
      BY <3>1 DEF AtWork
    <3>3. claim[c] = q \/ revoked[c]
      BY <3>2 DEF HoldsClaim
    <3> QED BY <1>3, <2>1, <2>3, <3>2, <3>3, StepRevokes
  <2> QED BY <2>2, <2>3
<1> QED BY <1>1, <1>2, <1>3 DEF Next, Step

\* A piston at work holds its claim unless it was revoked.
LEMMA HoldsClaimAlways == Spec => []HoldsClaim
<1>1. Init => HoldsClaim
  BY DEF Init, HoldsClaim, AtWork, Critical, Bottoming
<1>2. TypeOK /\ Controlled /\ HoldsClaim /\ [Next]_vars => HoldsClaim'
  BY HoldsClaimStep
<1> QED BY <1>1, <1>2, Typed, PTL DEF Spec

\* INSERT IGNORE is a mutex: two pistons at work on one cell imply that one
\* of them lost its claim to the reaper or to a guard skip.
THEOREM OneEvaluatorAlways == Spec => []OneEvaluator
<1>1. HoldsClaim => OneEvaluator
  BY DEF HoldsClaim, OneEvaluator
<1> QED BY HoldsClaimAlways, <1>1, PTL

-----------------------------------------------------------------------------
(* BottomSealed is inductive on its own, given the control of the pistons. *)

Sealed(c) == \A s \in SlotsOf(c) : frozen[s] /\ value[s] = "bottom"

Sealing(c) == \E p \in Pistons : pc[p] = "botYields" /\ loc[p].at = c

SealInv ==
  \A c \in Cells : state[c] = "bottom" /\ crashes = 0 => Sealing(c) \/ Sealed(c)

\* Once sealed, the slots of a cell never change again.
LEMMA StepKeepsSealed ==
  ASSUME TypeOK, NEW p \in Pistons, Step(p), NEW c \in Cells, Sealed(c)
  PROVE  Sealed(c)'
<1> USE RetortAssumption DEF TypeOK, TablesTypeOK, Sealed, SlotsOf, tables
<1>1. CASE ReapCells(p)
  BY <1>1 DEF ReapCells, ReapStaleCells
<1>2. CASE ReapClaims(p)
  BY <1>2 DEF ReapClaims, DeleteClaims, Revoke, StaleClaims
<1>3. CASE FindReady(p)
  BY <1>3 DEF FindReady
<1>4. CASE Quiescent(p)
  BY <1>4 DEF Quiescent, Leave
<1>5. CASE ClaimWon(p)
  BY <1>5 DEF ClaimWon, InsertClaim
<1>6. CASE ClaimLost(p)
  BY <1>6 DEF ClaimLost
<1>7. CASE CheckInputs(p)
  BY <1>7 DEF CheckInputs
<1>8. CASE Mark(p)
  BY <1>8 DEF Mark, SetCell
<1>9. CASE LiteralYields(p)
  BY <1>9 DEF LiteralYields, FreezeLiteral
<1>10. CASE LiteralCell(p)
  BY <1>10 DEF LiteralCell, SetCell, CountEvaluation
<1>11. CASE LiteralClaim(p)
  BY <1>11 DEF LiteralClaim, DeleteClaims, Leave
<1>12. CASE SqlSucceeds(p)
  BY <1>12 DEF SqlSucceeds
<1>13. CASE SqlFails(p)
  BY <1>13 DEF SqlFails
<1>14. CASE SqlSubmits(p)
  BY <1>14 DEF SqlSubmits, Leave
<1>15. CASE LlmSubmits(p)
  BY <1>15 DEF LlmSubmits, Leave
<1>16. CASE SubmitCell(p)
  BY <1>16 DEF SubmitCell, Return
<1>17. CASE SubmitFrozen(p)
  BY <1>17 DEF SubmitFrozen, Return
<1>18. CASE SubmitWrite(p)
  BY <1>18 DEF SubmitWrite, WriteSlot, Return
<1>19. CASE SubmitFreeze(p)
  BY <1>19 DEF SubmitFreeze, FreezeSlot
<1>20. CASE SubmitCount(p)
  BY <1>20 DEF SubmitCount, Return
<1>21. CASE SubmitDone(p)
  BY <1>21 DEF SubmitDone, SetCell, CountEvaluation
<1>22. CASE SubmitClaim(p)
  BY <1>22 DEF SubmitClaim, DeleteClaims
<1>23. CASE Guard(p)
  BY <1>23 DEF Guard, Leave
<1>24. CASE Later(p)
  BY <1>24 DEF Later
<1>25. CASE SkipNext(p)
  BY <1>25 DEF SkipNext
<1>26. CASE SkipJudges(p)
  BY <1>26 DEF SkipJudges, Leave
<1>27. CASE BottomCell(p)
  BY <1>27 DEF BottomCell, SetBottom
<1>28. CASE BottomYields(p)
  BY <1>28 DEF BottomYields, BottomSlots
<1>29. CASE BottomClaim(p)
  BY <1>29 DEF BottomClaim, DeleteClaims
<1>30. CASE ReleaseNext(p)
  BY <1>30 DEF ReleaseNext
<1>31. CASE ReleaseClaim(p)
  BY <1>31 DEF ReleaseClaim, DeleteClaims
<1>32. CASE ReleaseCell(p)
  BY <1>32 DEF ReleaseCell, ResetIfComputing
<1>33. CASE ReleaseTrace(p)
  BY <1>33 DEF ReleaseTrace, TraceRelease
<1>34. CASE ReleaseAll(p)
  BY <1>34 DEF ReleaseAll
<1>35. CASE Crash(p)
  BY <1>35 DEF Crash, Leave
<1> QED
  BY <1>1, <1>2, <1>3, <1>4, <1>5, <1>6, <1>7, <1>8, <1>9, <1>10, <1>11,
     <1>12, <1>13, <1>14, <1>15, <1>16, <1>17, <1>18, <1>19, <1>20, <1>21,
     <1>22, <1>23, <1>24, <1>25, <1>26, <1>27, <1>28, <1>29, <1>30, <1>31,
     <1>32, <1>33, <1>34, <1>35
     DEF Step, PistonStep, EvalStep, Submit, GiveUp

\* A cell is bottomed only by a piston that seals it in its next statement.
LEMMA StepSeals ==
  ASSUME TypeOK, Controlled, NEW p \in Pistons, Step(p), NEW c \in Cells
  PROVE  /\ state'[c] = "bottom" =>
              \/ state[c] = "bottom"
              \/ pc'[p] = "botYields" /\ loc'[p].at = c
         /\ pc[p] = "botYields" /\ loc[p].at = c => Sealed(c)' \/ crashes' # 0
         /\ crashes' = 0 => crashes = 0
<1> USE RetortAssumption DEF TypeOK, TablesTypeOK, Sealed, SlotsOf, Goto,
        History, tables
<1>1. CASE ReapCells(p)
  BY <1>1 DEF ReapCells, ReapStaleCells
<1>2. CASE ReapClaims(p)
  BY <1>2 DEF ReapClaims, DeleteClaims, Revoke, StaleClaims
<1>3. CASE FindReady(p)
  BY <1>3 DEF FindReady
<1>4. CASE Quiescent(p)
  BY <1>4 DEF Quiescent, Leave
<1>5. CASE ClaimWon(p)
  BY <1>5 DEF ClaimWon, InsertClaim
<1>6. CASE ClaimLost(p)
  BY <1>6 DEF ClaimLost
<1>7. CASE CheckInputs(p)
  BY <1>7 DEF CheckInputs
<1>8. CASE Mark(p)
  BY <1>8 DEF Mark, SetCell
<1>9. CASE LiteralYields(p)
  BY <1>9 DEF LiteralYields, FreezeLiteral
<1>10. CASE LiteralCell(p)
  BY <1>10 DEF LiteralCell, SetCell, CountEvaluation
<1>11. CASE LiteralClaim(p)
  BY <1>11 DEF LiteralClaim, DeleteClaims, Leave
<1>12. CASE SqlSucceeds(p)
  BY <1>12 DEF SqlSucceeds
<1>13. CASE SqlFails(p)
  BY <1>13 DEF SqlFails
<1>14. CASE SqlSubmits(p)
  BY <1>14 DEF SqlSubmits, Leave
<1>15. CASE LlmSubmits(p)
  BY <1>15 DEF LlmSubmits, Leave
<1>16. CASE SubmitCell(p)
  BY <1>16 DEF SubmitCell, Return
<1>17. CASE SubmitFrozen(p)
  BY <1>17 DEF SubmitFrozen, Return
<1>18. CASE SubmitWrite(p)
  BY <1>18 DEF SubmitWrite, WriteSlot, Return
<1>19. CASE SubmitFreeze(p)
  BY <1>19 DEF SubmitFreeze, FreezeSlot
<1>20. CASE SubmitCount(p)
  BY <1>20 DEF SubmitCount, Return
<1>21. CASE SubmitDone(p)
  BY <1>21 DEF SubmitDone, SetCell, CountEvaluation
<1>22. CASE SubmitClaim(p)
  BY <1>22 DEF SubmitClaim, DeleteClaims
<1>23. CASE Guard(p)
  BY <1>23 DEF Guard, Leave
<1>24. CASE Later(p)
  BY <1>24 DEF Later
<1>25. CASE SkipNext(p)
  BY <1>25 DEF SkipNext
<1>26. CASE SkipJudges(p)
  BY <1>26 DEF SkipJudges, Leave
<1>27. CASE BottomCell(p)
  BY <1>27 DEF BottomCell, SetBottom
<1>28. CASE BottomYields(p)
  BY <1>28 DEF BottomYields, BottomSlots
<1>29. CASE BottomClaim(p)
  BY <1>29 DEF BottomClaim, DeleteClaims
<1>30. CASE ReleaseNext(p)
  BY <1>30 DEF ReleaseNext
<1>31. CASE ReleaseClaim(p)
  BY <1>31 DEF ReleaseClaim, DeleteClaims
<1>32. CASE ReleaseCell(p)
  BY <1>32 DEF ReleaseCell, ResetIfComputing
<1>33. CASE ReleaseTrace(p)
  BY <1>33 DEF ReleaseTrace, TraceRelease
<1>34. CASE ReleaseAll(p)
  BY <1>34 DEF ReleaseAll
<1>35. CASE Crash(p)
  BY <1>35 DEF Crash, Leave
<1> QED
  BY <1>1, <1>2, <1>3, <1>4, <1>5, <1>6, <1>7, <1>8, <1>9, <1>10, <1>11,
     <1>12, <1>13, <1>14, <1>15, <1>16, <1>17, <1>18, <1>19, <1>20, <1>21,
     <1>22, <1>23, <1>24, <1>25, <1>26, <1>27, <1>28, <1>29, <1>30, <1>31,
     <1>32, <1>33, <1>34, <1>35
     DEF Step, PistonStep, EvalStep, Submit, GiveUp

\* Every step keeps the seal of the bottomed cells.
LEMMA SealStep ==
  ASSUME TypeOK, Controlled, SealInv, [Next]_vars
  PROVE  SealInv'
<1>1. CASE UNCHANGED vars
  BY <1>1 DEF SealInv, Sealing, Sealed, vars, tables
<1>2. CASE Lapse
  BY <1>2 DEF Lapse, TimePasses, History, SealInv, Sealing, Sealed
<1>3. ASSUME NEW p \in Pistons, Step(p)
      PROVE  SealInv'
  <2> SUFFICES ASSUME NEW c \in Cells, state'[c] = "bottom", crashes' = 0
               PROVE  Sealing(c)' \/ Sealed(c)'
    BY DEF SealInv
  <2>1. CASE pc'[p] = "botYields" /\ loc'[p].at = c
    BY <2>1 DEF Sealing
  <2>2. CASE ~(pc'[p] = "botYields" /\ loc'[p].at = c)
    <3>1. state[c] = "bottom" /\ crashes = 0
      BY <1>3, <2>2, StepSeals
    <3>2. CASE Sealed(c)
      BY <1>3, <3>2, StepKeepsSealed
    <3>3. CASE Sealing(c)
      <4>1. PICK q \in Pistons : pc[q] = "botYields" /\ loc[q].at = c
        BY <3>3 DEF Sealing
      <4>2. CASE q = p
        BY <1>3, <4>1, <4>2, StepSeals
      <4>3. CASE q # p
        BY <1>3, <4>1, <4>3, OthersStay DEF Sealing
      <4> QED BY <4>2, <4>3
    <3> QED BY <3>1, <3>2, <3>3 DEF SealInv
  <2> QED BY <2>1, <2>2
<1> QED BY <1>1, <1>2, <1>3 DEF Next, Step

\* Unless a piston dies inside bottomCell, a bottomed cell shows the bottom
\* value in all its yields, also those another piston froze in a race.
THEOREM BottomSealedAlways == Spec => []BottomSealed
<1>1. Init => SealInv
  BY DEF Init, Poured, SealInv
<1>2. TypeOK /\ Controlled /\ SealInv /\ [Next]_vars => SealInv'
  BY SealStep
<1>3. SealInv => BottomSealed
  BY DEF SealInv, BottomSealed, Sealing, Sealed
<1> QED BY <1>1, <1>2, <1>3, Typed, PTL DEF Spec

-----------------------------------------------------------------------------
(* The engine implements the claim store.  Each statement maps to one step *)
(* of ClaimStore, or leaves holder and yieldStore unchanged.               *)

Stored == [s \in Slots |-> IF frozen[s] THEN value[s] ELSE "null"]

StoreStep == Store!Next \/ (claim' = claim /\ Stored' = Stored)

\* Deleting claims releases frames of the store.
LEMMA DeleteClaimsImplements ==
  ASSUME NEW C \in SUBSET Cells, DeleteClaims(C)
  PROVE  StoreStep
<1>1. claim' = [f \in Cells |-> IF f \in C THEN NoPiston ELSE claim[f]]
  BY DEF DeleteClaims
<1>2. Stored' = Stored
  BY DEF DeleteClaims, Stored
<1>3. Store!ReleaseStep(C)
  BY <1>1, <1>2 DEF Store!ReleaseStep, Stored
<1> QED BY <1>3 DEF StoreStep, Store!Next

\* Inserting a claim on a free cell claims a frame of the store.
LEMMA InsertClaimImplements ==
  ASSUME NEW c \in Cells, NEW p \in Pistons, claim[c] = NoPiston,
         InsertClaim(c, p)
  PROVE  StoreStep
<1>1. Store!ClaimStep(c, p)
  BY DEF InsertClaim, Store!ClaimStep
<1> QED BY <1>1 DEF StoreStep, Store!Next

\* Writing an unfrozen slot does not show in the store.
LEMMA WriteSlotImplements ==
  ASSUME TypeOK, NEW s, NEW v, WriteSlot(s, v)
  PROVE  StoreStep
BY DEF TypeOK, TablesTypeOK, WriteSlot, StoreStep, Stored

\* Freezing a slot appends to the store, or changes nothing.
LEMMA FreezeSlotImplements ==
  ASSUME TypeOK, NEW s \in Slots, FreezeSlot(s)
  PROVE  StoreStep
<1>1. CASE frozen[s]
  BY <1>1 DEF TypeOK, TablesTypeOK, FreezeSlot, StoreStep, Stored
<1>2. CASE ~frozen[s]
  <2>1. PICK v \in Values : v = value[s]
    BY DEF TypeOK, TablesTypeOK
  <2>2. Stored[s] = "null"
    BY <1>2 DEF Stored
  <2>3. Stored' = [t \in Slots |-> IF t \in {s} THEN v ELSE Stored[t]]
    BY <2>1 DEF TypeOK, TablesTypeOK, FreezeSlot, Stored
  <2>4. Store!FreezeStep({s}, v)
    BY <2>2, <2>3 DEF Store!FreezeStep, Stored, FreezeSlot
  <2> QED BY <2>4 DEF StoreStep, Store!Next
<1> QED BY <1>1, <1>2

\* The literal body appends its yields to the store.
LEMMA FreezeLiteralImplements ==
  ASSUME TypeOK, NEW c \in Cells, FreezeLiteral(c)
  PROVE  StoreStep
<1> DEFINE S == {s \in Slots : s[1] = c /\ ~frozen[s]}
<1>1. \A s \in S : Stored[s] = "null"
  BY DEF Stored
<1>2. Stored' = [t \in Slots |-> IF t \in S THEN "literal" ELSE Stored[t]]
  BY DEF TypeOK, TablesTypeOK, FreezeLiteral, Stored
<1>3. Store!FreezeStep(S, "literal")
  BY <1>1, <1>2 DEF Store!FreezeStep, Stored, FreezeLiteral
<1>4. S \in SUBSET Slots /\ "literal" \in Values
  BY DEF Values
<1> QED BY <1>3, <1>4 DEF StoreStep, Store!Next

\* Bottoming the slots of a cell poisons a frame of the store.
LEMMA BottomSlotsImplements ==
  ASSUME TypeOK, NEW c \in Cells, BottomSlots(c)
  PROVE  StoreStep
<1>1. Stored' = [t \in Slots |-> IF t[1] = c THEN "bottom" ELSE Stored[t]]
  BY DEF TypeOK, TablesTypeOK, BottomSlots, Stored
<1>2. Store!Poison(c)
  BY <1>1 DEF Store!Poison, Stored, BottomSlots
<1> QED BY <1>2 DEF StoreStep, Store!Next

\* Every step of a piston is a step of the store or leaves it alone.
LEMMA StepImplements ==
  ASSUME TypeOK, Controlled, NEW p \in Pistons, Step(p)
  PROVE  StoreStep
<1>a. pc[p] \notin Nowhere => loc[p].at \in Cells
  BY DEF Controlled, ControlOf
<1>1. CASE ReapCells(p)
  BY <1>1 DEF ReapCells, ReapStaleCells, StoreStep, Stored
<1>2. CASE ReapClaims(p)
  BY <1>2, DeleteClaimsImplements DEF ReapClaims, StaleClaims
<1>3. CASE FindReady(p)
  BY <1>3 DEF FindReady, tables, StoreStep, Stored
<1>4. CASE Quiescent(p)
  BY <1>4 DEF Quiescent, tables, StoreStep, Stored
<1>5. CASE ClaimWon(p)
  BY <1>5, <1>a, InsertClaimImplements DEF ClaimWon, Nowhere
<1>6. CASE ClaimLost(p)
  BY <1>6 DEF ClaimLost, tables, StoreStep, Stored
<1>7. CASE CheckInputs(p)
  BY <1>7 DEF CheckInputs, tables, StoreStep, Stored
<1>8. CASE Mark(p)
  BY <1>8 DEF Mark, SetCell, StoreStep, Stored
<1>9. CASE LiteralYields(p)
  BY <1>9, <1>a, FreezeLiteralImplements DEF LiteralYields, Nowhere
<1>10. CASE LiteralCell(p)
  BY <1>10 DEF LiteralCell, SetCell, StoreStep, Stored
<1>11. CASE LiteralClaim(p)
  BY <1>11, <1>a, DeleteClaimsImplements DEF LiteralClaim, Nowhere
<1>12. CASE SqlSucceeds(p)
  BY <1>12 DEF SqlSucceeds, tables, StoreStep, Stored
<1>13. CASE SqlFails(p)
  BY <1>13 DEF SqlFails, tables, StoreStep, Stored
<1>14. CASE SqlSubmits(p)
  BY <1>14 DEF SqlSubmits, tables, StoreStep, Stored
<1>15. CASE LlmSubmits(p)
  BY <1>15 DEF LlmSubmits, tables, StoreStep, Stored
<1>16. CASE SubmitCell(p)
  BY <1>16 DEF SubmitCell, tables, StoreStep, Stored
<1>17. CASE SubmitFrozen(p)
  BY <1>17 DEF SubmitFrozen, tables, StoreStep, Stored
<1>18. CASE SubmitWrite(p)
  BY <1>18, WriteSlotImplements DEF SubmitWrite
<1>19. CASE SubmitFreeze(p)
  BY <1>19, FreezeSlotImplements
     DEF SubmitFreeze, Controlled, ControlOf, Submitting, SlotsOf
<1>20. CASE SubmitCount(p)
  BY <1>20 DEF SubmitCount, tables, StoreStep, Stored
<1>21. CASE SubmitDone(p)
  BY <1>21 DEF SubmitDone, SetCell, StoreStep, Stored
<1>22. CASE SubmitClaim(p)
  BY <1>22, <1>a, DeleteClaimsImplements DEF SubmitClaim, Nowhere
<1>23. CASE Guard(p)
  BY <1>23 DEF Guard, tables, StoreStep, Stored
<1>24. CASE Later(p)
  BY <1>24 DEF Later, tables, StoreStep, Stored
<1>25. CASE SkipNext(p)
  BY <1>25 DEF SkipNext, tables, StoreStep, Stored
<1>26. CASE SkipJudges(p)
  BY <1>26 DEF SkipJudges, tables, StoreStep, Stored
<1>27. CASE BottomCell(p)
  BY <1>27 DEF BottomCell, SetBottom, StoreStep, Stored
<1>28. CASE BottomYields(p)
  BY <1>28, <1>a, BottomSlotsImplements DEF BottomYields, Nowhere
<1>29. CASE BottomClaim(p)
  BY <1>29, <1>a, DeleteClaimsImplements DEF BottomClaim, Nowhere
<1>30. CASE ReleaseNext(p)
  BY <1>30 DEF ReleaseNext, tables, StoreStep, Stored
<1>31. CASE ReleaseClaim(p)
  BY <1>31, <1>a, DeleteClaimsImplements DEF ReleaseClaim, Nowhere
<1>32. CASE ReleaseCell(p)
  BY <1>32 DEF ReleaseCell, ResetIfComputing, StoreStep, Stored
<1>33. CASE ReleaseTrace(p)
  BY <1>33 DEF ReleaseTrace, TraceRelease, StoreStep, Stored
<1>34. CASE ReleaseAll(p)
  BY <1>34 DEF ReleaseAll, tables, StoreStep, Stored
<1>35. CASE Crash(p)
  BY <1>35 DEF Crash, tables, StoreStep, Stored
<1> QED
  BY <1>1, <1>2, <1>3, <1>4, <1>5, <1>6, <1>7, <1>8, <1>9, <1>10, <1>11,
     <1>12, <1>13, <1>14, <1>15, <1>16, <1>17, <1>18, <1>19, <1>20, <1>21,
     <1>22, <1>23, <1>24, <1>25, <1>26, <1>27, <1>28, <1>29, <1>30, <1>31,
     <1>32, <1>33, <1>34, <1>35
     DEF Step, PistonStep, EvalStep, Submit, GiveUp

\* The tables never show what the Lean claim store forbids: a second holder of
\* a frame, a claim that changes hands, a frozen yield that takes another value
\* by anything but bottomCell.
THEOREM EngineImplementsClaimStore == Spec => ImplementsClaimStore
<1>1. Init => Store!Init
  <2> SUFFICES ASSUME Init PROVE Store!Init
    OBVIOUS
  <2>1. claim = [f \in Cells |-> NoPiston]
    BY DEF Init, Poured
  <2>2. Stored \in [Slots -> Values \cup {"null"}]
    BY InitTyped DEF TypeOK, TablesTypeOK, Stored
  <2> QED BY <2>1, <2>2 DEF Store!Init, Stored
<1>2. TypeOK /\ Controlled /\ [Next]_vars => [Store!Next]_(Store!storeVars)
  <2> SUFFICES ASSUME TypeOK, Controlled, [Next]_vars
               PROVE  [Store!Next]_(Store!storeVars)
    OBVIOUS
  <2>1. StoreStep => [Store!Next]_(Store!storeVars)
    BY DEF StoreStep, Store!storeVars, Stored
  <2>2. CASE UNCHANGED vars
    BY <2>2 DEF vars, tables, Store!storeVars
  <2>3. CASE Lapse
    BY <2>3 DEF Lapse, TimePasses, Store!storeVars
  <2>4. CASE \E p \in Pistons : Step(p)
    BY <2>1, <2>4, StepImplements
  <2> QED BY <2>2, <2>3, <2>4 DEF Next, Step
<1> QED BY <1>1, <1>2, Typed, PTL DEF Spec, ImplementsClaimStore, Store!Spec
=============================================================================
