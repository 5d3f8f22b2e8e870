------------------------- MODULE GenerationsProofs -------------------------
(* Theorems about Generations, for every program, any number of pistons,   *)
(* generations, seconds and thaws.                                         *)
EXTENDS Generations, FiniteSetTheorems, WellFoundedInduction, TLAPS

-----------------------------------------------------------------------------
(* The latest generation of a cell exists.                                 *)

\* A bounded, nonempty set of numbers has a greatest element: one whose set of
\* greater elements is minimal, for inclusion of finite sets is well-founded.
LEMMA MaxOfBoundedSet ==
  ASSUME NEW a \in Int, NEW b \in Int, NEW T \in SUBSET (a..b), T # {}
  PROVE  Max(T) \in T /\ \A x \in T : x <= Max(T)
<1> DEFINE Above(x) == {y \in T : y > x}
           All == {Above(x) : x \in T}
<1>1. IsFiniteSet(a..b)
  BY FS_Interval
<1>2. All \subseteq FiniteSubsetsOf(a..b) /\ All # {}
  <2>1. \A x \in T : Above(x) \in SUBSET (a..b)
    OBVIOUS
  <2>2. FiniteSubsetsOf(a..b) = SUBSET (a..b)
    BY <1>1, FS_FiniteSubsetsOfFinite
  <2>3. All \subseteq FiniteSubsetsOf(a..b)
    BY <2>1, <2>2
  <2>4. PICK w : w \in T
    OBVIOUS
  <2>5. Above(w) \in All
    BY <2>4
  <2> QED BY <2>3, <2>5
<1>3. PICK U \in All : \A V \in All : <<V, U>> \notin StrictSubsetOrdering(a..b)
  <2>1. IsWellFoundedOn(StrictSubsetOrdering(a..b), FiniteSubsetsOf(a..b))
    BY FS_StrictSubsetOrderingWellFounded
  <2> HIDE DEF All
  <2> QED BY <2>1, <1>2, WFMin
<1>4. PICK x \in T : U = Above(x)
  BY <1>3
<1>5. ASSUME NEW y \in T, y > x PROVE FALSE
  <2>0. T \subseteq Int
    OBVIOUS
  <2>1. Above(y) \subseteq Above(x) /\ y \in Above(x) /\ y \notin Above(y)
    <3>1. \A z \in Above(y) : z > x
      BY <1>5, <2>0
    <3>2. y \in Above(x)
      BY <1>5
    <3>3. y \notin Above(y)
      BY <2>0
    <3> QED BY <3>1, <3>2, <3>3
  <2>2. <<Above(y), U>> \in StrictSubsetOrdering(a..b)
    BY <2>0, <2>1, <1>4 DEF StrictSubsetOrdering
  <2> QED BY <2>2, <1>3
<1>6. \A y \in T : x >= y
  BY <1>5
<1> QED BY <1>6 DEF Max

-----------------------------------------------------------------------------
(* Frames: every cell has generation 0, every slot belongs to a frame.     *)

FramesOK ==
  /\ \A c \in Cells : 0 \in frames[c]
  /\ \A s \in Slots : slotGen[s] \in frames[s[1]]

\* The latest generation of a cell is one of its frames.
LEMMA LatestGenIsFrame ==
  ASSUME TypeOK, FramesOK, NEW c \in Cells
  PROVE  LatestGen(c) \in frames[c] /\ LatestGen(c) \in 0..MaxGen
<1>1. frames[c] \in SUBSET (0..MaxGen) /\ frames[c] # {}
  BY DEF TypeOK, FramesOK, Gens
<1>2. 0 \in Int /\ MaxGen \in Int
  BY GenerationsAssumption
<1>3. Max(frames[c]) \in frames[c]
  BY <1>1, <1>2, MaxOfBoundedSet, Zenon
<1> QED BY <1>1, <1>3 DEF LatestGen

\* The last freeze of a cell is a time, or NotFrozen.
LEMMA LastFreezeIsTime ==
  ASSUME TypeOK, NEW c
  PROVE  LastFreeze(c) \in Times \cup {NotFrozen}
<1> DEFINE T == {frozenAt[s] : s \in SlotsOf(c)} \cup {NotFrozen}
<1>1. T \in SUBSET ((-1)..MaxTime) /\ T # {}
  BY GenerationsAssumption DEF TypeOK, SlotsOf, Times, NotFrozen
<1>2. Max(T) \in T
  <2>1. -1 \in Int /\ MaxTime \in Int
    BY GenerationsAssumption
  <2> HIDE DEF T
  <2> QED BY <1>1, <2>1, MaxOfBoundedSet, Zenon
<1>3. Max(T) \in Times \cup {NotFrozen}
  BY <1>2 DEF TypeOK, SlotsOf
<1> QED BY <1>3 DEF LastFreeze

-----------------------------------------------------------------------------
(* The control of one piston and of ct thaw: what they hold where.         *)

Evaluating == {"think", "subCell", "subFrame", "subFrozen", "subFreeze",
               "subCount", "subDone", "subClaim"}
Submitting == Evaluating \ {"think"}

ControlOf(l, r) ==
  /\ l # "idle" => r.at \in Cells
  /\ l \in Evaluating => r.todo \subseteq SlotsOf(r.at)
  /\ l \in Submitting => r.slot \in SlotsOf(r.at)
  /\ l = "bindNext" => r.todo \subseteq Givens(r.at) /\ r.gen \in frames[r.at]

Controlled ==
  /\ \A p \in Pistons : ControlOf(pc[p], loc[p])
  /\ thaw.pc # "off" => thaw.at \in Cells

IInv == TypeOK /\ FramesOK /\ Controlled

\* What no step takes away.
Kept ==
  /\ \A c \in Cells : frames[c] \subseteq frames'[c]
  /\ bindings \subseteq bindings'
  /\ \A s \in Slots : Frozen(s) => frozenAt'[s] # NotFrozen
  /\ slotGen' = slotGen

TablesOK ==
  /\ state    \in [Cells -> {"declared", "computing", "frozen"}]
  /\ holder   \in [Cells -> Pistons \cup {NoPiston}]
  /\ frames   \in [Cells -> SUBSET Gens]
  /\ slotGen  \in [Slots -> Gens]
  /\ frozenAt \in [Slots -> Times \cup {NotFrozen}]
  /\ bindings \subseteq Bindings

\* The tables stay well formed and nothing is taken away.
TablesKept == TablesOK' /\ FramesOK' /\ Kept

\* The empty local variables have their type and fit an idle piston.
LEMMA NoLocalsType ==
  NoLocals \in Locals /\ "idle" \in Labels /\ ControlOf("idle", NoLocals)
BY GenerationsAssumption
   DEF NoLocals, Locals, Labels, ControlOf, Evaluating, Submitting, Gens

-----------------------------------------------------------------------------
(* The statements.                                                         *)

\* Marking a cell keeps the tables well formed and takes nothing away.
LEMMA SetStateKeeps ==
  ASSUME TypeOK, FramesOK, NEW c,
         NEW st \in {"declared", "computing", "frozen"}, SetState(c, st)
  PROVE  TablesKept
BY DEF TypeOK, FramesOK, SetState, Frozen, TablesKept, TablesOK, Kept

\* So does the deletion of a claim.
LEMMA UnclaimKeeps ==
  ASSUME TypeOK, FramesOK, NEW c, Unclaim(c)
  PROVE  TablesKept
BY DEF TypeOK, FramesOK, Unclaim, Frozen, TablesKept, TablesOK, Kept

\* So does freezing rows, in whatever second.
LEMMA FreezeRowsKeeps ==
  ASSUME TypeOK, FramesOK, NEW S, FreezeRows(S)
  PROVE  TablesKept
<1>1. now \in Times /\ now # NotFrozen
  BY GenerationsAssumption DEF TypeOK, Times, NotFrozen
<1> QED
  BY <1>1 DEF TypeOK, FramesOK, FreezeRows, Frozen, TablesKept, TablesOK, Kept

\* So does a statement that changes nothing.
LEMMA UnchangedKeeps ==
  ASSUME TypeOK, FramesOK, UNCHANGED tables
  PROVE  TablesKept
BY DEF TypeOK, FramesOK, Frozen, tables, TablesKept, TablesOK, Kept

\* So does the insertion of a frame.
LEMMA NewFrameKeeps ==
  ASSUME TypeOK, FramesOK, NEW c, NEW g \in Gens,
         frames' = [frames EXCEPT ![c] = @ \cup {g}],
         UNCHANGED <<state, holder, slotGen, frozenAt, bindings>>
  PROVE  TablesKept
<1>1. Slots \subseteq Cells \X Fields
  BY GenerationsAssumption
<1> QED BY <1>1 DEF TypeOK, FramesOK, Frozen, TablesKept, TablesOK, Kept

-----------------------------------------------------------------------------
(* The moves.                                                              *)

PistonsOK ==
  /\ pc \in [Pistons -> Labels] /\ loc \in [Pistons -> Locals]
  /\ \A p \in Pistons : ControlOf(pc[p], loc[p])

ThawOK == thaw \in ThawLocals /\ (thaw.pc # "off" => thaw.at \in Cells)

\* A piston that moves to a label with local variables that fit it.
LEMMA MoveKeeps ==
  ASSUME PistonsOK, Kept, NEW p \in Pistons, NEW l \in Labels,
         NEW r \in Locals, ControlOf(l, r),
         pc' = [pc EXCEPT ![p] = l], loc' = [loc EXCEPT ![p] = r]
  PROVE  PistonsOK'
<1>1. pc' \in [Pistons -> Labels] /\ loc' \in [Pistons -> Locals]
  BY DEF PistonsOK
<1>2. ASSUME NEW q \in Pistons PROVE ControlOf(pc[q], loc[q])'
  <2>1. CASE q = p
    <3>1. pc'[q] = l /\ loc'[q] = r
      BY <2>1 DEF PistonsOK
    <3> QED BY <3>1 DEF Kept, ControlOf, Evaluating, Submitting, SlotsOf, Givens
  <2>2. CASE q # p
    <3>1. pc'[q] = pc[q] /\ loc'[q] = loc[q] /\ ControlOf(pc[q], loc[q])
      BY <2>2 DEF PistonsOK
    <3> QED BY <3>1 DEF Kept, ControlOf, Evaluating, Submitting, SlotsOf, Givens
  <2> QED BY <2>1, <2>2
<1> QED BY <1>1, <1>2 DEF PistonsOK

\* A piston that keeps its local variables.
LEMMA GotoKeeps ==
  ASSUME PistonsOK, Kept, NEW p \in Pistons, NEW l \in Labels,
         ControlOf(l, loc[p]), Goto(p, l), UNCHANGED loc
  PROVE  PistonsOK'
<1>1. loc[p] \in Locals /\ loc' = [loc EXCEPT ![p] = loc[p]]
  BY DEF PistonsOK
<1> QED BY <1>1, MoveKeeps DEF Goto

\* A piston that leaves its handler.
LEMMA LeaveKeeps ==
  ASSUME PistonsOK, Kept, NEW p \in Pistons, Leave(p)
  PROVE  PistonsOK'
BY NoLocalsType, MoveKeeps DEF Leave, Goto

\* A submission that returns.
LEMMA ReturnKeeps ==
  ASSUME PistonsOK, Kept, NEW p \in Pistons, pc[p] \in Submitting, Return(p)
  PROVE  PistonsOK'
<1> DEFINE r == [loc[p] EXCEPT !.todo = @ \ {loc[p].slot}]
<1>1. loc[p] \in Locals /\ ControlOf(pc[p], loc[p])
  BY DEF PistonsOK
<1>2. r \in Locals /\ "think" \in Labels
  BY <1>1 DEF Locals, Labels
<1>3. ControlOf("think", r)
  BY <1>1 DEF ControlOf, Evaluating, Submitting, Locals
<1> QED BY <1>2, <1>3, MoveKeeps DEF Return, Goto

\* Pistons that stand still.
LEMMA StandKeeps ==
  ASSUME PistonsOK, Kept, UNCHANGED <<pc, loc>>
  PROVE  PistonsOK'
BY DEF PistonsOK, Kept, ControlOf, Evaluating, Submitting, SlotsOf, Givens

-----------------------------------------------------------------------------
(* One step keeps the invariant and takes nothing away.                    *)

\* Every step of a piston.
LEMMA PistonKeeps ==
  ASSUME IInv, NEW p \in Pistons, PistonStep(p)
  PROVE  TablesKept /\ PistonsOK' /\ UNCHANGED <<now, thaw>>
<1> DEFINE l == pc[p]  r == loc[p]  c == loc[p].at
<1>a. TypeOK /\ FramesOK /\ PistonsOK
  BY DEF IInv, TypeOK, Controlled, PistonsOK
<1>b. l \in Labels /\ r \in Locals /\ ControlOf(l, r)
  BY <1>a DEF PistonsOK
<1>c. TablesKept => Kept
  BY DEF TablesKept
<1>1. CASE FindReady(p)
  <2>1. TablesKept
    BY <1>1, <1>a, UnchangedKeeps DEF FindReady
  <2>2. PICK d \in Cells : loc' = [loc EXCEPT ![p] = [NoLocals EXCEPT !.at = d]]
    BY <1>1 DEF FindReady
  <2>3. /\ [NoLocals EXCEPT !.at = d] \in Locals /\ "claim" \in Labels
        /\ ControlOf("claim", [NoLocals EXCEPT !.at = d])
    BY NoLocalsType
       DEF NoLocals, Locals, Labels, ControlOf, Evaluating, Submitting
  <2>4. pc' = [pc EXCEPT ![p] = "claim"]
    BY <1>1 DEF FindReady, Goto
  <2>5. PistonsOK'
    <3> HIDE DEF l, r, c
    <3> QED BY <2>1, <2>2, <2>3, <2>4, <1>a, <1>c, MoveKeeps
  <2> QED BY <2>1, <2>5, <1>1 DEF FindReady
<1>2. CASE Claim(p)
  <2>1. c \in Cells /\ ControlOf("mark", r) /\ "mark" \in Labels
    BY <1>2, <1>b
       DEF Claim, ControlOf, Evaluating, Submitting, Labels
  <2>2. CASE Leave(p) /\ UNCHANGED tables
    BY <2>2, <1>2, <1>a, <1>c, UnchangedKeeps, LeaveKeeps DEF Claim
  <2>3. CASE /\ holder' = [holder EXCEPT ![c] = p] /\ Goto(p, "mark")
             /\ UNCHANGED <<loc, state, frames, slotGen, frozenAt, bindings>>
    <3>1. TablesKept
      BY <2>3, <1>a
         DEF TypeOK, FramesOK, Frozen, TablesKept, TablesOK, Kept
    <3> QED BY <2>1, <2>3, <3>1, <1>2, <1>a, <1>c, GotoKeeps DEF Claim
  <2> QED BY <2>2, <2>3, <1>2 DEF Claim
<1>3. CASE Mark(p)
  <2> DEFINE s == [loc[p] EXCEPT !.todo = SlotsOf(c)]
             k == IF c \in Literals THEN "litYields" ELSE "think"
  <2>1. TablesKept
    BY <1>3, <1>a, SetStateKeeps DEF Mark
  <2>2. c \in Cells /\ SlotsOf(c) \subseteq Slots
    BY <1>3, <1>b DEF Mark, ControlOf, SlotsOf
  <2>3. s \in Locals /\ k \in Labels /\ ControlOf(k, s)
    BY <2>2, <1>b DEF Locals, Labels, ControlOf, Evaluating, Submitting
  <2>4. pc' = [pc EXCEPT ![p] = k] /\ loc' = [loc EXCEPT ![p] = s]
    BY <1>3 DEF Mark, Goto
  <2> QED BY <2>1, <2>3, <2>4, <1>3, <1>a, <1>c, MoveKeeps DEF Mark
<1>4. CASE LiteralYields(p)
  <2>1. TablesKept
    BY <1>4, <1>a, FreezeRowsKeeps DEF LiteralYields
  <2>2. "litCell" \in Labels /\ ControlOf("litCell", r)
    BY <1>4, <1>b DEF LiteralYields, Labels, ControlOf, Evaluating, Submitting
  <2> QED BY <2>1, <2>2, <1>4, <1>a, <1>c, GotoKeeps DEF LiteralYields
<1>5. CASE LiteralCell(p)
  <2>1. TablesKept
    BY <1>5, <1>a, SetStateKeeps DEF LiteralCell
  <2>2. "litClaim" \in Labels /\ ControlOf("litClaim", r)
    BY <1>5, <1>b DEF LiteralCell, Labels, ControlOf, Evaluating, Submitting
  <2> QED BY <2>1, <2>2, <1>5, <1>a, <1>c, GotoKeeps DEF LiteralCell
<1>6. CASE LiteralClaim(p)
  <2>1. TablesKept
    BY <1>6, <1>a, UnclaimKeeps DEF LiteralClaim
  <2> QED BY <2>1, <1>6, <1>a, <1>c, LeaveKeeps DEF LiteralClaim
<1>7. CASE LlmSubmits(p)
  <2>1. TablesKept
    BY <1>7, <1>a, UnchangedKeeps DEF LlmSubmits
  <2>2. CASE Leave(p)
    BY <2>1, <2>2, <1>7, <1>a, <1>c, LeaveKeeps DEF LlmSubmits
  <2>3. ASSUME NEW s \in r.todo, Goto(p, "subCell"),
               loc' = [loc EXCEPT ![p].slot = s]
        PROVE  PistonsOK'
    <3> DEFINE q == [loc[p] EXCEPT !.slot = s]
    <3>1. q \in Locals /\ "subCell" \in Labels /\ ControlOf("subCell", q)
      BY <1>7, <1>b, <2>3
         DEF LlmSubmits, Locals, Labels, ControlOf, Evaluating, Submitting
    <3>2. loc' = [loc EXCEPT ![p] = q]
      BY <2>3
    <3> QED BY <2>1, <2>3, <3>1, <3>2, <1>a, <1>c, MoveKeeps DEF Goto
  <2> QED BY <2>1, <2>2, <2>3, <1>7 DEF LlmSubmits
<1>8. CASE SubmitCell(p)
  <2>1. TablesKept
    BY <1>8, <1>a, UnchangedKeeps DEF SubmitCell
  <2>2. "subFrame" \in Labels /\ ControlOf("subFrame", r) /\ l \in Submitting
    BY <1>8, <1>b DEF SubmitCell, Labels, ControlOf, Evaluating, Submitting
  <2> QED BY <2>1, <2>2, <1>8, <1>a, <1>c, GotoKeeps, ReturnKeeps DEF SubmitCell
<1>9. CASE SubmitFrame(p)
  <2> DEFINE q == [loc[p] EXCEPT !.gen = LatestGen(c)]
  <2>1. TablesKept
    BY <1>9, <1>a, UnchangedKeeps DEF SubmitFrame
  <2>2. c \in Cells
    BY <1>9, <1>b DEF SubmitFrame, ControlOf
  <2>3. q \in Locals /\ "subFrozen" \in Labels /\ ControlOf("subFrozen", q)
    BY <1>9, <1>a, <1>b, <2>2, LatestGenIsFrame
       DEF SubmitFrame, Locals, Gens, Labels, ControlOf, Evaluating, Submitting
  <2>4. pc' = [pc EXCEPT ![p] = "subFrozen"] /\ loc' = [loc EXCEPT ![p] = q]
    BY <1>9 DEF SubmitFrame, Goto
  <2> QED BY <2>1, <2>3, <2>4, <1>9, <1>a, <1>c, MoveKeeps DEF SubmitFrame
<1>10. CASE SubmitFrozen(p)
  <2>1. TablesKept
    BY <1>10, <1>a, UnchangedKeeps DEF SubmitFrozen
  <2>2. "subFreeze" \in Labels /\ ControlOf("subFreeze", r) /\ l \in Submitting
    BY <1>10, <1>b DEF SubmitFrozen, Labels, ControlOf, Evaluating, Submitting
  <2> QED BY <2>1, <2>2, <1>10, <1>a, <1>c, GotoKeeps, ReturnKeeps DEF SubmitFrozen
<1>11. CASE SubmitFreeze(p)
  <2>1. TablesKept
    BY <1>11, <1>a, FreezeRowsKeeps DEF SubmitFreeze
  <2>2. "subCount" \in Labels /\ ControlOf("subCount", r)
    BY <1>11, <1>b DEF SubmitFreeze, Labels, ControlOf, Evaluating, Submitting
  <2> QED BY <2>1, <2>2, <1>11, <1>a, <1>c, GotoKeeps DEF SubmitFreeze
<1>12. CASE SubmitCount(p)
  <2>1. TablesKept
    BY <1>12, <1>a, UnchangedKeeps DEF SubmitCount
  <2>2. "subDone" \in Labels /\ ControlOf("subDone", r) /\ l \in Submitting
    BY <1>12, <1>b DEF SubmitCount, Labels, ControlOf, Evaluating, Submitting
  <2> QED BY <2>1, <2>2, <1>12, <1>a, <1>c, GotoKeeps, ReturnKeeps DEF SubmitCount
<1>13. CASE SubmitDone(p)
  <2>1. TablesKept
    BY <1>13, <1>a, SetStateKeeps DEF SubmitDone
  <2>2. "subClaim" \in Labels /\ ControlOf("subClaim", r)
    BY <1>13, <1>b DEF SubmitDone, Labels, ControlOf, Evaluating, Submitting
  <2> QED BY <2>1, <2>2, <1>13, <1>a, <1>c, GotoKeeps DEF SubmitDone
<1>14. CASE SubmitClaim(p)
  <2>1. TablesKept
    BY <1>14, <1>a, UnclaimKeeps DEF SubmitClaim
  <2>2. "bind" \in Labels /\ ControlOf("bind", r)
    BY <1>14, <1>b DEF SubmitClaim, Labels, ControlOf, Evaluating, Submitting
  <2> QED BY <2>1, <2>2, <1>14, <1>a, <1>c, GotoKeeps DEF SubmitClaim
<1>15. CASE Bind(p)
  <2> DEFINE q == [loc[p] EXCEPT !.gen = LatestGen(c), !.todo = Givens(c)]
  <2>1. TablesKept
    BY <1>15, <1>a, UnchangedKeeps DEF Bind
  <2>2. c \in Cells /\ Givens(c) \subseteq Slots
    BY <1>15, <1>b, GenerationsAssumption DEF Bind, ControlOf, Givens
  <2>3. q \in Locals /\ "bindNext" \in Labels /\ ControlOf("bindNext", q)
    BY <1>15, <1>a, <1>b, <2>2, LatestGenIsFrame
       DEF Bind, Locals, Gens, Labels, ControlOf, Evaluating, Submitting
  <2>4. pc' = [pc EXCEPT ![p] = "bindNext"] /\ loc' = [loc EXCEPT ![p] = q]
    BY <1>15 DEF Bind, Goto
  <2> QED BY <2>1, <2>3, <2>4, <1>15, <1>a, <1>c, MoveKeeps DEF Bind
<1>16. CASE BindNext(p)
  <2>1. c \in Cells /\ r.gen \in Gens /\ r.todo \subseteq Slots
    BY <1>16, <1>a, <1>b, GenerationsAssumption
       DEF BindNext, ControlOf, Givens, Evaluating, Submitting, TypeOK
  <2>2. ASSUME NEW s \in r.todo,
               bindings' = bindings \cup
                 {[consumer |-> <<c, r.gen>>, producer |-> <<t[1], slotGen[t]>>,
                   slot |-> t] : t \in {u \in {s} : Bindable(c, r.gen, u)}},
               loc' = [loc EXCEPT ![p].todo = @ \ {s}], UNCHANGED pc
        PROVE  TablesKept /\ PistonsOK'
    <3> DEFINE q == [loc[p] EXCEPT !.todo = @ \ {s}]
    <3>1. [consumer |-> <<c, r.gen>>, producer |-> <<s[1], slotGen[s]>>,
           slot |-> s] \in Bindings
      BY <2>1, <2>2, <1>a, GenerationsAssumption DEF TypeOK, Bindings, Frames
    <3>2. bindings' \subseteq Bindings /\ bindings \subseteq bindings'
      BY <3>1, <2>2, <1>a DEF TypeOK
    <3>3. TablesKept
      BY <3>2, <1>16, <1>a
         DEF BindNext, TypeOK, FramesOK, Frozen, TablesKept, TablesOK, Kept
    <3>4. q \in Locals /\ ControlOf(l, q)
      BY <1>16, <1>b DEF BindNext, Locals, ControlOf, Evaluating, Submitting
    <3>5. pc' = [pc EXCEPT ![p] = l] /\ loc' = [loc EXCEPT ![p] = q]
      BY <2>2, <1>a DEF TypeOK
    <3> QED BY <3>3, <3>4, <3>5, <1>a, <1>b, <1>c, MoveKeeps
  <2>3. CASE /\ IF c \in Stems /\ Givens(c) # {}
                THEN Goto(p, "lastFreeze") /\ UNCHANGED loc
                ELSE Leave(p)
             /\ UNCHANGED bindings
    <3>1. TablesKept
      BY <2>3, <1>16, <1>a, UnchangedKeeps DEF BindNext, tables
    <3>2. "lastFreeze" \in Labels /\ ControlOf("lastFreeze", r)
      BY <2>1 DEF Labels, ControlOf, Evaluating, Submitting
    <3>3. PistonsOK'
      BY <2>3, <3>1, <3>2, <1>a, <1>c, GotoKeeps, LeaveKeeps
    <3> QED BY <3>1, <3>3, <1>16 DEF BindNext
  <2>4. UNCHANGED <<now, thaw>>
    BY <1>16 DEF BindNext
  <2> QED BY <2>2, <2>3, <2>4, <1>16 DEF BindNext
<1>17. CASE ReadLastFreeze(p)
  <2> DEFINE q == [loc[p] EXCEPT !.time = LastFreeze(c)]
  <2>1. TablesKept
    BY <1>17, <1>a, UnchangedKeeps DEF ReadLastFreeze
  <2>2. q \in Locals /\ "demand" \in Labels /\ ControlOf("demand", q)
    BY <1>17, <1>a, <1>b, LastFreezeIsTime
       DEF ReadLastFreeze, Locals, Labels, ControlOf, Evaluating, Submitting
  <2>3. pc' = [pc EXCEPT ![p] = "demand"] /\ loc' = [loc EXCEPT ![p] = q]
    BY <1>17 DEF ReadLastFreeze, Goto
  <2> QED BY <2>1, <2>2, <2>3, <1>17, <1>a, <1>c, MoveKeeps DEF ReadLastFreeze
<1>18. CASE CheckDemand(p)
  <2>1. TablesKept
    BY <1>18, <1>a, UnchangedKeeps DEF CheckDemand
  <2>2. "maxGen" \in Labels /\ ControlOf("maxGen", r)
    BY <1>18, <1>b DEF CheckDemand, Labels, ControlOf, Evaluating, Submitting
  <2> QED BY <2>1, <2>2, <1>18, <1>a, <1>c, GotoKeeps, LeaveKeeps DEF CheckDemand
<1>19. CASE ReadMaxGen(p)
  <2> DEFINE q == [loc[p] EXCEPT !.gen = LatestGen(c) + 1]
  <2>1. TablesKept
    BY <1>19, <1>a, UnchangedKeeps DEF ReadMaxGen
  <2>2. LatestGen(c) + 1 \in Gens \cup {MaxGen + 1}
    BY <1>19, <1>a, <1>b, LatestGenIsFrame, GenerationsAssumption
       DEF ReadMaxGen, ControlOf, Gens
  <2>3. q \in Locals /\ "insertFrame" \in Labels /\ ControlOf("insertFrame", q)
    BY <1>19, <1>b, <2>2
       DEF ReadMaxGen, Locals, Labels, ControlOf, Evaluating, Submitting
  <2>4. pc' = [pc EXCEPT ![p] = "insertFrame"] /\ loc' = [loc EXCEPT ![p] = q]
    BY <1>19 DEF ReadMaxGen, Goto
  <2> QED BY <2>1, <2>3, <2>4, <1>19, <1>a, <1>c, MoveKeeps DEF ReadMaxGen
<1>20. CASE InsertFrame(p)
  <2>1. CASE Leave(p) /\ UNCHANGED tables
    BY <2>1, <1>20, <1>a, <1>c, UnchangedKeeps, LeaveKeeps DEF InsertFrame
  <2>2. CASE /\ r.gen <= MaxGen
             /\ frames' = [frames EXCEPT ![c] = @ \cup {r.gen}]
             /\ Goto(p, "redeclare")
             /\ UNCHANGED <<loc, state, holder, slotGen, frozenAt, bindings>>
    <3>1. r.gen \in Gens
      BY <2>2, <1>b, GenerationsAssumption DEF Locals, Gens
    <3>2. TablesKept
      BY <3>1, <2>2, <1>a, NewFrameKeeps
    <3>3. "redeclare" \in Labels /\ ControlOf("redeclare", r)
      BY <1>20, <1>b DEF InsertFrame, Labels, ControlOf, Evaluating, Submitting
    <3>4. PistonsOK'
      BY <2>2, <3>2, <3>3, <1>a, <1>c, GotoKeeps
    <3> QED BY <3>2, <3>4, <1>20 DEF InsertFrame
  <2> QED BY <2>1, <2>2, <1>20 DEF InsertFrame
<1>21. CASE Redeclare(p)
  <2>1. TablesKept
    BY <1>21, <1>a, SetStateKeeps DEF Redeclare
  <2>2. "insertSlots" \in Labels /\ ControlOf("insertSlots", r)
    BY <1>21, <1>b DEF Redeclare, Labels, ControlOf, Evaluating, Submitting
  <2> QED BY <2>1, <2>2, <1>21, <1>a, <1>c, GotoKeeps DEF Redeclare
<1>22. CASE RespawnSlots(p)
  <2>1. TablesKept
    BY <1>22, <1>a, UnchangedKeeps DEF RespawnSlots, InsertSlots
  <2> QED BY <2>1, <1>22, <1>a, <1>c, LeaveKeeps DEF RespawnSlots
<1> QED
  BY <1>1, <1>2, <1>3, <1>4, <1>5, <1>6, <1>7, <1>8, <1>9, <1>10, <1>11,
     <1>12, <1>13, <1>14, <1>15, <1>16, <1>17, <1>18, <1>19, <1>20, <1>21,
     <1>22
  DEF PistonStep, EvalStep, Submit, Respawn

\* Every step of ct thaw.
LEMMA ThawKeeps ==
  ASSUME IInv, ThawStart \/ Thaw
  PROVE  TablesKept /\ PistonsOK' /\ ThawOK' /\ UNCHANGED now
<1>a. TypeOK /\ FramesOK /\ PistonsOK /\ ThawOK
  BY DEF IInv, TypeOK, Controlled, PistonsOK, ThawOK
<1>b. TablesKept /\ UNCHANGED <<pc, loc>> => PistonsOK'
  BY <1>a, StandKeeps DEF TablesKept
<1>1. CASE ThawStart
  <2>1. TablesKept
    BY <1>1, <1>a, UnchangedKeeps DEF ThawStart
  <2>2. PICK c \in Cells :
           thaw' = [thaw EXCEPT !.pc = "declare", !.at = c, !.done = {c},
                                !.count = @ + 1]
    BY <1>1 DEF ThawStart
  <2>3. thaw.count + 1 \in 0..MaxThaws
    <3>1. thaw.count \in 0..MaxThaws /\ thaw.count < MaxThaws
      BY <1>1, <1>a DEF ThawStart, ThawOK, ThawLocals
    <3>2. MaxThaws \in Nat
      BY GenerationsAssumption
    <3> QED BY <3>1, <3>2
  <2>4. thaw' \in ThawLocals /\ thaw'.at \in Cells
    BY <2>2, <2>3, <1>a DEF ThawOK, ThawLocals, ThawLabels
  <2>5. ThawOK'
    BY <2>4 DEF ThawOK
  <2> QED BY <2>1, <2>5, <1>1, <1>b DEF ThawStart
<1>2. CASE ThawDeclare
  <2>1. TablesKept
    BY <1>2, <1>a, SetStateKeeps DEF ThawDeclare
  <2>2. ThawOK'
    BY <1>2, <1>a DEF ThawDeclare, ThawGoto, ThawOK, ThawLocals, ThawLabels
  <2> QED BY <2>1, <2>2, <1>2, <1>b DEF ThawDeclare
<1>3. CASE ThawUnclaim
  <2>1. TablesKept
    BY <1>3, <1>a, UnclaimKeeps DEF ThawUnclaim
  <2>2. ThawOK'
    BY <1>3, <1>a DEF ThawUnclaim, ThawGoto, ThawOK, ThawLocals, ThawLabels
  <2> QED BY <2>1, <2>2, <1>3, <1>b DEF ThawUnclaim
<1>4. CASE ThawMaxGen
  <2>1. TablesKept
    BY <1>4, <1>a, UnchangedKeeps DEF ThawMaxGen
  <2>2. LatestGen(thaw.at) + 1 \in Gens \cup {MaxGen + 1}
    BY <1>4, <1>a, LatestGenIsFrame, GenerationsAssumption
       DEF ThawMaxGen, ThawOK, Gens
  <2>3. ThawOK'
    BY <1>4, <1>a, <2>2 DEF ThawMaxGen, ThawOK, ThawLocals, ThawLabels
  <2> QED BY <2>1, <2>3, <1>4, <1>b DEF ThawMaxGen
<1>5. CASE ThawFrame
  <2>1. thaw.gen \in Gens
    BY <1>5, <1>a, GenerationsAssumption DEF ThawFrame, ThawOK, ThawLocals, Gens
  <2>2. TablesKept
    BY <1>5, <2>1, <1>a, NewFrameKeeps DEF ThawFrame
  <2>3. ThawOK'
    BY <1>5, <1>a DEF ThawFrame, ThawGoto, ThawOK, ThawLocals, ThawLabels
  <2> QED BY <2>2, <2>3, <1>5, <1>b DEF ThawFrame
<1>6. CASE ThawSlots
  <2>1. TablesKept
    BY <1>6, <1>a, UnchangedKeeps DEF ThawSlots, InsertSlots
  <2>2. ThawOK'
    BY <1>6, <1>a DEF ThawSlots, ThawGoto, ThawOK, ThawLocals, ThawLabels
  <2> QED BY <2>1, <2>2, <1>6, <1>b DEF ThawSlots
<1>7. CASE ThawCascade
  <2>1. TablesKept
    BY <1>7, <1>a, UnchangedKeeps DEF ThawCascade
  <2>2. UNION {Dependents(c) : c \in thaw.done} \subseteq Cells
    BY DEF Dependents
  <2>3. ASSUME NEW d \in UNION {Dependents(c) : c \in thaw.done},
               thaw' = [thaw EXCEPT !.pc = "declare", !.at = d, !.done = @ \cup {d}]
        PROVE  ThawOK'
    <3>1. d \in Cells
      BY <2>2, <2>3
    <3> QED BY <3>1, <2>3, <1>a DEF ThawOK, ThawLocals, ThawLabels
  <2>4. ASSUME thaw' = [thaw EXCEPT !.pc = "off", !.at = NoCell, !.gen = 0,
                                    !.done = {}]
        PROVE  ThawOK'
    <3>1. 0 \in Gens
      BY GenerationsAssumption DEF Gens
    <3>2. thaw' \in ThawLocals /\ thaw'.pc = "off"
      BY <3>1, <2>4, <1>a DEF ThawOK, ThawLocals, ThawLabels
    <3> QED BY <3>2 DEF ThawOK
  <2>5. ThawOK'
    <3> HIDE DEF ThawOK
    <3> QED BY <2>3, <2>4, <1>7 DEF ThawCascade
  <2> QED BY <2>1, <2>5, <1>7, <1>b DEF ThawCascade
<1> QED BY <1>1, <1>2, <1>3, <1>4, <1>5, <1>6, <1>7 DEF Thaw

\* Every step.
LEMMA StepKeeps ==
  ASSUME IInv, [Next]_vars
  PROVE  IInv' /\ Kept
<1>a. TypeOK /\ FramesOK /\ PistonsOK /\ ThawOK
  BY DEF IInv, TypeOK, Controlled, PistonsOK, ThawOK
<1>b. TablesKept /\ PistonsOK' /\ ThawOK' /\ now' \in Times => IInv' /\ Kept
  BY DEF TablesKept, TablesOK, PistonsOK, ThawOK, IInv, TypeOK, Controlled
<1>c. now \in Times
  BY <1>a DEF TypeOK
<1>1. ASSUME NEW p \in Pistons, PistonStep(p) PROVE IInv' /\ Kept
  BY <1>1, <1>a, <1>b, <1>c, PistonKeeps DEF ThawOK
<1>2. CASE ThawStart \/ Thaw
  BY <1>2, <1>b, <1>c, ThawKeeps
<1>3. CASE Tick \/ UNCHANGED vars
  <2>1. UNCHANGED <<tables, pc, loc, thaw>>
    BY <1>3 DEF Tick, vars
  <2>2. TablesKept
    BY <2>1, <1>a, UnchangedKeeps
  <2>3. PistonsOK' /\ ThawOK'
    BY <2>1, <2>2, <1>a, StandKeeps DEF TablesKept, ThawOK
  <2>4. now' \in Times
    BY <1>3, <1>c, GenerationsAssumption DEF Tick, vars, Times
  <2> QED BY <2>2, <2>3, <2>4, <1>b
<1> QED BY <1>1, <1>2, <1>3 DEF Next

\* The poured program satisfies the invariant.
LEMMA InitInv == Init => IInv
<1> SUFFICES ASSUME Init PROVE IInv
  OBVIOUS
<1>1. 0 \in Gens /\ 0 \in Times /\ Slots \subseteq Cells \X Fields
  BY GenerationsAssumption DEF Gens, Times
<1>2. TypeOK
  BY <1>1, NoLocalsType, GenerationsAssumption DEF Init, TypeOK, ThawLocals, ThawLabels
<1>3. FramesOK
  BY <1>1 DEF Init, FramesOK
<1>4. Controlled
  BY NoLocalsType DEF Init, Controlled
<1> QED BY <1>2, <1>3, <1>4 DEF IInv

\* The invariant holds in every reachable state.
LEMMA InvAlways == Spec => []IInv
<1>1. IInv /\ [Next]_vars => IInv'
  BY StepKeeps
<1> QED BY InitInv, <1>1, PTL DEF Spec

-----------------------------------------------------------------------------
(* Theorems.                                                               *)

\* Tables, labels and local variables keep their types, whatever is
\* respawned and thawed.
THEOREM TypeCorrect == Spec => []TypeOK
<1>1. IInv => TypeOK
  BY DEF IInv
<1> QED BY InvAlways, <1>1, PTL

\* No step takes a frame, a binding or a frozen yield away, or moves a frozen
\* yield to another frame.
THEOREM AppendOnlyAlways == Spec => AppendOnly
<1>1. IInv /\ [Next]_vars =>
        [/\ \A c \in Cells : frames[c] \subseteq frames'[c]
         /\ bindings \subseteq bindings'
         /\ \A s \in Slots : Frozen(s) => frozenAt'[s] # NotFrozen /\ slotGen'[s] = slotGen[s]
        ]_vars
  BY StepKeeps DEF Kept
<1> QED BY InvAlways, <1>1, PTL DEF Spec, AppendOnly

\* recordBindings keeps I10 and I11: the rows it has looked at stay frozen, the
\* frames stay, so what it establishes in one step stays true in all others.
THEOREM BindingsSoundAlways == Spec => []BindingsSound
<1> DEFINE SoundOf(b) ==
      LET c == b.consumer[1]  d == b.producer[1]
      IN /\ b.slot \in Givens(c) /\ b.slot[1] = d
         /\ b.consumer[2] \in frames[c] /\ b.producer[2] \in frames[d]
         /\ \A t \in SlotsOfFrame(d, b.producer[2]) : Frozen(t)
         /\ c = d => b.producer[2] < b.consumer[2]
<1>1. Init => BindingsSound
  BY DEF Init, BindingsSound
<1>2. IInv /\ BindingsSound /\ [Next]_vars => BindingsSound'
  <2> SUFFICES ASSUME IInv, BindingsSound, [Next]_vars, NEW b \in bindings'
               PROVE  SoundOf(b)'
    BY DEF BindingsSound
  <2>1. Kept /\ TypeOK
    BY StepKeeps DEF IInv
  <2>2. CASE b \in bindings
    <3>1. SoundOf(b)
      BY <2>2 DEF BindingsSound
    <3>2. b.consumer[1] \in Cells /\ b.producer[1] \in Cells
      BY <2>2, <2>1 DEF TypeOK, Bindings, Frames
    <3> QED BY <2>1, <3>1, <3>2 DEF Kept, Givens, SlotsOfFrame, SlotsOf, Frozen
  <2>3. CASE b \notin bindings
    <3>1. PICK p \in Pistons : BindNext(p)
      BY <2>3 DEF Next, vars, tables, PistonStep, EvalStep, Submit, Respawn, Thaw,
           FindReady, Claim, Mark, LiteralYields, LiteralCell, LiteralClaim,
           LlmSubmits, SubmitCell, SubmitFrame, SubmitFrozen, SubmitFreeze,
           SubmitCount, SubmitDone, SubmitClaim, Bind, ReadLastFreeze, CheckDemand,
           ReadMaxGen, InsertFrame, Redeclare, RespawnSlots, ThawStart,
           ThawDeclare, ThawUnclaim, ThawMaxGen, ThawFrame, ThawSlots, ThawCascade,
           Tick, SetState, Unclaim, FreezeRows, InsertSlots
    <3> DEFINE c == loc[p].at  g == loc[p].gen
    <3>2. PICK s \in loc[p].todo :
            /\ Bindable(c, g, s)
            /\ b = [consumer |-> <<c, g>>, producer |-> <<s[1], slotGen[s]>>, slot |-> s]
      BY <2>3, <3>1 DEF BindNext
    <3>3. s \in Givens(c) /\ g \in frames[c] /\ c \in Cells
      BY <3>1, <3>2 DEF BindNext, IInv, Controlled, ControlOf
    <3>4. s \in Slots /\ slotGen[s] \in frames[s[1]] /\ s[1] \in Cells
      BY <3>3, GenerationsAssumption DEF Givens, IInv, FramesOK
    <3>5. SoundOf(b)
      BY <3>2, <3>3, <3>4 DEF Bindable
    <3> QED BY <2>1, <3>2, <3>3, <3>4, <3>5
            DEF Kept, Givens, SlotsOfFrame, SlotsOf, Frozen
  <2> QED BY <2>2, <2>3
<1> QED BY InvAlways, <1>1, <1>2, PTL DEF Spec

-----------------------------------------------------------------------------
(***************************************************************************)
(* "No new data, no spawn", for every program, any number of pistons,      *)
(* generations and seconds: as long as nobody thaws a cell, a stem is      *)
(* respawned only for an input frozen in a later second than its own       *)
(* yields.                                                                 *)
(*                                                                         *)
(* The respawning piston decides from what it read several statements ago, *)
(* after it gave up its claim.  What it read stays true because a row once *)
(* frozen is not frozen again: the piston that freezes a row has read that *)
(* it is open, and holds the claim, so nobody was there in between.        *)
(***************************************************************************)

\* The labels at which a piston holds the claim of its cell.
Holding == {"mark", "litYields", "litCell", "litClaim"} \cup Evaluating

\* The labels at which all yields of its cell are frozen.
Answered == {"subDone", "subClaim", "bind", "bindNext", "lastFreeze", "demand",
             "maxGen", "insertFrame", "redeclare", "insertSlots"}

AllFrozen(c) == SlotsOf(c) # {} /\ \A s \in SlotsOf(c) : Frozen(s)
Justified(c) ==
  \E s \in Givens(c) : Frozen(s) /\ \A t \in SlotsOf(c) : frozenAt[t] < frozenAt[s]

\* What a piston at label l with local variables r knows.
Knows(p, l, r) ==
  /\ l \in Holding => holder[r.at] = p
  /\ l \in {"subFrozen", "subFreeze", "subCount"} /\ r.gen # 0 => frames[r.at] # {0}
  /\ l = "subFreeze" /\ r.gen = 0 => ~Frozen(r.slot)
  /\ l \in Answered => AllFrozen(r.at)
  /\ l = "demand" => r.time = LastFreeze(r.at)
  /\ l \in {"maxGen", "insertFrame"} => Justified(r.at)

\* All rows belong to generation 0, and a second frame is justified.
Spawned ==
  /\ \A s \in Slots : slotGen[s] = 0
  /\ \A c \in Cells : frames[c] # {0} => AllFrozen(c) /\ Justified(c)

SpawnInv ==
  thaw.count = 0 => /\ thaw.pc = "off"
                    /\ Spawned
                    /\ \A p \in Pistons : Knows(p, pc[p], loc[p])

-----------------------------------------------------------------------------
(* What one step of piston p leaves to the others.                         *)

\* p freezes only open rows of a cell it holds, and takes no claim away.
Careful(p) ==
  /\ \A s \in Slots : frozenAt'[s] # frozenAt[s] => ~Frozen(s) /\ holder[s[1]] = p
  /\ \A c \in Cells : holder[c] \notin {p, NoPiston} => holder'[c] = holder[c]

\* Frozen rows are left as they are, so what was concluded from them stands.
LEMMA AnsweredStays ==
  ASSUME NEW p, Careful(p), NEW c, AllFrozen(c)
  PROVE  /\ AllFrozen(c)'
         /\ \A t \in SlotsOf(c) : frozenAt'[t] = frozenAt[t]
         /\ LastFreeze(c)' = LastFreeze(c)
<1>1. \A t \in SlotsOf(c) : frozenAt'[t] = frozenAt[t]
  BY DEF Careful, AllFrozen, SlotsOf
<1>2. SlotsOf(c)' = SlotsOf(c)
  BY DEF SlotsOf
<1>3. AllFrozen(c)'
  BY <1>1, <1>2 DEF AllFrozen, Frozen
<1>4. {frozenAt[s] : s \in SlotsOf(c)}' = {frozenAt[s] : s \in SlotsOf(c)}
  BY <1>1, <1>2
<1>5. LastFreeze(c)' = LastFreeze(c)
  BY <1>4 DEF LastFreeze
<1> QED BY <1>1, <1>3, <1>5

\* A justification found for a cell with frozen rows is not taken away.
LEMMA JustifiedStays ==
  ASSUME NEW p, Careful(p), NEW c \in Cells, AllFrozen(c), Justified(c)
  PROVE  Justified(c)'
<1>1. PICK s \in Givens(c) : Frozen(s) /\ \A t \in SlotsOf(c) : frozenAt[t] < frozenAt[s]
  BY DEF Justified
<1>2. s \in Slots
  BY GenerationsAssumption DEF Givens
<1>3. frozenAt'[s] = frozenAt[s]
  BY <1>1, <1>2 DEF Careful
<1>4. \A t \in SlotsOf(c) : frozenAt'[t] = frozenAt[t]
  BY AnsweredStays
<1>5. Frozen(s)' /\ \A t \in SlotsOf(c) : frozenAt'[t] < frozenAt'[s]
  BY <1>1, <1>3, <1>4 DEF Frozen
<1>6. Givens(c)' = Givens(c) /\ SlotsOf(c)' = SlotsOf(c)
  BY DEF Givens, SlotsOf
<1> QED BY <1>5, <1>6 DEF Justified

\* A cell that has a second frame keeps it.
LEMMA FramesStay ==
  ASSUME FramesOK, Kept, NEW c \in Cells, frames[c] # {0}
  PROVE  frames'[c] # {0}
<1>1. PICK g \in frames[c] : g # 0
  BY DEF FramesOK
<1> QED BY <1>1 DEF Kept

\* What another piston knows stays true.
LEMMA OthersKnow ==
  ASSUME IInv, Kept, NEW p \in Pistons, Careful(p),
         NEW q \in Pistons, q # p, Knows(q, pc[q], loc[q]),
         pc'[q] = pc[q], loc'[q] = loc[q]
  PROVE  Knows(q, pc[q], loc[q])'
<1> DEFINE l == pc[q]  r == loc[q]
<1>a. ControlOf(l, r) /\ FramesOK
  BY DEF IInv, Controlled
<1>b. l # "idle" => r.at \in Cells
  BY <1>a DEF ControlOf
<1>1. l \in Holding => r.at \in Cells /\ holder'[r.at] = q
  BY <1>b, GenerationsAssumption DEF Knows, Holding, Evaluating, Careful
<1>2. l \in {"subFrozen", "subFreeze", "subCount"} /\ r.gen # 0 => frames'[r.at] # {0}
  BY <1>a, <1>b, FramesStay DEF Knows
<1>3. l = "subFreeze" /\ r.gen = 0 => frozenAt'[r.slot] = frozenAt[r.slot]
  <2> SUFFICES ASSUME l = "subFreeze" PROVE frozenAt'[r.slot] = frozenAt[r.slot]
    OBVIOUS
  <2>1. r.slot \in Slots /\ r.slot[1] = r.at /\ holder[r.at] = q
    BY <1>a DEF ControlOf, Submitting, Evaluating, Holding, SlotsOf, Knows
  <2> QED BY <2>1 DEF Careful
<1>4. l \in Answered => AllFrozen(r.at)' /\ LastFreeze(r.at)' = LastFreeze(r.at)
  BY AnsweredStays DEF Knows
<1>5. l \in {"maxGen", "insertFrame"} => Justified(r.at)'
  BY <1>b, JustifiedStays DEF Knows, Answered
<1>6. loc'[q].at = r.at
  OBVIOUS
<1> QED BY <1>1, <1>2, <1>3, <1>4, <1>5 DEF Knows, Frozen, Answered

-----------------------------------------------------------------------------
(* What the step leaves to p itself.                                       *)

\* Neither rows, claims nor frames: what p knows about them is still true.
SameRows == UNCHANGED <<frozenAt, holder, frames, slotGen>>

\* What a piston knows depends on the rows, claims and frames only.
LEMMA SameRowsKnown ==
  ASSUME NEW p, SameRows, NEW l, NEW r, Knows(p, l, r), pc'[p] = l, loc'[p] = r
  PROVE  Careful(p) /\ Knows(p, pc[p], loc[p])'
<1>1. Careful(p)
  BY DEF Careful, SameRows
<1>2. /\ \A s : Frozen(s)' = Frozen(s)
      /\ \A c : AllFrozen(c)' = AllFrozen(c)
      /\ \A c : LastFreeze(c)' = LastFreeze(c)
      /\ \A c : Justified(c)' = Justified(c)
  BY DEF SameRows, Frozen, AllFrozen, LastFreeze, Justified, SlotsOf, Givens
<1>3. holder' = holder /\ frames' = frames
  BY DEF SameRows
<1>4. Knows(p, l, r)'
  BY <1>2, <1>3 DEF Knows
<1> QED BY <1>1, <1>4 DEF Knows

\* The rows and frames of a cell that has a second frame stay as they are.
LEMMA SpawnedStays ==
  ASSUME IInv, Kept, NEW p, Careful(p), Spawned, UNCHANGED frames
  PROVE  Spawned'
<1>1. \A s \in Slots : slotGen'[s] = 0
  BY DEF Spawned, Kept
<1>2. ASSUME NEW c \in Cells, frames'[c] # {0} PROVE AllFrozen(c)' /\ Justified(c)'
  <2>1. AllFrozen(c) /\ Justified(c)
    BY <1>2 DEF Spawned
  <2> QED BY <2>1, AnsweredStays, JustifiedStays
<1> QED BY <1>1, <1>2 DEF Spawned

\* An idle piston knows nothing.
LEMMA IdleKnows ==
  ASSUME NEW p, NEW r
  PROVE  Knows(p, "idle", r) /\ Knows(p, "claim", r)
BY DEF Knows, Holding, Evaluating, Answered

\* The statements of an evaluation.
LEMMA EvalKnows ==
  ASSUME IInv, Spawned, NEW p \in Pistons, Knows(p, pc[p], loc[p]), EvalStep(p)
  PROVE  Careful(p) /\ Knows(p, pc[p], loc[p])' /\ UNCHANGED frames
<1> DEFINE c == loc[p].at
<1>a. pc \in [Pistons -> Labels] /\ loc \in [Pistons -> Locals] /\ holder \in [Cells -> Pistons \cup {NoPiston}]
  BY DEF IInv, TypeOK
<1>b. pc[p] # "idle" => c \in Cells
  BY DEF IInv, Controlled, ControlOf
<1>1. CASE FindReady(p)
  <2>1. SameRows /\ pc'[p] = "claim"
    BY <1>1, <1>a DEF FindReady, Goto, SameRows, tables
  <2> QED BY <2>1, IdleKnows, SameRowsKnown DEF SameRows
<1>2. CASE Claim(p)
  <2>1. CASE Leave(p) /\ UNCHANGED tables
    <3>1. SameRows /\ pc'[p] = "idle"
      BY <2>1, <1>a DEF Leave, Goto, SameRows, tables
    <3> QED BY <3>1, IdleKnows, SameRowsKnown DEF SameRows
  <2>2. CASE /\ holder[c] = NoPiston /\ holder' = [holder EXCEPT ![c] = p]
             /\ Goto(p, "mark")
             /\ UNCHANGED <<loc, state, frames, slotGen, frozenAt, bindings>>
    <3>1. Careful(p)
      BY <2>2, <1>a DEF Careful
    <3>2. pc'[p] = "mark" /\ loc' = loc /\ c \in Cells /\ holder'[c] = p
      BY <2>2, <1>2, <1>a, <1>b DEF Goto, Claim
    <3> QED BY <3>1, <3>2, <2>2 DEF Knows, Answered
  <2> QED BY <2>1, <2>2, <1>2 DEF Claim
<1>3. CASE Mark(p)
  <2> DEFINE l == IF c \in Literals THEN "litYields" ELSE "think"
             r == [loc[p] EXCEPT !.todo = SlotsOf(c)]
  <2>1. SameRows /\ pc'[p] = l /\ loc'[p] = r
    BY <1>3, <1>a DEF Mark, Goto, SetState, SameRows
  <2>2. r.at = c /\ holder[c] = p
    BY <1>3, <1>a DEF Mark, Knows, Holding, Locals
  <2>3. Knows(p, l, r)
    BY <2>2 DEF Knows, Answered
  <2> QED BY <2>1, <2>3, SameRowsKnown DEF SameRows
<1>4. CASE LiteralYields(p)
  <2>1. holder[c] = p
    BY <1>4 DEF LiteralYields, Knows, Holding
  <2>2. Careful(p)
    BY <1>4, <2>1, <1>a DEF LiteralYields, FreezeRows, Careful, SlotsOf
  <2>3. pc'[p] = "litCell" /\ loc' = loc /\ holder' = holder /\ frames' = frames
    BY <1>4, <1>a DEF LiteralYields, Goto, FreezeRows
  <2> QED BY <2>1, <2>2, <2>3 DEF Knows, Answered
<1>5. CASE LiteralCell(p)
  <2>1. SameRows /\ pc'[p] = "litClaim" /\ loc' = loc
    BY <1>5, <1>a DEF LiteralCell, Goto, SetState, SameRows
  <2>2. Knows(p, "litClaim", loc[p])
    BY <1>5 DEF LiteralCell, Knows, Holding, Answered
  <2> QED BY <2>1, <2>2, SameRowsKnown DEF SameRows
<1>6. CASE LiteralClaim(p)
  <2>1. holder[c] = p
    BY <1>6 DEF LiteralClaim, Knows, Holding
  <2>2. Careful(p) /\ frames' = frames
    BY <1>6, <2>1, <1>a DEF LiteralClaim, Unclaim, Careful
  <2>3. pc'[p] = "idle"
    BY <1>6, <1>a DEF LiteralClaim, Leave, Goto
  <2> QED BY <2>2, <2>3 DEF Knows, Holding, Evaluating, Answered
<1> QED BY <1>1, <1>2, <1>3, <1>4, <1>5, <1>6 DEF EvalStep

\* The statements of a submission, up to recordBindings.
LEMMA SubmitKnows ==
  ASSUME IInv, Spawned, NEW p \in Pistons, Knows(p, pc[p], loc[p]), Submit(p)
  PROVE  Careful(p) /\ Knows(p, pc[p], loc[p])' /\ UNCHANGED frames
<1> DEFINE c == loc[p].at  s == loc[p].slot  g == loc[p].gen
<1>a. pc \in [Pistons -> Labels] /\ loc \in [Pistons -> Locals] /\ holder \in [Cells -> Pistons \cup {NoPiston}]
  BY DEF IInv, TypeOK
<1>b. /\ pc[p] # "idle" => c \in Cells
      /\ pc[p] \in Submitting => s \in SlotsOf(c)
      /\ loc[p] \in Locals
  BY <1>a DEF IInv, Controlled, ControlOf
<1>c. ASSUME SameRows, Return(p), pc[p] \in Submitting
      PROVE  Careful(p) /\ Knows(p, pc[p], loc[p])' /\ UNCHANGED frames
  <2> DEFINE r == [loc[p] EXCEPT !.todo = @ \ {s}]
  <2>1. pc'[p] = "think" /\ loc'[p] = r
    BY <1>c, <1>a DEF Return, Goto
  <2>2. r.at = c /\ holder[c] = p
    BY <1>a, <1>c DEF Locals, Knows, Holding, Submitting
  <2>3. Knows(p, "think", r)
    BY <2>2 DEF Knows, Answered
  <2> QED BY <2>1, <2>3, <1>c, SameRowsKnown DEF SameRows
<1>1. CASE LlmSubmits(p)
  <2>1. SameRows
    BY <1>1 DEF LlmSubmits, SameRows, tables
  <2>2. CASE Leave(p)
    <3>1. pc'[p] = "idle"
      BY <2>2, <1>a DEF Leave, Goto
    <3> QED BY <2>1, <3>1, IdleKnows, SameRowsKnown DEF SameRows
  <2>3. ASSUME NEW t \in loc[p].todo, loc' = [loc EXCEPT ![p].slot = t], Goto(p, "subCell")
        PROVE  Careful(p) /\ Knows(p, pc[p], loc[p])'
    <3> DEFINE r == [loc[p] EXCEPT !.slot = t]
    <3>1. pc'[p] = "subCell" /\ loc'[p] = r /\ r.at = c
      BY <2>3, <1>a DEF Goto, Locals
    <3>2. holder[c] = p
      BY <1>1 DEF LlmSubmits, Knows, Holding, Evaluating
    <3>3. Knows(p, "subCell", r)
      BY <3>1, <3>2 DEF Knows, Answered
    <3> QED BY <2>1, <3>1, <3>3, SameRowsKnown
  <2> QED BY <2>1, <2>2, <2>3, <1>1 DEF LlmSubmits, SameRows
<1>2. CASE SubmitCell(p)
  <2>1. SameRows /\ pc[p] = "subCell" /\ pc[p] \in Submitting
    BY <1>2 DEF SubmitCell, SameRows, tables, Submitting, Evaluating
  <2>2. CASE Goto(p, "subFrame") /\ UNCHANGED loc
    <3>1. pc'[p] = "subFrame" /\ loc' = loc
      BY <2>2, <1>a DEF Goto
    <3>2. Knows(p, "subFrame", loc[p])
      BY <2>1 DEF Knows, Holding, Evaluating, Answered
    <3> QED BY <2>1, <3>1, <3>2, SameRowsKnown DEF SameRows
  <2> QED BY <2>1, <2>2, <1>2, <1>c DEF SubmitCell
<1>3. CASE SubmitFrame(p)
  <2> DEFINE r == [loc[p] EXCEPT !.gen = LatestGen(c)]
  <2>1. SameRows /\ pc'[p] = "subFrozen" /\ loc'[p] = r
    BY <1>3, <1>a DEF SubmitFrame, SameRows, tables, Goto
  <2>2. r.at = c /\ r.gen = LatestGen(c) /\ holder[c] = p
    BY <1>3, <1>a DEF SubmitFrame, Locals, Knows, Holding, Evaluating
  <2>3. LatestGen(c) \in frames[c]
    BY <1>3, <1>b, LatestGenIsFrame DEF SubmitFrame, IInv
  <2>4. Knows(p, "subFrozen", r)
    BY <2>2, <2>3 DEF Knows, Answered
  <2> QED BY <2>1, <2>4, SameRowsKnown DEF SameRows
<1>4. CASE SubmitFrozen(p)
  <2>1. SameRows /\ pc[p] = "subFrozen" /\ pc[p] \in Submitting
    BY <1>4 DEF SubmitFrozen, SameRows, tables, Submitting, Evaluating
  <2>2. CASE /\ ~(Frozen(s) /\ slotGen[s] = g)
             /\ Goto(p, "subFreeze") /\ UNCHANGED loc
    <3>1. pc'[p] = "subFreeze" /\ loc' = loc
      BY <2>2, <1>a DEF Goto
    <3>2. slotGen[s] = 0
      BY <2>1, <1>b DEF Spawned, SlotsOf
    <3>3. Knows(p, "subFreeze", loc[p])
      BY <2>1, <2>2, <3>2 DEF Knows, Holding, Evaluating, Answered
    <3> QED BY <2>1, <3>1, <3>3, SameRowsKnown DEF SameRows
  <2> QED BY <2>1, <2>2, <1>4, <1>c DEF SubmitFrozen
<1>5. CASE SubmitFreeze(p)
  <2>1. pc[p] = "subFreeze" /\ holder[c] = p /\ s \in SlotsOf(c)
    BY <1>5, <1>b DEF SubmitFreeze, Knows, Holding, Evaluating, Submitting
  <2>2. \A t \in {s} \cap SlotsOfFrame(c, g) : ~Frozen(t) /\ holder[t[1]] = p
    BY <2>1 DEF SlotsOfFrame, SlotsOf, Spawned, Knows
  <2>3. Careful(p)
    BY <1>5, <2>2 DEF SubmitFreeze, FreezeRows, Careful
  <2>4. pc'[p] = "subCount" /\ loc' = loc /\ holder' = holder /\ frames' = frames
    BY <1>5, <1>a DEF SubmitFreeze, Goto, FreezeRows
  <2>5. g # 0 => frames[c] # {0}
    BY <2>1 DEF Knows
  <2> QED BY <2>1, <2>3, <2>4, <2>5 DEF Knows, Answered
<1>6. CASE SubmitCount(p)
  <2>1. SameRows /\ pc[p] = "subCount" /\ pc[p] \in Submitting
    BY <1>6 DEF SubmitCount, SameRows, tables, Submitting, Evaluating
  <2>2. CASE /\ \A t \in SlotsOfFrame(c, g) : Frozen(t)
             /\ Goto(p, "subDone") /\ UNCHANGED loc
    <3>1. pc'[p] = "subDone" /\ loc' = loc
      BY <2>2, <1>a DEF Goto
    <3>2. AllFrozen(c)
      <4>1. CASE g = 0
        BY <4>1, <2>1, <2>2, <1>b DEF AllFrozen, Spawned, SlotsOfFrame, SlotsOf
      <4>2. CASE g # 0
        BY <4>2, <2>1, <1>b DEF Knows, Spawned
      <4> QED BY <4>1, <4>2
    <3>3. Knows(p, "subDone", loc[p])
      BY <2>1, <3>2 DEF Knows, Holding, Evaluating
    <3> QED BY <2>1, <3>1, <3>3, SameRowsKnown DEF SameRows
  <2> QED BY <2>1, <2>2, <1>6, <1>c DEF SubmitCount
<1>7. CASE SubmitDone(p)
  <2>1. SameRows /\ pc'[p] = "subClaim" /\ loc' = loc
    BY <1>7, <1>a DEF SubmitDone, Goto, SetState, SameRows
  <2>2. Knows(p, "subClaim", loc[p])
    BY <1>7 DEF SubmitDone, Knows, Holding, Evaluating, Answered
  <2> QED BY <2>1, <2>2, SameRowsKnown DEF SameRows
<1>8. CASE SubmitClaim(p)
  <2>1. holder[c] = p /\ AllFrozen(c)
    BY <1>8 DEF SubmitClaim, Knows, Holding, Evaluating, Answered
  <2>2. Careful(p) /\ frames' = frames
    BY <1>8, <2>1, <1>a DEF SubmitClaim, Unclaim, Careful
  <2>3. pc'[p] = "bind" /\ loc' = loc /\ AllFrozen(c)'
    BY <1>8, <2>1, <2>2, <1>a, AnsweredStays DEF SubmitClaim, Goto
  <2> QED BY <2>2, <2>3 DEF Knows, Holding, Evaluating
<1>9. CASE Bind(p)
  <2> DEFINE r == [loc[p] EXCEPT !.gen = LatestGen(c), !.todo = Givens(c)]
  <2>1. SameRows /\ pc'[p] = "bindNext" /\ loc'[p] = r /\ r.at = c
    BY <1>9, <1>a DEF Bind, SameRows, tables, Goto, Locals
  <2>2. Knows(p, "bindNext", r)
    BY <1>9, <2>1 DEF Bind, Knows, Holding, Evaluating, Answered
  <2> QED BY <2>1, <2>2, SameRowsKnown DEF SameRows
<1>10. CASE BindNext(p)
  <2>1. SameRows /\ AllFrozen(c)
    BY <1>10 DEF BindNext, SameRows, Knows, Answered
  <2>2. ASSUME NEW t \in loc[p].todo, loc' = [loc EXCEPT ![p].todo = @ \ {t}], UNCHANGED pc
        PROVE  Careful(p) /\ Knows(p, pc[p], loc[p])'
    <3> DEFINE r == [loc[p] EXCEPT !.todo = @ \ {t}]
    <3>1. pc'[p] = "bindNext" /\ loc'[p] = r /\ r.at = c
      BY <2>2, <1>10, <1>a DEF BindNext, Locals
    <3>2. Knows(p, "bindNext", r)
      BY <2>1, <3>1 DEF Knows, Holding, Evaluating
    <3> QED BY <2>1, <3>1, <3>2, SameRowsKnown
  <2>3. CASE Goto(p, "lastFreeze") /\ UNCHANGED loc
    <3>1. pc'[p] = "lastFreeze" /\ loc' = loc
      BY <2>3, <1>a DEF Goto
    <3>2. Knows(p, "lastFreeze", loc[p])
      BY <2>1 DEF Knows, Holding, Evaluating
    <3> QED BY <2>1, <3>1, <3>2, SameRowsKnown DEF SameRows
  <2>4. CASE Leave(p)
    <3>1. pc'[p] = "idle"
      BY <2>4, <1>a DEF Leave, Goto
    <3> QED BY <2>1, <3>1, IdleKnows, SameRowsKnown DEF SameRows
  <2> QED BY <2>1, <2>2, <2>3, <2>4, <1>10 DEF BindNext, SameRows
<1> QED BY <1>1, <1>2, <1>3, <1>4, <1>5, <1>6, <1>7, <1>8, <1>9, <1>10 DEF Submit

\* The last freeze of a cell is not before any of its rows'.
LEMMA LastFreezeIsLast ==
  ASSUME TypeOK, NEW c, NEW t \in SlotsOf(c)
  PROVE  frozenAt[t] <= LastFreeze(c)
<1> DEFINE T == {frozenAt[s] : s \in SlotsOf(c)} \cup {NotFrozen}
<1>1. T \in SUBSET ((-1)..MaxTime) /\ T # {} /\ frozenAt[t] \in T
  BY GenerationsAssumption DEF TypeOK, SlotsOf, Times, NotFrozen
<1>2. \A x \in T : x <= Max(T)
  <2>1. -1 \in Int /\ MaxTime \in Int
    BY GenerationsAssumption
  <2> HIDE DEF T
  <2> QED BY <1>1, <2>1, MaxOfBoundedSet, Zenon
<1> QED BY <1>1, <1>2 DEF LastFreeze

\* The statements of replRespawnStem.
LEMMA RespawnKnows ==
  ASSUME IInv, Kept, Spawned, NEW p \in Pistons, Knows(p, pc[p], loc[p]), Respawn(p)
  PROVE  Careful(p) /\ Knows(p, pc[p], loc[p])' /\ Spawned'
<1> DEFINE c == loc[p].at
<1>a. pc \in [Pistons -> Labels] /\ loc \in [Pistons -> Locals] /\ TypeOK
  BY DEF IInv, TypeOK
<1>b. c \in Cells
  BY DEF Respawn, ReadLastFreeze, CheckDemand, ReadMaxGen, InsertFrame, Redeclare,
         RespawnSlots, IInv, Controlled, ControlOf
<1>c. AllFrozen(c)
  BY DEF Respawn, ReadLastFreeze, CheckDemand, ReadMaxGen, InsertFrame, Redeclare,
         RespawnSlots, Knows, Answered
<1>d. SameRows /\ Careful(p) => Spawned'
  BY SpawnedStays DEF SameRows
<1>e. ASSUME Leave(p), SameRows
      PROVE  Careful(p) /\ Knows(p, pc[p], loc[p])' /\ Spawned'
  <2>1. pc'[p] = "idle"
    BY <1>e, <1>a DEF Leave, Goto
  <2> QED BY <2>1, <1>d, <1>e, IdleKnows, SameRowsKnown
<1>1. CASE ReadLastFreeze(p)
  <2> DEFINE r == [loc[p] EXCEPT !.time = LastFreeze(c)]
  <2>1. SameRows /\ pc'[p] = "demand" /\ loc'[p] = r
    BY <1>1, <1>a DEF ReadLastFreeze, SameRows, tables, Goto
  <2>2. r.at = c /\ r.time = LastFreeze(c)
    BY <1>a DEF Locals
  <2>3. Knows(p, "demand", r)
    BY <2>2, <1>c DEF Knows, Holding, Evaluating
  <2> QED BY <2>1, <2>3, <1>d, SameRowsKnown
<1>2. CASE CheckDemand(p)
  <2>1. SameRows
    BY <1>2 DEF CheckDemand, SameRows, tables
  <2>2. CASE /\ loc[p].time = NotFrozen \/ NewWork(c, loc[p].time)
             /\ Goto(p, "maxGen") /\ UNCHANGED loc
    <3>1. pc'[p] = "maxGen" /\ loc' = loc
      BY <2>2, <1>a DEF Goto
    <3>2. loc[p].time = LastFreeze(c)
      BY <1>2 DEF CheckDemand, Knows
    <3>3. \A t \in SlotsOf(c) : /\ frozenAt[t] \in Times
                                /\ frozenAt[t] <= LastFreeze(c)
      BY <1>a, <1>c, LastFreezeIsLast DEF AllFrozen, Frozen, TypeOK, SlotsOf
    <3>4. LastFreeze(c) # NotFrozen
      <4>1. PICK t \in SlotsOf(c) : TRUE
        BY <1>c DEF AllFrozen
      <4> QED BY <4>1, <3>3 DEF Times, NotFrozen
    <3>5. PICK s \in Givens(c) : Frozen(s) /\ frozenAt[s] > LastFreeze(c)
      BY <2>2, <3>2, <3>4 DEF NewWork
    <3>6. frozenAt[s] \in Int /\ LastFreeze(c) \in Int
      <4>1. s \in Slots
        BY <1>b, GenerationsAssumption DEF Givens
      <4>2. {frozenAt[s], LastFreeze(c)} \subseteq Times \cup {NotFrozen}
        BY <4>1, <1>a, LastFreezeIsTime DEF TypeOK
      <4> QED BY <4>2, GenerationsAssumption DEF Times, NotFrozen
    <3>7. Justified(c)
      BY <3>3, <3>5, <3>6, GenerationsAssumption DEF Justified, Times
    <3>8. Knows(p, "maxGen", loc[p])
      BY <3>7, <1>c DEF Knows, Holding, Evaluating
    <3> QED BY <2>1, <3>1, <3>8, <1>d, SameRowsKnown
  <2> QED BY <2>1, <2>2, <1>2, <1>e DEF CheckDemand
<1>3. CASE ReadMaxGen(p)
  <2> DEFINE r == [loc[p] EXCEPT !.gen = LatestGen(c) + 1]
  <2>1. SameRows /\ pc'[p] = "insertFrame" /\ loc'[p] = r
    BY <1>3, <1>a DEF ReadMaxGen, SameRows, tables, Goto
  <2>2. r.at = c /\ Justified(c)
    BY <1>3, <1>a DEF ReadMaxGen, Locals, Knows
  <2>3. Knows(p, "insertFrame", r)
    BY <2>2, <1>c DEF Knows, Holding, Evaluating
  <2> QED BY <2>1, <2>3, <1>d, SameRowsKnown
<1>4. CASE InsertFrame(p)
  <2>1. CASE Leave(p) /\ UNCHANGED tables
    BY <2>1, <1>e DEF SameRows, tables
  <2>2. CASE /\ frames' = [frames EXCEPT ![c] = @ \cup {loc[p].gen}]
             /\ Goto(p, "redeclare")
             /\ UNCHANGED <<loc, state, holder, slotGen, frozenAt, bindings>>
    <3>1. Careful(p) /\ pc'[p] = "redeclare" /\ loc' = loc
      BY <2>2, <1>a DEF Careful, Goto
    <3>2. AllFrozen(c) /\ Justified(c)
      BY <1>4, <1>c DEF InsertFrame, Knows
    <3>3. AllFrozen(c)' /\ Justified(c)'
      BY <3>1, <3>2, <1>b, AnsweredStays, JustifiedStays
    <3>4. ASSUME NEW d \in Cells, d # c, frames'[d] # {0}
          PROVE  AllFrozen(d)' /\ Justified(d)'
      <4>1. frames[d] # {0}
        BY <2>2, <3>4, <1>a DEF TypeOK
      <4>2. AllFrozen(d) /\ Justified(d)
        BY <4>1 DEF Spawned
      <4> QED BY <4>2, <3>1, AnsweredStays, JustifiedStays
    <3>5. Spawned'
      BY <2>2, <3>3, <3>4 DEF Spawned
    <3> QED BY <3>1, <3>3, <3>5 DEF Knows, Holding, Evaluating
  <2> QED BY <2>1, <2>2, <1>4 DEF InsertFrame
<1>5. CASE Redeclare(p)
  <2>1. SameRows /\ pc'[p] = "insertSlots" /\ loc' = loc
    BY <1>5, <1>a DEF Redeclare, SetState, SameRows, Goto
  <2>2. Knows(p, "insertSlots", loc[p])
    BY <1>c DEF Knows, Holding, Evaluating
  <2> QED BY <2>1, <2>2, <1>d, SameRowsKnown
<1>6. CASE RespawnSlots(p)
  <2>1. SameRows /\ Leave(p)
    BY <1>6 DEF RespawnSlots, InsertSlots, tables, SameRows
  <2> QED BY <2>1, <1>e
<1> QED BY <1>1, <1>2, <1>3, <1>4, <1>5, <1>6 DEF Respawn

-----------------------------------------------------------------------------
(* All together.                                                           *)

\* A step of a piston changes the label and local variables of no other.
LEMMA OthersStand ==
  ASSUME IInv, NEW p \in Pistons, PistonStep(p), NEW q \in Pistons, q # p
  PROVE  pc'[q] = pc[q] /\ loc'[q] = loc[q]
<1> USE DEF IInv, TypeOK, Goto, Leave
<1>1. CASE EvalStep(p)
  BY <1>1 DEF EvalStep, FindReady, Claim, Mark, LiteralYields, LiteralCell, LiteralClaim
<1>2. CASE Submit(p)
  BY <1>2 DEF Submit, LlmSubmits, SubmitCell, SubmitFrame, SubmitFrozen, SubmitFreeze,
              SubmitCount, SubmitDone, SubmitClaim, Bind, BindNext, Return
<1>3. CASE Respawn(p)
  BY <1>3 DEF Respawn, ReadLastFreeze, CheckDemand, ReadMaxGen, InsertFrame, Redeclare,
              RespawnSlots
<1> QED BY <1>1, <1>2, <1>3 DEF PistonStep

\* Nothing is frozen or respawned initially, and no piston knows anything.
LEMMA SpawnInit == Init => SpawnInv
BY DEF Init, SpawnInv, Spawned, Knows, Holding, Evaluating, Answered

\* Every step keeps the invariant; a thaw ends its claim.
LEMMA SpawnNext == IInv /\ SpawnInv /\ [Next]_vars => SpawnInv'
<1> SUFFICES ASSUME IInv, SpawnInv, [Next]_vars, thaw'.count = 0
             PROVE  thaw'.pc = "off" /\ Spawned' /\ \A p \in Pistons : Knows(p, pc[p], loc[p])'
  BY DEF SpawnInv
<1>a. Kept /\ thaw \in ThawLocals
  BY StepKeeps DEF IInv, TypeOK
<1>1. thaw.count = 0
  <2>1. CASE ThawStart
    BY <2>1, <1>a DEF ThawStart, ThawLocals
  <2>2. CASE Thaw
    BY <2>2, <1>a DEF Thaw, ThawDeclare, ThawUnclaim, ThawMaxGen, ThawFrame, ThawSlots,
                      ThawCascade, ThawGoto, ThawLocals
  <2>3. ASSUME NEW p \in Pistons, PistonStep(p) PROVE thaw.count = 0
    BY <2>3, PistonKeeps
  <2>4. CASE Tick \/ UNCHANGED vars
    BY <2>4 DEF Tick, vars
  <2>5. (\E p \in Pistons : PistonStep(p)) \/ ThawStart \/ Thaw \/ Tick \/ UNCHANGED vars
    BY DEF Next
  <2> QED BY <2>1, <2>2, <2>3, <2>4, <2>5
<1>2. thaw.pc = "off" /\ Spawned /\ \A p \in Pistons : Knows(p, pc[p], loc[p])
  BY <1>1 DEF SpawnInv
<1>3. ~ThawStart /\ ~Thaw
  <2>1. ~Thaw
    BY <1>2 DEF Thaw, ThawDeclare, ThawUnclaim, ThawMaxGen, ThawFrame, ThawSlots, ThawCascade
  <2>2. ASSUME ThawStart PROVE thaw'.count = thaw.count + 1
    BY <2>2, <1>a DEF ThawStart, ThawLocals
  <2> QED BY <2>1, <2>2, <1>1
<1>4. ASSUME NEW p \in Pistons, PistonStep(p)
      PROVE  thaw'.pc = "off" /\ Spawned' /\ \A q \in Pistons : Knows(q, pc[q], loc[q])'
  <2>1. thaw' = thaw
    BY <1>4, PistonKeeps
  <2>2. Knows(p, pc[p], loc[p])
    BY <1>2
  <2>3. Careful(p) /\ Knows(p, pc[p], loc[p])' /\ Spawned'
    <3>1. CASE EvalStep(p)
      BY <3>1, <2>2, <1>a, <1>2, EvalKnows, SpawnedStays
    <3>2. CASE Submit(p)
      BY <3>2, <2>2, <1>a, <1>2, SubmitKnows, SpawnedStays
    <3>3. CASE Respawn(p)
      BY <3>3, <2>2, <1>a, <1>2, RespawnKnows
    <3> QED BY <3>1, <3>2, <3>3, <1>4 DEF PistonStep
  <2>4. ASSUME NEW q \in Pistons, q # p PROVE Knows(q, pc[q], loc[q])'
    BY <2>3, <2>4, <1>a, <1>2, <1>4, OthersStand, OthersKnow
  <2> QED BY <1>2, <2>1, <2>3, <2>4
<1>5. CASE Tick \/ UNCHANGED vars
  <2>1. SameRows /\ UNCHANGED <<pc, loc, thaw>>
    BY <1>5 DEF Tick, vars, tables, SameRows
  <2>2. ASSUME NEW p \in Pistons PROVE Knows(p, pc[p], loc[p])'
    BY <2>1, <2>2, <1>2, SameRowsKnown
  <2>3. Spawned'
    BY <2>1, <1>2 DEF Spawned, SameRows, AllFrozen, Justified, Frozen, SlotsOf, Givens
  <2> QED BY <2>1, <2>2, <2>3, <1>2
<1> QED BY <1>3, <1>4, <1>5 DEF Next

\* Unless somebody thaws cells, a stem gets a second frame only if an input was
\* frozen in a later second than its own yields: neither its own answer nor the
\* inputs it has read wake it again, whoever else evaluates it.
THEOREM SpawnJustifiedAlways == Spec => []SpawnJustified
<1>1. SpawnInv => SpawnJustified
  <2> SUFFICES ASSUME SpawnInv, thaw.count = 0, NEW c \in Stems, frames[c] # {0}
               PROVE  \E s \in Givens(c) : \A t \in SlotsOf(c) : frozenAt[t] < frozenAt[s]
    BY DEF SpawnJustified
  <2>1. c \in Cells
    BY GenerationsAssumption
  <2> QED BY <2>1 DEF SpawnInv, Spawned, Justified
<1> QED BY InvAlways, SpawnInit, SpawnNext, <1>1, PTL DEF Spec
=============================================================================
