---------------------------- MODULE Generations ----------------------------
(***************************************************************************)
(* Generations of cells (src/cmd/ct/eval.go, db.go): a frame per cell and  *)
(* generation, yields that belong to a frame, the respawn of perpetual     *)
(* stem cells, the cascade of ct thaw, and the bindings between frames.    *)
(*                                                                         *)
(* As in EvalEngine a step is one SQL statement.  What EvalEngine models   *)
(* is left out here: oracles, bottoming, crashes and the reaper.  So are   *)
(* the values of yields; what matters is which frame a slot belongs to,    *)
(* whether it is frozen, and in which second it was.                       *)
(*                                                                         *)
(* yields has UNIQUE (cell_id, field_name): a field has exactly one row,   *)
(* the one poured for generation 0, whatever frames the cell gets later.   *)
(***************************************************************************)
EXTENDS Integers, FiniteSetsExt

CONSTANTS
  Cells, Fields,
  Slots,      \* the rows of yields: pairs <<cell, field>>
  Literals,   \* cells with a literal body; all others are dispatched
  Stems,      \* perpetual stem cells: the name does not end in -N
  Required,   \* Required[c], Optional[c]: the slots the givens of c read
  Optional,
  Pistons, NoPiston, NoCell, NoSlot,
  MaxGen,     \* bound on generations
  MaxTime,    \* bound on the clock
  MaxThaws    \* bound on the number of ct thaw commands

SlotsOf(c) == {s \in Slots : s[1] = c}
Givens(c) == Required[c] \cup Optional[c]

ASSUME GenerationsAssumption ==
  /\ IsFiniteSet(Cells) /\ Slots \subseteq Cells \X Fields
  /\ Literals \subseteq Cells /\ Stems \subseteq Cells \ Literals
  /\ Required \in [Cells -> SUBSET Slots] /\ Optional \in [Cells -> SUBSET Slots]
  /\ NoPiston \notin Pistons /\ NoCell \notin Cells /\ NoSlot \notin Slots
  /\ MaxGen \in Nat /\ MaxTime \in Nat /\ MaxThaws \in Nat

VARIABLES
  state,     \* cells.state
  holder,    \* cell_claims: the piston holding c's claim, or NoPiston
  frames,    \* frames[c]: the generations of c that have a frame
  slotGen,   \* yields.frame_id, as a generation of its cell
  frozenAt,  \* yields.frozen_at of a frozen row, NotFrozen otherwise
  bindings,  \* rows of bindings: consumer and producer frame, producer field
  now,       \* the database clock, in seconds
  pc, loc,   \* the pistons
  thaw       \* the ct thaw command: its statement and local variables

tables == <<state, holder, frames, slotGen, frozenAt, bindings>>
vars == <<tables, now, pc, loc, thaw>>

Gens == 0..MaxGen
Times == 0..MaxTime
NotFrozen == -1
Frames == Cells \X Gens
Bindings == [consumer : Frames, producer : Frames, slot : Slots]

Labels == {"idle", "claim", "mark", "litYields", "litCell", "litClaim",
           "think", "subCell", "subFrame", "subFrozen", "subFreeze", "subCount",
           "subDone", "subClaim", "bind", "bindNext", "lastFreeze", "demand",
           "maxGen", "insertFrame", "redeclare", "insertSlots"}

Locals == [at   : Cells \cup {NoCell},
           slot : Slots \cup {NoSlot},
           gen  : Gens \cup {MaxGen + 1},      \* the frame of the handler
           time : Times \cup {NotFrozen},      \* lastFreezeTime
           todo : SUBSET Slots]                \* yields, or givens, still to do

NoLocals == [at |-> NoCell, slot |-> NoSlot, gen |-> 0, time |-> NotFrozen,
             todo |-> {}]

ThawLabels == {"off", "declare", "unclaim", "maxGen", "insertFrame",
               "insertSlots", "cascade"}
ThawLocals == [pc : ThawLabels, at : Cells \cup {NoCell},
               gen : Gens \cup {MaxGen + 1},
               done : SUBSET Cells, count : 0..MaxThaws]

TypeOK ==
  /\ state    \in [Cells -> {"declared", "computing", "frozen"}]
  /\ holder   \in [Cells -> Pistons \cup {NoPiston}]
  /\ frames   \in [Cells -> SUBSET Gens]
  /\ slotGen  \in [Slots -> Gens]
  /\ frozenAt \in [Slots -> Times \cup {NotFrozen}]
  /\ bindings \subseteq Bindings
  /\ now \in Times
  /\ pc \in [Pistons -> Labels] /\ loc \in [Pistons -> Locals]
  /\ thaw \in ThawLocals

Init ==
  /\ state    = [c \in Cells |-> "declared"]
  /\ holder   = [c \in Cells |-> NoPiston]
  /\ frames   = [c \in Cells |-> {0}]
  /\ slotGen  = [s \in Slots |-> 0]
  /\ frozenAt = [s \in Slots |-> NotFrozen]
  /\ bindings = {}
  /\ now = 0
  /\ pc = [p \in Pistons |-> "idle"]
  /\ loc = [p \in Pistons |-> NoLocals]
  /\ thaw = [pc |-> "off", at |-> NoCell, gen |-> 0, done |-> {}, count |-> 0]

-----------------------------------------------------------------------------
Frozen(s) == frozenAt[s] # NotFrozen

\* ready_cells asks for a frozen yield, of any generation.
Ready(c) == state[c] = "declared" /\ \A s \in Required[c] : Frozen(s)

\* latestFrameID
LatestGen(c) == Max(frames[c])

\* SELECT MAX(frozen_at) FROM yields WHERE cell_id = c
LastFreeze(c) == Max({frozenAt[s] : s \in SlotsOf(c)} \cup {NotFrozen})

\* The rows of c that belong to generation g.
SlotsOfFrame(c, g) == {s \in SlotsOf(c) : slotGen[s] = g}

Goto(p, l) == pc' = [pc EXCEPT ![p] = l]
Leave(p) == Goto(p, "idle") /\ loc' = [loc EXCEPT ![p] = NoLocals]

SetState(c, st) ==
  /\ state' = [state EXCEPT ![c] = st]
  /\ UNCHANGED <<holder, frames, slotGen, frozenAt, bindings>>

Unclaim(c) ==
  /\ holder' = [holder EXCEPT ![c] = NoPiston]
  /\ UNCHANGED <<state, frames, slotGen, frozenAt, bindings>>

\* Freeze, in the present second, the rows of the set S.
FreezeRows(S) ==
  /\ frozenAt' = [s \in Slots |-> IF s \in S THEN now ELSE frozenAt[s]]
  /\ UNCHANGED <<state, holder, frames, slotGen, bindings>>

\* Mutant of InsertSlots: REPLACE INTO yields.
ReplaceSlots(c, g) ==
  /\ slotGen' = [s \in Slots |-> IF s[1] = c THEN g ELSE slotGen[s]]
  /\ frozenAt' = [s \in Slots |-> IF s[1] = c THEN NotFrozen ELSE frozenAt[s]]
  /\ UNCHANGED <<state, holder, frames, bindings>>

\* INSERT INTO yields, fresh slots of c for generation g: every field has a
\* row, so every INSERT violates the unique index, is logged and forgotten.
InsertSlots(c, g) == UNCHANGED tables

-----------------------------------------------------------------------------
(* replEvalStep.                                                           *)

FindReady(p) ==
  /\ pc[p] = "idle"
  /\ \E c \in Cells :
       /\ Ready(c) /\ holder[c] = NoPiston
       /\ loc' = [loc EXCEPT ![p] = [NoLocals EXCEPT !.at = c]]
  /\ Goto(p, "claim")
  /\ UNCHANGED <<tables, now, thaw>>

Claim(p) ==
  LET c == loc[p].at
  IN /\ pc[p] = "claim"
     /\ \/ /\ holder[c] = NoPiston
           /\ holder' = [holder EXCEPT ![c] = p]
           /\ Goto(p, "mark")
           /\ UNCHANGED <<loc, state, frames, slotGen, frozenAt, bindings>>
        \/ holder[c] # NoPiston /\ Leave(p) /\ UNCHANGED tables
     /\ UNCHANGED <<now, thaw>>

Mark(p) ==
  LET c == loc[p].at
  IN /\ pc[p] = "mark"
     /\ SetState(c, "computing")
     /\ Goto(p, IF c \in Literals THEN "litYields" ELSE "think")
     /\ loc' = [loc EXCEPT ![p].todo = SlotsOf(c)]
     /\ UNCHANGED <<now, thaw>>

LiteralYields(p) ==
  /\ pc[p] = "litYields"
  /\ FreezeRows({s \in SlotsOf(loc[p].at) : ~Frozen(s)})
  /\ Goto(p, "litCell")
  /\ UNCHANGED <<now, loc, thaw>>

LiteralCell(p) ==
  /\ pc[p] = "litCell"
  /\ SetState(loc[p].at, "frozen")
  /\ Goto(p, "litClaim")
  /\ UNCHANGED <<now, loc, thaw>>

LiteralClaim(p) ==
  /\ pc[p] = "litClaim"
  /\ Unclaim(loc[p].at)
  /\ Leave(p)
  /\ UNCHANGED <<now, thaw>>

-----------------------------------------------------------------------------
(* replSubmit, as far as frames are concerned.                             *)

LlmSubmits(p) ==
  /\ pc[p] = "think"
  /\ \/ loc[p].todo = {} /\ Leave(p)
     \/ \E s \in loc[p].todo :
          loc' = [loc EXCEPT ![p].slot = s] /\ Goto(p, "subCell")
  /\ UNCHANGED <<tables, now, thaw>>

\* The submission is over, the cell is not: the slot is done with.
Return(p) == Goto(p, "think") /\ loc' = [loc EXCEPT ![p].todo = @ \ {loc[p].slot}]

SubmitCell(p) ==
  /\ pc[p] = "subCell"
  /\ IF state[loc[p].at] = "computing" THEN Goto(p, "subFrame") /\ UNCHANGED loc
     ELSE Return(p)
  /\ UNCHANGED <<tables, now, thaw>>

SubmitFrame(p) ==
  /\ pc[p] = "subFrame"
  /\ loc' = [loc EXCEPT ![p].gen = LatestGen(loc[p].at)]
  /\ Goto(p, "subFrozen")
  /\ UNCHANGED <<tables, now, thaw>>

SubmitFrozen(p) ==
  /\ pc[p] = "subFrozen"
  /\ IF Frozen(loc[p].slot) /\ slotGen[loc[p].slot] = loc[p].gen THEN Return(p)
     ELSE Goto(p, "subFreeze") /\ UNCHANGED loc
  /\ UNCHANGED <<tables, now, thaw>>

\* Only a row of the frame is frozen; there may be none, and that is no error.
SubmitFreeze(p) ==
  /\ pc[p] = "subFreeze"
  /\ FreezeRows({loc[p].slot} \cap SlotsOfFrame(loc[p].at, loc[p].gen))
  /\ Goto(p, "subCount")
  /\ UNCHANGED <<now, loc, thaw>>

SubmitCount(p) ==
  /\ pc[p] = "subCount"
  /\ IF \A s \in SlotsOfFrame(loc[p].at, loc[p].gen) : Frozen(s)
     THEN Goto(p, "subDone") /\ UNCHANGED loc
     ELSE Return(p)
  /\ UNCHANGED <<tables, now, thaw>>

SubmitDone(p) ==
  /\ pc[p] = "subDone"
  /\ SetState(loc[p].at, "frozen")
  /\ Goto(p, "subClaim")
  /\ UNCHANGED <<now, loc, thaw>>

SubmitClaim(p) ==
  /\ pc[p] = "subClaim"
  /\ Unclaim(loc[p].at)
  /\ Goto(p, "bind")
  /\ UNCHANGED <<now, loc, thaw>>

-----------------------------------------------------------------------------
(* recordBindings.                                                         *)

Bind(p) ==
  LET c == loc[p].at
  IN /\ pc[p] = "bind"
     /\ loc' = [loc EXCEPT ![p].gen = LatestGen(c), ![p].todo = Givens(c)]
     /\ Goto(p, "bindNext")
     /\ UNCHANGED <<tables, now, thaw>>

\* Mutant of Bindable: the checks of I11 and I10 are missing.
BindableAlways(c, g, s) == Frozen(s)

\* I11: every yield of the producer frame is frozen; I10: a frame of the
\* same cell must be of an earlier generation.
Bindable(c, g, s) ==
  /\ Frozen(s)
  /\ \A t \in SlotsOfFrame(s[1], slotGen[s]) : Frozen(t)
  /\ s[1] = c => slotGen[s] < g

BindNext(p) ==
  LET c == loc[p].at  g == loc[p].gen
  IN /\ pc[p] = "bindNext"
     /\ \/ \E s \in loc[p].todo :
             /\ bindings' = bindings \cup
                  {[consumer |-> <<c, g>>, producer |-> <<t[1], slotGen[t]>>,
                    slot |-> t] : t \in {u \in {s} : Bindable(c, g, u)}}
             /\ loc' = [loc EXCEPT ![p].todo = @ \ {s}]
             /\ UNCHANGED pc
        \/ /\ loc[p].todo = {}
           /\ IF c \in Stems /\ Givens(c) # {}
              THEN Goto(p, "lastFreeze") /\ UNCHANGED loc
              ELSE Leave(p)
           /\ UNCHANGED bindings
     /\ UNCHANGED <<state, holder, frames, slotGen, frozenAt, now, thaw>>

-----------------------------------------------------------------------------
(* replRespawnStem.                                                        *)

ReadLastFreeze(p) ==
  /\ pc[p] = "lastFreeze"
  /\ loc' = [loc EXCEPT ![p].time = LastFreeze(loc[p].at)]
  /\ Goto(p, "demand")
  /\ UNCHANGED <<tables, now, thaw>>

\* Mutant of NewWork: >= instead of >.
NewWorkSince(c, t) == \E s \in Givens(c) : Frozen(s) /\ frozenAt[s] >= t

\* A given, optional or not, frozen after the stem's last freeze.
NewWork(c, t) == \E s \in Givens(c) : Frozen(s) /\ frozenAt[s] > t

CheckDemand(p) ==
  LET l == loc[p]
  IN /\ pc[p] = "demand"
     /\ IF l.time = NotFrozen \/ NewWork(l.at, l.time)
        THEN Goto(p, "maxGen") /\ UNCHANGED loc
        ELSE Leave(p)
     /\ UNCHANGED <<tables, now, thaw>>

ReadMaxGen(p) ==
  /\ pc[p] = "maxGen"
  /\ loc' = [loc EXCEPT ![p].gen = LatestGen(loc[p].at) + 1]
  /\ Goto(p, "insertFrame")
  /\ UNCHANGED <<tables, now, thaw>>

\* UNIQUE (program_id, cell_name, generation): if somebody else has made the
\* frame the respawn is given up.
InsertFrame(p) ==
  LET c == loc[p].at  g == loc[p].gen
  IN /\ pc[p] = "insertFrame"
     /\ \/ /\ g \notin frames[c] /\ g <= MaxGen
           /\ frames' = [frames EXCEPT ![c] = @ \cup {g}]
           /\ Goto(p, "redeclare")
           /\ UNCHANGED <<loc, state, holder, slotGen, frozenAt, bindings>>
        \/ g \in frames[c] /\ Leave(p) /\ UNCHANGED tables
     /\ UNCHANGED <<now, thaw>>

\* Mutant of Redeclare: a state the schema does not know.
RedeclareReady(p) ==
  /\ pc[p] = "redeclare"
  /\ SetState(loc[p].at, "ready")
  /\ Goto(p, "insertSlots")
  /\ UNCHANGED <<now, loc, thaw>>

Redeclare(p) ==
  /\ pc[p] = "redeclare"
  /\ SetState(loc[p].at, "declared")
  /\ Goto(p, "insertSlots")
  /\ UNCHANGED <<now, loc, thaw>>

RespawnSlots(p) ==
  /\ pc[p] = "insertSlots"
  /\ InsertSlots(loc[p].at, loc[p].gen)
  /\ Leave(p)
  /\ UNCHANGED <<now, thaw>>

-----------------------------------------------------------------------------
(* cmdThaw: thawCell of one cell and, in turn, of everything that reads a  *)
(* thawed cell.                                                            *)

ThawGoto(l) == thaw' = [thaw EXCEPT !.pc = l]

ThawStart ==
  /\ thaw.pc = "off" /\ thaw.count < MaxThaws
  /\ \E c \in Cells :
       thaw' = [thaw EXCEPT !.pc = "declare", !.at = c, !.done = {c},
                            !.count = @ + 1]
  /\ UNCHANGED <<tables, now, pc, loc>>

ThawDeclare ==
  /\ thaw.pc = "declare"
  /\ SetState(thaw.at, "declared")
  /\ ThawGoto("unclaim")
  /\ UNCHANGED <<now, pc, loc>>

ThawUnclaim ==
  /\ thaw.pc = "unclaim"
  /\ Unclaim(thaw.at)
  /\ ThawGoto("maxGen")
  /\ UNCHANGED <<now, pc, loc>>

ThawMaxGen ==
  /\ thaw.pc = "maxGen"
  /\ thaw' = [thaw EXCEPT !.pc = "insertFrame", !.gen = LatestGen(thaw.at) + 1]
  /\ UNCHANGED <<tables, now, pc, loc>>

\* INSERT IGNORE: a frame that is there already is no obstacle.
ThawFrame ==
  /\ thaw.pc = "insertFrame" /\ thaw.gen <= MaxGen
  /\ frames' = [frames EXCEPT ![thaw.at] = @ \cup {thaw.gen}]
  /\ ThawGoto("insertSlots")
  /\ UNCHANGED <<state, holder, slotGen, frozenAt, bindings, now, pc, loc>>

ThawSlots ==
  /\ thaw.pc = "insertSlots"
  /\ InsertSlots(thaw.at, thaw.gen)
  /\ ThawGoto("cascade")
  /\ UNCHANGED <<now, pc, loc>>

Dependents(c) == {d \in Cells : \E s \in Givens(d) : s[1] = c}

\* The queue reaches the dependents of the thawed cells in some order.
ThawCascade ==
  LET rest == UNION {Dependents(c) : c \in thaw.done} \ thaw.done
  IN /\ thaw.pc = "cascade"
     /\ \/ \E d \in rest :
             thaw' = [thaw EXCEPT !.pc = "declare", !.at = d, !.done = @ \cup {d}]
        \/ /\ rest = {}
           /\ thaw' = [thaw EXCEPT !.pc = "off", !.at = NoCell, !.gen = 0,
                                   !.done = {}]
     /\ UNCHANGED <<tables, now, pc, loc>>

-----------------------------------------------------------------------------
Tick == now < MaxTime /\ now' = now + 1 /\ UNCHANGED <<tables, pc, loc, thaw>>

EvalStep(p) ==
  \/ FindReady(p) \/ Claim(p) \/ Mark(p)
  \/ LiteralYields(p) \/ LiteralCell(p) \/ LiteralClaim(p)

Submit(p) ==
  \/ LlmSubmits(p) \/ SubmitCell(p) \/ SubmitFrame(p) \/ SubmitFrozen(p)
  \/ SubmitFreeze(p) \/ SubmitCount(p) \/ SubmitDone(p) \/ SubmitClaim(p)
  \/ Bind(p) \/ BindNext(p)

Respawn(p) ==
  \/ ReadLastFreeze(p) \/ CheckDemand(p) \/ ReadMaxGen(p)
  \/ InsertFrame(p) \/ Redeclare(p) \/ RespawnSlots(p)

PistonStep(p) == EvalStep(p) \/ Submit(p) \/ Respawn(p)

Thaw ==
  \/ ThawDeclare \/ ThawUnclaim \/ ThawMaxGen \/ ThawFrame \/ ThawSlots
  \/ ThawCascade

Next == (\E p \in Pistons : PistonStep(p)) \/ ThawStart \/ Thaw \/ Tick

Spec == Init /\ [][Next]_vars

-----------------------------------------------------------------------------
(* Properties.                                                             *)

\* I10 and I11 of the Lean model, for what recordBindings writes while other
\* pistons freeze, respawn and thaw: a binding leads to a frame all of whose
\* yields are frozen, and within one cell to an earlier generation.
BindingsSound ==
  \A b \in bindings :
    LET c == b.consumer[1]  d == b.producer[1]
    IN /\ b.slot \in Givens(c) /\ b.slot[1] = d
       /\ b.consumer[2] \in frames[c] /\ b.producer[2] \in frames[d]
       /\ \A t \in SlotsOfFrame(d, b.producer[2]) : Frozen(t)
       /\ c = d => b.producer[2] < b.consumer[2]

\* History is append-only: neither a respawn nor a thaw takes a frame, a
\* binding or a frozen yield away, or moves a frozen yield to another frame.
AppendOnly ==
  [][/\ \A c \in Cells : frames[c] \subseteq frames'[c]
     /\ bindings \subseteq bindings'
     /\ \A s \in Slots : Frozen(s) => frozenAt'[s] # NotFrozen /\ slotGen'[s] = slotGen[s]
    ]_vars

\* "No new data -> no spawn -> no computation": unless somebody thaws cells, a
\* stem gets a second frame only if an input was frozen after its own yields,
\* so neither its own answer nor the inputs it has read wake it again.
SpawnJustified ==
  thaw.count = 0 =>
    \A c \in Stems :
      frames[c] # {0} =>
        \E s \in Givens(c) : \A t \in SlotsOf(c) : frozenAt[t] < frozenAt[s]

\* What replSubmit acknowledges with "Yield frozen" is frozen, in the frame the
\* answer was given for.  The code loses the answers of every later generation.
AnswersStored ==
  \A p \in Pistons :
    pc[p] = "subCount" => Frozen(loc[p].slot) /\ slotGen[loc[p].slot] = loc[p].gen
=============================================================================
