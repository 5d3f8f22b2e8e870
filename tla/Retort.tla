------------------------------- MODULE Retort -------------------------------
(***************************************************************************)
(* The retort: the tables of one poured program and the SQL statements the *)
(* evaluation engine (src/cmd/ct/eval.go) runs against them.               *)
(*                                                                         *)
(* Every ct process talks to the database through an autocommitting        *)
(* connection pool, so ONE STATEMENT IS ONE ATOMIC STEP and nothing larger *)
(* is.  Each operator below is one statement: it fixes the next value of   *)
(* every table.  EvalEngine strings the statements into the handlers.      *)
(*                                                                         *)
(* Every cell has exactly one frame, the generation-0 frame poured with    *)
(* it, so a claim on the frame and a claim on the cell are the same row.   *)
(* Timestamps are abstracted to the only thing any statement asks of them: *)
(* is the row older than the two-minute lease ("stale") or not ("fresh")?  *)
(***************************************************************************)
EXTENDS Integers, FiniteSets

CONSTANTS
  Cells,      \* the cells of the program
  Fields,     \* the names of yield fields
  Slots,      \* the rows of table yields: pairs <<cell, field>>
  Kind,       \* Kind[c]: the body type, hard bodies split by their prefix
  Required,   \* Required[c]: the slots c's non-optional givens read
  Prebound,   \* the cells poured frozen, every yield bound in the source
  Answers,    \* values an evaluation may submit
  Pistons,
  NoPiston

Kinds == {"literal", "sql", "dml", "soft", "stem"}

Values == Answers \cup {"null", "literal", "bottom"}

SlotsOf(c) == {s \in Slots : s[1] = c}

ASSUME RetortAssumption ==
  /\ IsFiniteSet(Cells)
  /\ Slots \subseteq Cells \X Fields
  /\ Kind \in [Cells -> Kinds]
  /\ Required \in [Cells -> SUBSET Slots]
  /\ Prebound \subseteq Cells
  /\ Answers \cap {"null", "literal", "bottom"} = {}
  /\ NoPiston \notin Pistons

VARIABLES
  state,      \* cells.state
  since,      \* the age of cells.computing_since, "none" for NULL
  claim,      \* cell_claims: the piston holding the cell's frame, or NoPiston
  age,        \* the age of cell_claims.claimed_at, "none" when there is no row
  value,      \* yields.value_text
  frozen,     \* yields.is_frozen
  failures    \* trace rows 'released' whose detail says 'failure'

tables == <<state, since, claim, age, value, frozen, failures>>

States == {"declared", "computing", "frozen", "bottom"}
Ages   == {"none", "fresh", "stale"}

\* A hard SQL body is given up at its third failure.
MaxFailures == 3

TablesTypeOK ==
  /\ state    \in [Cells -> States]
  /\ since    \in [Cells -> Ages]
  /\ claim    \in [Cells -> Pistons \cup {NoPiston}]
  /\ age      \in [Cells -> Ages]
  /\ value    \in [Slots -> Values]
  /\ frozen   \in [Slots -> BOOLEAN]
  /\ failures \in [Cells -> 0..MaxFailures]

(* What pour writes: a declared cell with empty yield slots, or, for a     *)
(* hard cell whose several yields are all bound, a frozen one.             *)
Poured ==
  /\ state    = [c \in Cells |-> IF c \in Prebound THEN "frozen" ELSE "declared"]
  /\ since    = [c \in Cells |-> "none"]
  /\ claim    = [c \in Cells |-> NoPiston]
  /\ age      = [c \in Cells |-> "none"]
  /\ value    = [s \in Slots |-> IF s[1] \in Prebound THEN "literal" ELSE "null"]
  /\ frozen   = [s \in Slots |-> s[1] \in Prebound]
  /\ failures = [c \in Cells |-> 0]

-----------------------------------------------------------------------------
(* Queries.                                                                *)

AllFrozen(c) == \A s \in SlotsOf(c) : frozen[s]

\* Mutant of Ready: the view forgets the givens.
ReadyBlind(c) == state[c] = "declared"

\* The view ready_cells: declared, and every required given has a frozen yield.
Ready(c) ==
  /\ state[c] = "declared"
  /\ \A s \in Required[c] : frozen[s]

\* findReadyCell also filters out the cells that have a row in cell_claims.
Findable(c) == Ready(c) /\ claim[c] = NoPiston

\* hasBottomedDependency: the cell behind a required given is bottomed.
Poisoned(c) == \E s \in Required[c] : state[s[1]] = "bottom"

\* The completion test of replEvalStep and cmdSubmit leaves stem cells out.
Complete == \A c \in Cells : Kind[c] # "stem" => state[c] \in {"frozen", "bottom"}

-----------------------------------------------------------------------------
(* Updates.                                                                *)

\* UPDATE cells SET state, computing_since ... WHERE id = c
SetCell(c, st, t) ==
  /\ state' = [state EXCEPT ![c] = st]
  /\ since' = [since EXCEPT ![c] = t]
  /\ UNCHANGED <<claim, age, value, frozen, failures>>

\* UPDATE cells SET state = 'bottom' WHERE id = c: computing_since is kept.
SetBottom(c) ==
  /\ state' = [state EXCEPT ![c] = "bottom"]
  /\ UNCHANGED <<since, claim, age, value, frozen, failures>>

\* INSERT IGNORE INTO cell_claims, when no row for the cell exists.
InsertClaim(c, p) ==
  /\ claim' = [claim EXCEPT ![c] = p]
  /\ age'   = [age EXCEPT ![c] = "fresh"]
  /\ UNCHANGED <<state, since, value, frozen, failures>>

\* DELETE FROM cell_claims, the cells of the set C.
DeleteClaims(C) ==
  /\ claim' = [c \in Cells |-> IF c \in C THEN NoPiston ELSE claim[c]]
  /\ age'   = [c \in Cells |-> IF c \in C THEN "none" ELSE age[c]]
  /\ UNCHANGED <<state, since, value, frozen, failures>>

\* Mutant of WriteSlot: the WHERE clause forgets is_frozen = FALSE.
OverwriteSlot(s, v) ==
  /\ value' = [value EXCEPT ![s] = v]
  /\ UNCHANGED <<state, since, claim, age, frozen, failures>>

\* UPDATE yields SET value_text WHERE the slot is not frozen.
WriteSlot(s, v) ==
  /\ value' = [value EXCEPT ![s] = IF frozen[s] THEN @ ELSE v]
  /\ UNCHANGED <<state, since, claim, age, frozen, failures>>

\* UPDATE yields SET is_frozen = TRUE, whatever value the row now has.
FreezeSlot(s) ==
  /\ frozen' = [frozen EXCEPT ![s] = TRUE]
  /\ UNCHANGED <<state, since, claim, age, value, failures>>

\* The literal body: value and freeze the slots of c that are not frozen.
FreezeLiteral(c) ==
  /\ value'  = [s \in Slots |->
                  IF s[1] = c /\ ~frozen[s] THEN "literal" ELSE value[s]]
  /\ frozen' = [s \in Slots |-> s[1] = c \/ frozen[s]]
  /\ UNCHANGED <<state, since, claim, age, failures>>

\* Mutant of BottomSlots: the yields that are frozen already are spared.
BottomUnfrozenSlots(c) ==
  /\ value'  = [s \in Slots |->
                  IF s[1] = c /\ ~frozen[s] THEN "bottom" ELSE value[s]]
  /\ frozen' = [s \in Slots |-> s[1] = c \/ frozen[s]]
  /\ UNCHANGED <<state, since, claim, age, failures>>

\* bottomCell: every slot of c, frozen or not, takes the bottom value.
BottomSlots(c) ==
  /\ value'  = [s \in Slots |-> IF s[1] = c THEN "bottom" ELSE value[s]]
  /\ frozen' = [s \in Slots |-> s[1] = c \/ frozen[s]]
  /\ UNCHANGED <<state, since, claim, age, failures>>

\* Mutants of ReapStaleCells: no cell is reaped, or into an unknown state.
ReapNoCell == UNCHANGED tables

ReapToPending ==
  /\ state' = [c \in Cells |-> IF state[c] = "computing" /\ since[c] = "stale"
                               THEN "pending" ELSE state[c]]
  /\ UNCHANGED <<since, claim, age, value, frozen, failures>>

\* The reaper's first statement: computing cells past the lease.
ReapStaleCells ==
  LET expired == {c \in Cells : state[c] = "computing" /\ since[c] = "stale"}
  IN /\ state' = [c \in Cells |-> IF c \in expired THEN "declared" ELSE state[c]]
     /\ since' = [c \in Cells |-> IF c \in expired THEN "none" ELSE since[c]]
     /\ UNCHANGED <<claim, age, value, frozen, failures>>

\* The reaper's second statement: claim rows past the lease.
StaleClaims == {c \in Cells : age[c] = "stale"}

\* replRelease: UPDATE cells SET state = 'declared' WHERE state = 'computing'.
\* The statement names neither the piston nor the claim.
ResetIfComputing(c) ==
  /\ state' = [state EXCEPT ![c] = IF @ = "computing" THEN "declared" ELSE @]
  /\ since' = [since EXCEPT ![c] = IF state[c] = "computing" THEN "none" ELSE @]
  /\ UNCHANGED <<claim, age, value, frozen, failures>>

\* replRelease: the trace row 'released', its detail saying 'failure' or not.
TraceRelease(c, failed) ==
  /\ failures' = [failures EXCEPT ![c] =
                    IF failed /\ @ < MaxFailures THEN @ + 1 ELSE @]
  /\ UNCHANGED <<state, since, claim, age, value, frozen>>

\* Two minutes pass over the timestamps of the cells of C.
TimePasses(C) ==
  /\ since' = [c \in Cells |->
                 IF c \in C /\ since[c] = "fresh" THEN "stale" ELSE since[c]]
  /\ age'   = [c \in Cells |->
                 IF c \in C /\ age[c] = "fresh" THEN "stale" ELSE age[c]]
  /\ UNCHANGED <<state, claim, value, frozen, failures>>
=============================================================================
