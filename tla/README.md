# Verification of dolt-cell: the engine, the compiler and the tools of `ct`

dolt-cell runs *programs of cells*. A program is poured into a Dolt (SQL)
database called the *retort*; any number of *pistons* (processes of
`src/cmd/ct`, or LLM sessions that call it) look for cells whose inputs are
there, claim them, evaluate them and freeze their yields. All coordination is
through SQL statements on shared tables, with autocommit and without
transactions. This directory holds a TLA+ model of that engine, of the compiler
that turns a `.cell` file into rows, of the commands that pour and reset
programs, and of the display `ct watch`; the TLC configurations that check them
on small instances; and theorems that TLAPS proves for every program, any number
of pistons and any order of messages.

    tlc -workers 2 -config EngineRace.cfg MCEvalEngine      # any .cfg here
    tlapm EvalEngineProofs.tla
    tlapm OracleProofs.tla
    tlapm GenerationsProofs.tla
    tlapm ListFacts.tla
    tlapm WatchProofs.tla
    tlapm PourProofs.tla
    tlapm CompilerProofs.tla
    tlapm AloneProofs.tla

## 1. Inventory

| component | source | state | operations |
|---|---|---|---|
| retort | `schema/retort-init.sql` | tables cells, givens, yields, oracles, trace, cell_claims, pistons, frames, bindings, claim_log; view ready_cells | SQL statements, each atomic |
| evaluation engine | `cmd/ct/eval.go` 805-1383 | none of its own | replEvalStep, replSubmit, checkGuardSkip, bottomCell, replRelease, replReleaseAll |
| drivers | `cmd/ct/eval.go` 18-803, `main.go` | a piston id per process | ct piston, ct next, ct submit, ct repl; ct run (older) |
| generations | `cmd/ct/eval.go` 1385-1507, 1754-1837, `db.go` 148-175 | frames, yields of generation n | replRespawnStem, thawCell, ensureFrameForCell, latestFrameID |
| bindings | `cmd/ct/eval.go` 295-367 | bindings | recordBindings (I10, I11) |
| pour, reset, eval requests | `cmd/ct/pour.go` | a process per command, its place in a script | cmdPour, pourViaPiston, pourExecSQL, cmdEval, cmdReset, ensureFrames |
| compiler | `cmd/ct/parse.go` | the state a line leaves to the next | parseCellFile (two syntaxes), cellsToSQL, expandIteration, writeJudgeCells, writeCell |
| linter | `cmd/ct/lint.go` | visited nodes of the cycle search | lintCells |
| SQL sandbox | `cmd/ct/sandbox.go` | - | which statements an answer may hold |
| stored procedures | `schema/procedures.sql`, `cell_heartbeat.sql` and others | the same tables, pistons | cell_eval_step, cell_submit, cell_release_claim, heartbeats, cell_reap_stale |
| display | `cmd/ct/watch.go` | last answer, filter, cursor, detail pane, viewport, timer | Update: one handler per key and message |
| inspection | `cmd/ct/inspect.go` | - | read-only queries |
| bootstrap | `cmd/ct/db.go`, `tools/init-retort.go` | - | schema loading |
| formal model | `formal/*.lean` | - | Claims.lean and Retort.lean state what the engine is meant to refine |
| older code | `tools/cmd/ct`, `tools/run-sort-proof.go`, `poc/`, `cell_eval_step.sql` | - | superseded copies, a demonstration |

The compiler is called by pour; every other interaction is through the tables
(the display only reads them). What makes that hard:

* **interleaving**: every handler is a sequence of autocommitted statements;
  what it read in one may be stale in the next. The only mutex is
  `INSERT IGNORE INTO cell_claims`;
* **timeouts**: every evaluation step first *reaps*: cells computing, and
  claims, older than two minutes are taken away from whoever works on them,
  who is not told;
* **crashes**: a process may die between any two statements, an LLM may never
  answer; what it leaves behind must be picked up by somebody else's reaper;
* **late and repeated answers**: `ct submit` names a program, a cell and a
  field, but no piston and no claim;
* **propagation**: a failed cell is *bottomed*, so are the later iterations of
  a loop whose guard is met, and bottom must reach everything that depends on
  them;
* **half-done scripts**: a pour is some dozen INSERTs, a reset six DELETEs. A
  piston, another pour or another reset sees what is between them, a failing
  statement or a killed process leaves it there;
* **names as references**: steps, judges and gathers are addressed by names the
  compiler composes. A name that misses its cell is a given without a source, and
  `ready_cells` takes such a given for satisfied: a mistake of the compiler is
  not an error message but a cell evaluated too early;
* **answers to the past**: the queries of the display run in goroutines; their
  answers are messages that arrive when the user is elsewhere.

What makes each part correct is in section 4; the hazards, line by line, are in
`PROJECT.json`.

## 2. Modules

| module | models |
|---|---|
| `Retort` | the tables of one poured program; one operator per SQL statement or query |
| `EvalEngine` | the pistons: every handler of the engine as a sequence of statements, crashes and leases; the properties |
| `ClaimStore` | the abstract specification: the lock table and append-only store of `formal/Claims.lean`, plus revocation of several claims at once and poisoning of a frame |
| `MCEvalEngine` | five small programs of the engine as values for the constants |
| `EvalEngineProofs` | theorems and proofs about the engine |
| `Alone`, `MCAlone` | what a program with one loop and a single piston is; that the judged loop of `MCEvalEngine` is one |
| `AloneProofs` | the proof that a loop stops where its guard is met |
| `OracleProofs` | the proof that what is judged is what is frozen |
| `Generations` | frames of several generations, the respawn of perpetual stem cells, `ct thaw`, and the bindings between frames; its properties |
| `MCGenerations` | two small programs for it |
| `GenerationsProofs` | theorems and proofs about generations, bindings and respawns |
| `Compiler` | both parsers, cellsToSQL with the expansion of loops and judges, and lintCells, as operators |
| `CellPrograms` | what the compiler is measured by: programs written down, loops of names, the poured rows as a program that runs |
| `PourReset` | pour, eval and reset by several clients, statement by statement, with pistons, timeouts and crashes; its properties |
| `MCPour` | the menu of cells, files and sessions for `PourReset`; the properties of compiled programs |
| `PourProofs` | theorems and proofs about pour and reset |
| `CompilerProofs` | theorems and proofs about the linter's search for cycles, about judges and loops |
| `Watch` | the event loop of ct watch; its properties |
| `MCWatch` | a display of two programs |
| `ListFacts` | lemmas about what is in a list, recursion over lists and sums over numbers, by induction over sets |
| `WatchProofs` | theorems and proofs about the display |

`EvalEngine` EXTENDS `Retort`, and states through `Store == INSTANCE
ClaimStore WITH ...` that it implements the abstract specification. `MCPour`
composes `PourReset` with `Compiler`: what is inserted, row by row, by racing
clients, is what the compiler makes of the lines of a file.

**A statement is a step.** The pool of connections autocommits, and Dolt commits
(`CALL DOLT_COMMIT`) only record history. So each action of `EvalEngine` runs
one statement of `Retort` and moves `pc[p]` to the next; `loc[p]` holds the
local variables of the Go functions. Reads whose result is used at once by the
same statement's guard (a SELECT followed by a return) are actions too.
Merged with the statement they follow are only INSERTs into tables the engine
never reads back (claim_log, bindings, pistons, most of trace) and the SELECT
of the claiming piston just before the DELETE of its claim, whose result is
used for statistics.

**Where the code is.** The chain of labels of a piston:

| labels | code |
|---|---|
| `idle`, `reapClaims` | the two reaper statements of replEvalStep |
| `find`, `claim`, `claimed` | findReadyCell, INSERT IGNORE, hasBottomedDependency |
| `mark` | UPDATE cells SET state = 'computing'; then by body: |
| `litYields`, `litCell`, `litClaim` | the literal branch |
| `sqlRun`, `sqlNext` | the query; replSubmit of its result for every yield |
| `think` | the dispatched cell is in the hands of the LLM, which calls ct submit |
| `subCell` ... `subClaim` | replSubmit, from the lookup of the computing cell to the deletion of the claim |
| `guard`, `later`, `skip` | checkGuardSkip |
| `botCell`, `botYields`, `botClaim` | bottomCell, called for a poisoned cell, a third SQL failure or a guard skip; `loc[p].ret` says where it returns |
| `release`, `relClaim`, `relCell`, `relTrace` | replReleaseAll and replRelease |

**Abstractions.**

* Timestamps: the only question a statement asks is whether a row is older
  than the lease, so a timestamp is `"none"`, `"fresh"` or `"stale"`; `Lapse`
  lets the lease of some cells run out. `Lapsing = "any"`: also under a piston
  that is at work (it is slower than two minutes); `"abandoned"`: only where no
  piston is at work; `"none"`: never.
* Values: `Answers` may contain `"bad"`, which the deterministic oracles of
  every cell reject, and `"done"`, which meets the guard of an iteration. All
  other answers are alike to the engine.
* Bodies: `literal`, `sql`, `dml`, `soft`, `stem`. A SQL query fails or
  succeeds as it pleases.
* In `EvalEngine` programs have generation 0 only. That is what the engine
  does with every cell but a perpetual stem (replRespawnStem returns at once
  for a name ending in `-N`, which judges and iterations have); the others are
  the subject of `Generations`.
* A *piston* is the session that evaluates a cell to the end: the `ct next` or
  `ct piston` that claims it and the `ct submit` calls of the LLM it was
  dispatched to. A crash ends the session wherever it stands and leaves the
  tables as they are; it also stands for an LLM that walks away. The name of a
  crashed piston is used again, so `ReleaseAll` may release a predecessor's
  claim: behaviours the code does not have, none of which the findings use.
* The 50 attempts of replEvalStep are not counted: the next poll starts over.
* `revoked` and `evaluated` are history variables: a claim was deleted while
  its holder was at work; how often a cell was marked frozen.

**Generations.** The same statements, seen from another side: the values of
yields, oracles, bottoming, leases and crashes are left out; what is kept of a
yield row is the frame it belongs to (`slotGen`) and the second it was frozen
in (`frozenAt`). A piston goes on where `subClaim` ends in `EvalEngine`:

| labels | code |
|---|---|
| `claim` ... `litClaim` | claim and literal branch of replEvalStep |
| `think`, `subCell` ... `subClaim` | replSubmit with its latest frame: the slot is looked up, frozen and counted in that frame only |
| `bind`, `bindNext` | recordBindings, one given a step; the producer's rows are read, judged and the binding inserted in one step, since frozen rows stay frozen |
| `lastFreeze`, `demand`, `maxGen`, `insertFrame`, `redeclare`, `insertSlots` | replRespawnStem |
| `declare` ... `cascade` of `thaw` | thawCell and the queue of cmdThaw |

`yields` has `UNIQUE (cell_id, field_name)`, so there is one row per field, and
the INSERTs of fresh slots for a new generation always fail; mustExecDB logs
that and goes on. `InsertSlots` is therefore a step that changes nothing. The
clock has whole seconds, as DATETIME has.

**Pour and reset.** `rows` holds the rows of all tables, keys included: an
INSERT is refused when a primary key or unique index is taken or a foreign key
points nowhere, INSERT IGNORE on frames and claims then does nothing, and a
DELETE of cells that still own givens, yields or oracles fails as a whole.

| labels of a client | code |
|---|---|
| `ready`, `insert`, `frames` | cmdPour: COUNT of the program's cells, parse, the script, ensureFrames |
| `cache`, `exists`, `createSource`, `freezeSource`, `createParse`, `poll` | pourViaPiston |
| `sandbox`, `exec` | pourExecSQL: all statements are looked at, then executed |
| `request`, `evalInsert` | cmdEval |
| `delete` | cmdReset, one table a step |

Pistons are reduced to what adds rows to a program others pour or reset: they
find and claim a cell (with the frame they create for it), answer a request to
parse, respawn a stem. `touched` is a history variable: what others inserted into or deleted
from the program during a client's command.

**Compiler.** A name is the sequence of the words between its dashes, and a key
is the concatenation of such sequences, so two keys are equal in the model
exactly when dashes make them equal in the code. A line is a record of its
keyword, its indentation and its operands: which branch a line takes, and what
it leaves to the next one, is all there; trimming and quoting are not, nor is
the hash that shortens long keys. The guard's value and the wording of oracles
are not kept, only what a guard watches and which kind of oracle it is.
The search for cycles is recursive in the code. Here it is a recursive function,
`search[<<s, name>>]`, from what is visited and the name to visit next to what is
visited afterwards: a function can be reasoned about, a recursive operator not.

**Display.** One action per branch of `Update`. `asked[c]` counts the detail
queries for `c` under way, `ticks` and `fetches` the timers and list queries;
each answer is an action that may come at any time. The viewport is what the
library does with a height, a content and an offset (external). Lines are
counted, not written. The order of the list is that of the query, so the rows
move when a cell's state does, and the cursor, which is an index, stays.
A key that would index the list at -1 ends the program (`"panicked"`).

## 3. Bounds

Programs have two to four cells, enough for: a reader behind a literal, SQL or
soft cell; a cell with two yields (partial submission); an iteration with a
later one; judges. Two pistons are what a race needs; three add no new pair.
`MaxCrashes = 1`: one crash anywhere. `MaxFailures = 3` is the code's own
constant. `evaluated` stops at 2. Nothing else is bounded: leases lapse, cells
are reaped, claimed and submitted any number of times. In `Generations`,
`MaxGen = 2` lets a stem be respawned and a thaw meet a respawn, `MaxTime` makes
two or three different seconds, `MaxThaws = 1` one `ct thaw` of any cell at any
moment. Pistons are symmetric in the safety runs; no symmetry where liveness is checked.

| run | program | pistons | answers | crashes | leases | states |
|---|---|---|---|---|---|---|
| engine_race | literal -> soft with two yields | 2 | bad, more | 1 | any | 3.6 M |
| engine_sql | sql -> dml | 2 | bad, more | 0 | any | 1.4 M |
| engine_alone | prebound seed -> two guarded iterations, two judges | 1 | bad, more, done | 0 | none | 686 |
| engine_literals_live | literal -> literal | 2 | - | 1 | abandoned | 9 716 |

| run | program | pistons | generations | seconds | thaws | states |
|---|---|---|---|---|---|---|
| generations_thaw | literal -> stem with two yields that reads it and itself | 2 | 0..2 | 0..1 | 1 | 1.6 M |

| run | instance | states |
|---|---|---|
| pour | one client alone with every program of one or two of the 28 cells of the menu, in both syntaxes where both can write it, and of three with the literal first; nine races of two clients with at most one piston and one crash; `MaxPolls = 2`, `MaxGen = 1` | 202 680 |
| watch | two programs, three cells, two answers of the database, four keys, `MaxAsked = 1`, a window of 7 lines, yields of one line and one of two | 144 943 |

The menu holds literals (bound to one or two fields, by half, or to nothing), readers, stems, loops
with a judge and with a guard, gathers, readers of a step and of a judge, a
loop over a loop or gathering one, and the mistakes the linter is there for: duplicate names,
cycles (of two and of three cells, through a loop, through a gather), missing
steps, cells without yields, invalid names. Pairs suffice for a reference to be
right or wrong; triples are there for cycles of three and for a loop between
its source and its reader. Two polls distinguish an answer found at once, one
found late and none, as the 120 of the code do. A window of 7 lines leaves the
list 4 (3 beside the detail pane), less than an error and an expanded cell take, and
one cell's value has two lines, so that `cursorLine` is wrong below it; four keys
suffice to expand, open, move and move back. The longest interesting stories of
`watch` are three keys and two answers.

At the bounds of generations and time the runs stop, a program whose cells are
frozen leaves its pistons without work, clients end, and keys run out;
deadlock is therefore not checked in the runs of `Generations`, `PourReset` and
`Watch`.

## 4. What the runs check

Safety of the races (`engine_race`, `engine_sql`):

* `FrozenComplete`: a cell marked frozen has all its yields frozen;
* `InputsReady`: a computing cell has all the yields it must read, although
  its readiness was read several statements earlier;
* `OneEvaluator`: two pistons work on one cell only after a claim on it was
  deleted under its holder (`revoked`);
* `OracleSound`: a value the oracles reject is never frozen, with the same
  exception;
* `BottomSealed`: once bottomCell is through, all yields of the cell are frozen
  with the bottom value, whoever else was writing them (if nobody died);
* `ImplementsClaimStore`: the refinement of `ClaimStore`.

With one piston (`engine_alone`): `LaterSkipped` and `JudgeFollowsIteration`, a
guard skip bottoms all later iterations and only judges of bottomed iterations.

Generations (`generations_thaw`):

* `BindingsSound`: the bindings written by recordBindings obey I10 and I11 of
  the Lean model, although the frames they speak of are frozen, respawned and
  thawed by others in the meantime;
* `SpawnJustified`: a stem gets a second frame only if an input was frozen in a
  later second than its own last yield: "no new data, no spawn". The strict
  comparison of seconds matters: with `>=` a stem that reads itself never stops;
* `AppendOnly`: no frame, binding or frozen yield is lost or moved to another
  frame by a respawn or a thaw.

Pour, eval and reset (`pour`, the races):

* `PourWhole`: a pour that reports success has every row of its script stored,
  and, if it compiled the file itself, a frame for every cell, whatever other
  pours, pistons and crashes did; only a reset may have undone it. Of the answer
  of a piston no frames are claimed: it is asked for none and none are added
  (see below), and pours that end so are in the run;
* `PouredOnce`: of two pours of one file under one name at most one reports
  success;
* `ResetComplete`: a reset undisturbed by INSERTs leaves nothing of the program
  in any table. The order of the DELETEs is what makes it so: each finds its
  rows through the cells, which must go last but one. Excepted are claims whose
  cell was gone before the reset began (see below);
* `LateAnswerServes`: an answer frozen after one pour gave up serves the next,
  which neither asks again nor waits;
* `CommandsEnd` (liveness): every command ends, with or without pistons.

The compiler (`pour`; the first three of every program poured by a client alone,
the last two after every pour that reports success and whose program nobody
else has touched meanwhile, `PouredUndisturbed`, about the rows that belong to
the program, `RowsOf`):

* `ReadsAsWritten`: both parsers give back the program that was written: no
  clause is lost, credited to another cell, or taken out of a body;
* `CycleSearchRight`: the linter's search reports a cycle exactly when there is
  a set of names each of which reads another one of the set (`Loop`);
* `CleanProgramsRun`: a program `ct lint` passes and whose author was careful
  (`Careful`) is poured without a failing statement, every given finds a yield,
  and the cells can all be evaluated, round by round;
* `LoopsChain`: step i of a loop reads the chained field from step i-1 and is
  told the verdicts on it; readers read the last step, gathers all;
* `JudgesSeeAll`: every prose assertion of every cell and step has a judge,
  which waits for all it is to judge and for nothing else.

`Careful` is what the linter does not check and the compiler needs: no cell
named like a step of another, no given or yield listed twice, a body that some
branch of the engine evaluates, all yields of a literal bound, references to
fields that exist, gathers of loops only, brackets that look back, no loop that
reads a loop by its bare name or gathers one, permutation checks of a cell that is given, no
judged loop with a yield called `verdict` (a step would read its predecessor and
the judges under one field name).

The display (`watch`):

* `OneTimer`: exactly one refresh timer or list query is under way: the refresh
  neither dies after an error nor doubles;
* `DetailMatches`: the pane never shows a cell other than the one it waits for;
* `MoveLoads`: while the pane waits for a cell, as a move has made it do, the query
  for that cell is under way. It says nothing of a pane opened by `d` with no
  move since, which waits for no cell (see below);
* `MoveShowsCursor`: after every key that moves it, the cursor is on screen if
  the values above it take one line each, whatever errors and expanded cells are
  above it; else it is below the screen by at most the lines those values have
  beyond their first (`SurplusAbove`), and never above it. So newlines in values
  are all that cursorLine and renderContent disagree about, and the property
  says how much harm they do;
* `ErrorsClear` (liveness): an error on screen is retried until it goes.

Liveness: `Settles == <>[]Complete`, in `engine_literals_live` with a crash
(it fails without the reaper) and in `engine_alone` with any number of rejected
answers.

**Fairness.** `WF(PistonStep(p))`: a started handler runs on, and pistons poll
(`ct next --wait` every two seconds, `ct piston` restarted by its supervisor).
`SF(AcceptableAnswer(p))`: an LLM asked again and again gives an acceptable
answer at last; its answers cannot be guaranteed by any code, so this is an
assumption about the LLM. `WF(Lapse)`: time passes. No fairness for crashes,
for ReleaseAll or for the outcome of a query. `Settles` is claimed for
abandoned leases only: if leases may lapse under working pistons for ever, two
pistons can re-claim each other's finished cells for ever, and even a program
of literals flips between complete and incomplete. `PourReset`: a started
process runs on (`WF` of each client's step); nothing is assumed of pistons, and
`CommandsEnd` holds because a pour counts its polls. `Watch`: timers fire and
queries end one way or the other (`WF`), and a database asked again and again
answers at last (`SF(DataFetched)`, an assumption about the database); nobody
has to press a key.

**Disagreements of code and documents**, each a run that must find its property
violated (`findings` in `PROJECT.json` quotes the documents):

| run | scenario |
|---|---|
| bug_double_evaluation | p reads a ready row; q claims, freezes and un-claims the cell; p's INSERT IGNORE succeeds and the frozen cell is evaluated again. No crash, no timeout |
| bug_judge_skipped | the judge of iteration 1 for the *second* oracle is named `refine-1-judge-2`; the skip takes it for iteration 2 |
| bug_dead_submit | killed between freezing the last yield and the cell: every later submission is rejected with "yield already frozen" |
| bug_answer_lost | after `ct thaw` the new generation has no slots: the answer is acknowledged with "Yield frozen", nothing is stored, the cell is frozen |
| bug_claimed_early | a pour has inserted a cell but not yet its givens: to `ready_cells` it needs nothing, a piston claims it and works without its inputs |

Further disagreements were met and are not given a run of their own.

*Engine.* After a lapsed lease two submissions to one slot may interleave: one
judges its own value and freezes the other's, which the oracles reject
(`docs/cell-philosophy-cheatsheet.md:141` says otherwise; `OracleSound` excepts
revoked claims for that reason). A stem that froze before an optional input did
is not respawned for it: the test for new data was the last
(`cmd/ct/e2e_test.go:205` expects it). A stale claim on a finished sql: cell may
end in bottomCell overwriting its frozen value; a later iteration that is being
computed when the guard skip looks for declared siblings survives it; a piston
killed between the two UPDATEs of bottomCell leaves a bottomed cell whose
dependents never become ready. Once a stem has been respawned its answers have
no slots, so its last freeze never moves and it is respawned after every
evaluation.

*Compiler and linter*: what `Careful` excludes, and what no property speaks of. A loop with two fields to
chain chains only the last matching given (`parse.go:708-717`;
`docs/cell-v2-syntax.md:77`). When a guard is met, readers of the loop read its
last step, which the guard bottoms: the result is lost
(`docs/deltas-obsidion-exploration.md:60`). A loop that reads another loop by
its bare name, or gathers it, keeps the name it reads (`parse.go:577-580`):
no such cell is poured, and the steps are ready without their input. `x[*]` of a cell that is no loop passes lint and is poured
as a given from `x-*`. A cell named like a step of a loop collides with it, an
input listed twice gives a duplicate key: half of the program is poured. A
hard cell with one bound and one unbound yield gets the literal `_`; one with a
bound yield and a prose body gets a body no branch evaluates. Cycles through
gathers and steps are not seen, nor are fields that do not exist. A yield bound to the empty text makes its cell hard (`parse.go:257-259`), but is like
an unbound one after that: the cell gets the literal `_` too (cell 28 of the menu;
`AddYield`). A permutation
check before the given it speaks of, or of a loop, compares with a cell that is
not there. A body line at the margin that starts with `cell ` makes a v1 file
look like v2; a fence never closed swallows the rest of the file.

*Pour, eval and reset.* Two pours of different files under one name mix their
rows, though only one reports success. A pour killed while it creates the
pour-program leaves it for every later pour to wait for (`pour.go:75-80`). A
reset killed after the cells are gone leaves frames of later generations, and
the next one says there is nothing to reset. A claim or a respawned frame
inserted during a reset survives it. So does, for ever, a stray claim:
`cell_claims` has no foreign key, so a piston that saw a cell before a reset may
claim it after; every later reset looks for claims through the cells and misses
this one, although resetProgram "deletes all data for a program"
(`pour.go:261`). `UNIQUE (program_id, name)` admits one
pour-request ever: the second `ct eval` of another file reports it as submitted
and loses it; the same file under another name is reported as cached. An answer
poured by pourExecSQL has no ensureFrames, and `tools/pour-prompt.md`, which tells
the piston what to write, has no table of frames (nor values, nor the program in
the ids of givens, yields and oracles: `Prescribed` in `MCPour`). So success is
reported for cells without frames, which get one when a piston comes to evaluate
them (ensureFrameForCell). The sandbox lets more pass than such answers: UPDATEs
of cells and yields, SELECTs, INSERT IGNOREs, rows of other programs. What those
would do is not modelled (`AnswersAssumption`). Keys join names with dashes, so cell
`b-c` of `a` and cell `c` of `a-b` have the same one.

*Display.* `d` opens the pane with a query but does not make the pane wait for
the cell (`watch.go:737-752` leaves `detailCell` alone): the answer is dropped
(`watch.go:595`) and a pane opened for the first time stays at "Loading..." until
the cursor moves; one opened again shows the cell it showed before. `MoveLoads`
speaks of moves for that reason. `G` on an empty list
sets the cursor to -1 and the next j or k ends the program (`"panicked"` in
`Watch`; `MoveShowsCursor` and `ErrorsClear` except it by name). `/` clears the
filter without redrawing, `e` does not clamp the cursor when only active cells
are shown, a refresh that re-sorts the list moves the cursor to another cell
while the pane keeps the old one. A window made smaller may leave the cursor off
screen until the next move. cursorLine counts one line per yield of an expanded
cell, and one for a collapsed cell that shows its single frozen value, but `trunc`
(`main.go:168`) keeps newlines, and renderContent writes them: below such values
the cursor may be off screen after a move too, though the comment at
`watch.go:392` says that cursorLine "computes which line in renderContent the
cursor item is on". `Lines` has a value of two lines in the run, and there the
unrestricted claim is false; `MoveShowsCursor` says what is left of it. The text
of an error is taken to have one line, and values to be no longer than what
`trunc` keeps.

A cell with a `dml:` body matches no branch of replEvalStep (`Dispatch`): it is
claimed, marked, reaped and claimed again. `engine_sql` has one, to check that
it does not harm its neighbours; no run is spent on showing that it never ends.

## 5. What is proved

`EvalEngineProofs` proves, for any program (finite set of cells; arbitrary
slots, givens, kinds, guards), any set of pistons, any number of crashes and
any leases, from `RetortAssumption` and `EngineAssumption` (both evaluated by
TLC in every run):

| theorem | property |
|---|---|
| `TypeCorrect` | `TypeOK` |
| `FrozenCompleteAlways` | `FrozenComplete` |
| `InputsReadyAlways` | `InputsReady` |
| `OneEvaluatorAlways` | `OneEvaluator` |
| `BottomSealedAlways` | `BottomSealed` |
| `EngineImplementsClaimStore` | `ImplementsClaimStore` |

The argument, in the order of the module:

1. *Types and control.* No property is inductive without knowing what a piston
   holds in its local variables at each label. `Controlled` says it: a piston
   past `find` has a cell, one inside replSubmit a slot of that cell, one
   that releases claims returns to a label that fits. `StepKeeps` has one step per action
   and proves at the same time that no statement unfreezes a yield
   (`FrozenStays`).
2. *Data.* `DataInv` adds `Informed`: what a piston has read and relies on
   later (the cell it means to claim or mark has its inputs frozen; at `litCell`
   and `subDone`, all slots of its cell are). Each of
   these facts is stable because frozen yields stay frozen, which is why stale
   reads do no harm here: this is the precise sense in which "monotonicity"
   protects the engine.
3. *Claims.* `HoldsClaim`: a piston at work holds the claim of its cell, or the
   cell is `revoked`. Only INSERT IGNORE makes a piston start work, and every
   DELETE that hits another piston at work revokes. `OneEvaluator` follows.
4. *Bottom.* `SealInv`: a bottomed cell is sealed, or some piston stands at
   `botYields` for it (its seal is the next statement), or a piston has died.
   No other statement writes to a sealed cell's frozen slots.
5. *Refinement.* Each statement is a step of `ClaimStore` or a stutter:
   writing an unfrozen slot is invisible, freezing appends, a DELETE releases a
   set of frames, bottoming poisons.

`GenerationsProofs` proves, for any program, any set of pistons and any values
of `MaxGen`, `MaxTime` and `MaxThaws`, from `GenerationsAssumption` (evaluated
by TLC in both runs of `Generations`):

| theorem | property |
|---|---|
| `TypeCorrect` | `TypeOK` |
| `AppendOnlyAlways` | `AppendOnly` |
| `BindingsSoundAlways` | `BindingsSound` |

1. *The latest generation exists.* `latestFrameID` is a maximum. That a
   nonempty, bounded set of numbers has one (`MaxOfBoundedSet`) is proved from
   the well-foundedness of inclusion on finite sets: the element with the
   smallest set of greater elements is the maximum.
2. *Frames and control.* The inductive invariant `IInv` is `TypeOK`, `FramesOK`
   (every cell has generation 0, every row belongs to a frame of its cell) and
   `Controlled` (what a handler holds at each label; in recordBindings, that its
   generation is a frame and its slots are givens of its cell). Without
   `FramesOK`, `latestFrameID` would have no value; without `Controlled`, a
   binding could name a frame that does not exist.
3. *What is kept.* `Kept` says what no step takes away. The statements are
   lemmas (`SetStateKeeps`, `FreezeRowsKeeps`, `NewFrameKeeps`, ...), so are the
   moves of a handler (`MoveKeeps`, `LeaveKeeps`, ...); `StepKeeps` combines them,
   one step per action.
4. *Bindings.* Only `BindNext` adds a row. What it establishes about the
   producer frame stays true in all later steps because of `Kept`: rows once
   frozen stay frozen and in their frame, frames stay.

`GenerationsProofs` also proves `SpawnJustifiedAlways` (property `SpawnJustified`) on top of
`IInv`. The respawning piston decides from rows it read several statements ago,
after it gave its claim away, so the invariant `SpawnInv` says of every piston
what it *knows* at its label (`Knows`): while it evaluates, that it holds the
claim; before it freezes a row, that the row is open; from the last freeze to
the respawn, that all rows of the cell are frozen and that the time it read is
still their last. A step of one piston leaves this to the others because it is
`Careful`: it freezes only open rows of a cell whose claim it holds, and deletes
no other claim. As the property, the invariant speaks of executions without a
thaw, in which all rows stay of generation 0.

`OracleProofs` proves `OracleSoundAlways` (property `OracleSound`) on top of
`Typed` and `HoldsClaimAlways`. `OracleSound` alone is not inductive: between
the statement that writes a value and the one that freezes it the row may hold
anything. The strengthening `JudgedHeld` says that a piston about to freeze a
slot finds an accepted value there, or a claim on the cell was revoked. Only
four statements write yields (`StepWrites`); two of them leave a fixed value,
and the third, another submission to the same slot, would need a second piston
at work on the cell.

`WatchProofs` proves, for any programs and cells, any answers of the database,
any filter and any number of keys and outstanding queries, from
`WatchAssumption` (evaluated by TLC in `watch`):

| theorem | property |
|---|---|
| `OneTimerAlways` | `OneTimer` |
| `DetailMatchesAlways` | `DetailMatches` |
| `MoveLoadsAlways` | `MoveLoads` |
| `TypeCorrect` | `TypeOK` |
| `MoveShowsCursorAlways` | `MoveShowsCursor` |

1. *Timer and pane.* The inductive invariant is the conjunction of the first
   three with the types they need (`Typed`). It needs no strengthening beyond
   types, but the three need each other's steps: a key either leaves timer and
   pane alone (`QuietKeeps`), lets go of a cell and asks for the next in one step
   (`MoveKeeps`), or only asks (`ToggleKeeps`); an answer takes one query off its
   cell and, if the pane waits for that cell, ends the waiting (`AnswerKeeps`); a
   timer becomes a query and a query a timer (`TimerKeeps`).
2. *Lists and sums.* What is listed is chosen element by element, and the lines
   above an item are a sum over the items above it: both recursive. `ListFacts`
   proves what is needed of them for lists of any length: that the recursion
   has a solution, that it ends in a list of items, that a sum does not depend
   on the order in which it is taken and grows with its bound. The library's
   induction theorems take an operator, which the provers cannot instantiate;
   the induction here is over a *set* of counterexamples, which has a least
   member (`LeastNumber`, `FiniteInduction`).
3. *Types.* `Types` adds to `TypeOK` that a terminal that is ready shows at least
   one line. One lemma per part of it (`FetchKeeps`, `ListKeeps`, `PaneKeeps`,
   `ViewKeeps`, `RestKeeps`) goes through the steps.
4. *The cursor.* renderContent draws the cursor where `cursorLine` says plus the
   lines of the values above that `cursorLine` does not count (`SurplusTotal`,
   from the sums of `ListFacts` split in two), and more lines follow;
   scrolling up or down to a line within the content leaves it in the window
   (`RevealShows`), and one drawn lower by some number is below the window by no
   more than that (`LowerBySurplus`). No hypothesis on `Lines` is left:
   `WatchAssumption` only says that yields take at least a line each.

`AloneProofs` proves, for any loop among any other cells and for any leases,
what a loop gives when one piston evaluates it:

| theorem | property |
|---|---|
| `LaterSkippedAlone` | `LaterSkipped` |
| `JudgesFollow` | `JudgeFollowsIteration` |

The assumptions are those of `Alone`, evaluated by TLC in `engine_alone`. They
name the circumstances in which checkGuardSkip does what it is meant to:

- `OnePistonAssumption`: one piston, never killed. An iteration that a second
  one computes survives the skip, and a piston killed while it skips leaves
  later iterations declared.
- `LoopAssumption`: the iterations are numbered 1..k, each reads a yield of the
  one before, and only they have guards, on yields of their own.
- `JudgesAssumption`: a judge's name ends in `-judge-1`, and it reads nothing but
  its iteration. Compiled loops with two prose assertions break
  this assumption, and `bug_judge_skipped` shows what happens then.

1. *What each statement changes.* The piston's moves are lemmas (`FindMoves`,
   `GuardMoves`, `SkipMoves`, ...), so that the step proofs speak of labels, the
   cell at hand and the rows written, never of whole actions.
2. *The cell at hand.* `AtHand` says what is true of the piston's cell at each
   label, `Untouched` that a cell neither over nor at hand has no frozen row,
   `Submitted` that what is still to be submitted is what is not frozen. With
   them a chained predecessor that has a frozen row is over (`EarlierOver`).
3. *The loop.* `Looping`: iterations are evaluated in order and nothing follows
   the one just frozen; `SkippingAfter(n)`: during a skip, the iterations
   after n are bottomed or among those still to be bottomed. The code does not
   compare names but counts what it bottomed. That the count is right is
   `SiblingsCounted`: the siblings bottomed so far are as many as the remaining
   iterations passed, by a bijection between them.
4. *Judges.* `JudgeInv`: a judge is bottomed only as an orphan of an iteration
   bottomed before it.

`PourProofs` proves, for any clients and any list of commands each of them
gives:

| theorem | property |
|---|---|
| `TypeCorrect` | `TypeOK` |
| `AnswerServes` | `LateAnswerServes` |
| `NoHalfPour` | `PourWhole` |
| `OnePour` | `PouredOnce` |
| `ResetClean` | `ResetComplete` |

from four assumptions, evaluated by TLC in `pour`:

- `SessionsAssumption`: commands are of their types, and a compiled script
  writes rows of one program only, its cells and what belongs to them.
- `AnswersAssumption`: so does an answer that the sandbox lets pass. Frames may
  be among its rows or not.
- `NamesAssumption`: cell ids, which are names joined by dashes, do not
  coincide, do not begin with the name of another program, and no program is
  named like a parse request.
- `OneReadingAssumption`: everything made of one file shares a row, whoever made
  it.

The code ensures none of the last three: ids are joined without escaping, and
the sandbox looks at how statements begin, not at which rows they write. What happens
without unambiguous names is described at the end of section 4.

1. *Control.* `PistonControl` says what a client holds at each label: which
   command it is in, how far its script is, which request it waits for.
2. *Effects.* Every statement adds rows (`Adds`), marks a yield frozen
   (`Marks`), gives up a claim (`Unclaims`), deletes rows of one program
   (`Deletes`) or leaves the tables alone (`Quiet`). `RowsOK` says that each row
   belongs to a program, `Noted` what the history variables record. `Base` is
   the conjunction of all these, and every property rests on it.
3. *Late answers.* `LateOf`: a pour that found an answer does not go on to ask.
4. *Whole pours.* `WholeOf`: of a pour in progress that nobody reset, every
   statement carried out has its row in the tables, and, if it compiled the file,
   the frames still missing are those it is about to insert.
5. *One pour.* `ApartAt`: two pours in progress have not both written one row,
   because the second INSERT would have met the key of the first.
6. *Resets.* `CleanOf`: while nobody else inserts, the DELETEs a reset is past
   have left nothing of their tables; the cells, through which the others find
   their rows, are still there. The first attempt at this proof failed at
   the claims: a piston that read its cell before the reset may claim it after.
   TLC confirms that it does, once the pour race that shows it is in the
   instance, so `ResetComplete` now excepts it and section 4 describes it.

`CompilerProofs` proves, for every list of cells with lists of givens, yields and
oracles (`IsProgram`), of any length:

| theorem | property |
|---|---|
| `CycleFound` | `CyclesFound(cells)` |
| `CycleSearchRightAlways` | `CycleSearchRight`, from the above |
| `JudgesComplete` | `Judged` of every cell, in the compiled rows, if names are `Unambiguous` |
| `JudgesSeeAllAlways` | `JudgesSeeAll`, from the above |
| `LoopsComplete` | `Chained`, `FedBack` and `ReadAtEnd` of every loop, in the compiled rows, if names are `Unambiguous` and `NumbersDiffer` |
| `LoopsChainAlways` | `LoopsChain`, from the above |

The properties of the run add two assumptions of `MCPour`, evaluated by TLC in
`pour`: `ProgramsAssumption` (what the menu of files holds are programs, with
steps that numbers tell apart) and `FilesAssumption` (what is inserted is what
the compiler makes of what the parser has read). The last two of these theorems
also take the hypothesis `FilesReadBack`, that the parser reads each file as it
was written. It is not proved: `ReadsAsWritten` says it of every file of the run,
and TLC checks that. `Unambiguous`, no name being the beginning
of another, is part of `Careful`. Without it the theorems are false: a
cell named `r-1` next to a loop `r` is found under the name of a step.

1. *The search is defined.* The search of a name asks for searches from states
   in which one more name is being visited, so the function `Search` is found
   rank by rank, the rank being the number of names that are not (`Rank`,
   `SearchesTo`, `SearchGrows`). That a search of one name comes back with the
   names being visited as they were (`VisitStays`), unless it found a cycle, is
   needed already to know the rank of the next search in the same loop. At the
   highest rank the function satisfies its recursive definition
   (`SearchExists`).
2. *What a search leaves.* A name that is done reads, itself apart, only names
   that are done, and no loop is made of done names (`Settled`); the names being
   visited each read another one, or the name to be visited next (`OnPath`), so
   that meeting one of them is a loop (`PathCloses`). `Follows` says what may
   become of a state: only more is done, or there is a loop. A visit does this if
   the visits it asks for do (`VisitRight`), and by induction on the rank all of
   them do (`SearchRight`). Nothing in these invariants depends on the cell the
   search began with, which is why one map of visited names serves all of them.
3. *All cells.* After the last cell every name that reads anything is done, and
   done names make no loop (`LoopReads`, `DoneGrows`).
4. *What is compiled.* Compilation is lists within lists, so every stage gets a
   lemma that says what is in its list and nothing of the order: the cells of a
   program (`ProgramCells`), their givens once resolved (`ResolvedGiven`,
   `ResolvedCell`), the steps of a loop and the judges of a cell (`StepCell`,
   `JudgeCell`, `ExpandParts`), all compiled cells (`CompiledParts`), their rows
   (`RowParts`, `CompileParts`).
5. *Whose name it is.* The properties look rows up by name. What stands for
   a cell has its name and at most three words more (`RootParts`, `JudgeEnding`);
   equal names begin with two names of the source, of which one then begins with
   the other, so they come from one cell (`SameOrigin`); and counting words tells
   the steps from their judges (`SameName`). Hence what is found under the name
   of a step or judge are the rows of that step or judge (`Found`).
6. *In the tables.* `WholeOf` of `PourProofs` says that what was compiled is in
   the tables. That nothing else is takes an invariant of its own, `OnlyOf`:
   while c inserts, the rows of its program are rows of its script. It starts
   with a program of no cells, which has no rows because givens, yields and
   oracles need their cell (`NoCellsNoRows`, from `RowsOK`); what others add to
   the program is noted in `touched`; an update changes no column the properties
   look at (`Same`). So the rows are like the compiled ones (`RowsAlike`), and
   judges and loops are the same in tables that are alike (`AlikeTold`).

Only model-checked: liveness (beyond the prover), and two properties of compiled
programs. `ReadsAsWritten` is an induction over program texts in two syntaxes.
`CleanProgramsRun` is not true of every program: that no INSERT fails rests on
ids that differ, which `Careful` does not imply for every choice of names (a
cell that calls itself a judge has the id of one), and that all cells can be
evaluated is an induction over the order of evaluation.

## 6. Not modelled, and the plan

Order of the next modules, each with its own MC module, runs and mutants:

1. `Procedures`: cell_eval_step, cell_submit, cell_release_claim, the piston
   registry with heartbeats, and ct run's use of them. (`cell_eval_step` inserts
   claims without the mandatory `frame_id`, so what it does depends on the SQL
   mode of the server.)
2. An abstract `Retort.lean` (I1 to I11) that `Generations` implements.
3. Proofs: the invariants of `Procedures`; the refinement of `Retort.lean`.
4. Several programs in `Generations`, for the frame ids of ct thaw that carry
   the first 20 characters of a program's id only.

Not planned: inspection commands (read-only queries), bootstrap (I/O),
superseded copies (`tools/cmd/ct`, `poc`, `cell_eval_step.sql`) and the sort
demonstration, Lean files about designs that are not implemented, the text
level of the parser (trimming, quoting, regular expressions).
