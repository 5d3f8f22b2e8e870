----------------------------- MODULE PourReset -----------------------------
(***************************************************************************)
(* The life of programs in the retort: ct pour, ct eval and ct reset       *)
(* (src/cmd/ct/pour.go), run by several clients at once, while pistons     *)
(* claim cells, respawn stems and answer the pour-programs.                *)
(*                                                                         *)
(* rows holds the rows of all tables.  A statement is a step: the pool     *)
(* autocommits, and a script of several statements stops at the first that *)
(* fails and keeps what went before.  Tables nobody reads here are left    *)
(* out (trace, claim_log, bindings), as are the DOLT_COMMITs, whose one    *)
(* error of interest, "nothing to commit", is passed over by the code.     *)
(*                                                                         *)
(* A session gives each client its commands [op, program, file].  A file   *)
(* is known by what becomes of it: hash, a word made of its contents;      *)
(* reading, what the parser returns ("cells", "nil" or "error"); script,   *)
(* the rows it is compiled to; answers[a], the statements of a piston's    *)
(* answer a when asked for them.                                           *)
(***************************************************************************)
EXTENDS Integers, Sequences, FiniteSets, TLC

CONSTANTS
  Clients, Pistons,
  Sessions,   \* what the clients are asked to do, who works, who may die
  Answers,    \* what a piston may answer to a request to parse
  MaxPolls,   \* how often a pour looks for the answer: 120 in the code
  MaxGen,     \* respawned generations a piston adds to a stem
  NoRow

VARIABLES
  rows,       \* the rows of all tables
  todo,       \* todo[c]: the commands client c still has to run
  pc,         \* pc[c]: the statement c runs next
  loc,        \* loc[c]: the local variables of its command
  outcome,    \* outcome[c]: how its last command ended
  crew,       \* the pistons at work
  sees,       \* sees[p]: the row of the cell piston p works on
  ppc,        \* ppc[p]: the statement p runs next
  crashes,    \* how many clients may still die
  touched     \* history: what others did to c's program during its command

vars == <<rows, todo, pc, loc, outcome, crew, sees, ppc, crashes, touched>>

-----------------------------------------------------------------------------
(* Tables.                                                                 *)

Owned == {"givens", "yields", "oracles"}

CellsOf(program) == {r \in rows : r.table = "cells" /\ r.program = program}

\* The primary key and the unique index of a row's table.
Keys(r) ==
  {<<r.table, r.id>>} \cup
  CASE r.table = "cells"  -> {<<"name", r.program, r.name>>}
    [] r.table = "frames" -> {<<"generation", r.program, r.name, r.gen>>}
    [] r.table = "yields" -> {<<"field", r.cell, r.field>>}
    [] r.table = "claims" -> {<<"frame", r.frame>>}
    [] OTHER              -> {}

\* No key is taken, and the cell of a given, yield or oracle is there.
Accepts(r) ==
  /\ \A q \in rows : Keys(q) \cap Keys(r) = {}
  /\ r.table \in Owned => \E q \in rows : q.table = "cells" /\ q.id = r.cell

\* The tables the statements of an answer may insert into.
Allowed == {"cells", "yields", "givens", "oracles", "frames"}

\* INSERT IGNORE is what every statement on frames and claims is.
Ignoring(r) == r.table \in {"frames", "claims"}

\* The statement is run; whether it failed is for the caller to notice.
Insert(r) == rows' = IF Accepts(r) THEN rows \cup {r} ELSE rows

Fails(r) == ~Accepts(r) /\ ~Ignoring(r)

FrameRow(r, gen) ==
  [table |-> "frames", id |-> <<"f">> \o r.id \o <<ToString(gen)>>,
   program |-> r.program, name |-> r.name, gen |-> gen]

NothingSent == "" \* yields.value_text before an answer

(* The two-cell program that asks a piston to parse a file.                *)
PourProgram(program, file) == <<"pour">> \o program \o <<file.hash>>

CellRow(program, name, body) ==
  [table |-> "cells", id |-> program \o name, program |-> program, name |-> name,
   body |-> body, state |-> "declared"]

YieldRow(cell, field, value) ==
  [table |-> "yields", id |-> <<"y">> \o cell.id \o <<field>>, cell |-> cell.id,
   frame |-> FrameRow(cell, 0).id, field |-> field, value |-> value,
   frozen |-> value # NothingSent]

GivenRow(cell, source, field) ==
  [table |-> "givens", id |-> <<"g">> \o cell.id \o <<field>>, cell |-> cell.id,
   source |-> source, field |-> field, optional |-> FALSE]

NotEmptyRow(cell) ==
  [table |-> "oracles", id |-> <<"o">> \o cell.id \o <<"1">>, cell |-> cell.id,
   cond |-> "not_empty", of |-> <<>>]

SourceCell(program, file) == CellRow(PourProgram(program, file), <<"source">>, "literal")
ParseCell(program, file)  == CellRow(PourProgram(program, file), <<"parse">>, "stem")

SourceRows(program, file) ==
  LET s == SourceCell(program, file)
  IN <<s, FrameRow(s, 0), YieldRow(s, "text", "file"), YieldRow(s, "name", "program")>>

ParseRows(program, file) ==
  LET s == ParseCell(program, file)
  IN <<s, GivenRow(s, <<"source">>, "text"), GivenRow(s, <<"source">>, "name"),
       FrameRow(s, 0), YieldRow(s, "sql", NothingSent), NotEmptyRow(s)>>

\* The yields that hold the answer to the request, once it is frozen.
Answered(program, file) ==
  {r \in rows : /\ r.table = "yields" /\ r.cell = ParseCell(program, file).id
                /\ r.field = "sql" /\ r.frozen}

(* The request ct eval leaves in the program cell-zero-eval.               *)
CellZero == <<"cell", "zero", "eval">>

RequestCell(file) ==
  [CellRow(CellZero, <<"pour", "request">>, "prose") EXCEPT !.id = <<"cz", "req", file.hash>>]

RequestRows(file) ==
  LET s == RequestCell(file)
  IN <<s, FrameRow(s, 0), YieldRow(s, "name", "program"), YieldRow(s, "text", "file")>>

-----------------------------------------------------------------------------
(* What the sessions ask for.  The assumptions say what the properties     *)
(* below need of them; the code ensures none of the last three.            *)

Commands == UNION {{s.todo[c][i] : i \in DOMAIN s.todo[c]} : s \in Sessions, c \in Clients}
Pours    == {k \in Commands : k.op = "pour"}
Evals    == {k \in Commands : k.op = "eval"}

Begins(s, t) == Len(s) <= Len(t) /\ SubSeq(t, 1, Len(s)) = s

\* Ids are words joined by dashes.
IsId(s) == s \in Seq({s[i] : i \in DOMAIN s})

\* What a pour may execute: the compiled file, and what the sandbox lets pass.
SandboxPasses(k) ==
  {k.file.answers[a] : a \in {b \in Answers : \A i \in DOMAIN k.file.answers[b] :
                                               k.file.answers[b][i].table \in Allowed}}
Scripts(k) == (IF k.file.reading = "cells" THEN {k.file.script} ELSE {}) \cup SandboxPasses(k)

Columns(table) ==
  {"table", "id"} \cup
  CASE table = "cells"  -> {"program", "name", "state"}
    [] table = "frames" -> {"program", "name", "gen"}
    [] table = "yields" -> {"cell", "field", "value", "frozen"}
    [] OTHER            -> {"cell"}

\* A script writes rows of one program: cells, and what belongs to its cells.
WritesOnly(script, program) ==
  /\ Len(script) \in Nat /\ DOMAIN script = 1..Len(script)
  /\ \A i \in DOMAIN script : LET r == script[i] IN
       /\ r.table \in Allowed /\ Columns(r.table) \subseteq DOMAIN r
       /\ r.table = "cells" => r.program = program
       /\ r.table # "cells" => \E j \in DOMAIN script :
            /\ script[j].table = "cells"
            /\ IF r.table = "frames" THEN \E g \in 0..MaxGen : r = FrameRow(script[j], g)
               ELSE r.cell = script[j].id

\* The cells anybody may insert.
PossibleCells ==
  (UNION {{s[i] : i \in {j \in DOMAIN s : s[j].table = "cells"}} :
             s \in UNION {Scripts(k) : k \in Pours}})
  \cup {SourceCell(k.program, k.file) : k \in Pours}
  \cup {ParseCell(k.program, k.file) : k \in Pours}
  \cup {RequestCell(k.file) : k \in Evals}

ASSUME SessionsAssumption ==
  /\ MaxPolls \in Nat /\ MaxGen \in Nat /\ "piston" \notin Clients
  /\ \A s \in Sessions :
       /\ s.todo \in [Clients -> Seq(Commands)]
       /\ s.crew \subseteq Pistons /\ s.crashes \in Nat
  /\ \A k \in Commands : k.op \in {"pour", "eval", "reset"}
  /\ \A q \in PossibleCells : IsId(q.id)
  /\ \A k \in Pours :
       /\ k.file.reading \in {"cells", "nil", "error"}
       /\ k.file.reading = "cells" => WritesOnly(k.file.script, k.program)

\* An answer the sandbox lets pass is what the request asks for: INSERTs of
\* rows of the program that is poured.  (It would also let pass UPDATEs,
\* SELECTs, INSERT IGNOREs and the rows of any other program.)
ASSUME AnswersAssumption ==
  \A k \in Pours, a \in Answers :
    k.file.answers[a] \in SandboxPasses(k) => WritesOnly(k.file.answers[a], k.program)

\* Cell ids are names joined by dashes.  They must not coincide, nor begin
\* with the name of another program, and no program be named like a request.
ASSUME NamesAssumption ==
  /\ \A q, r \in PossibleCells : q.id = r.id => q.program = r.program /\ q.name = r.name
  /\ \A k \in Commands, q \in PossibleCells :
       k.op = "reset" /\ Begins(k.program, q.id) => q.program = k.program
  /\ \A k, l \in Pours : k.program # PourProgram(l.program, l.file)

\* What is made of one file shares a row, whoever made it.
ASSUME OneReadingAssumption ==
  \A k \in Pours : \A s, t \in Scripts(k) : s # <<>> =>
    \E i \in DOMAIN s, j \in DOMAIN t :
      ~Ignoring(s[i]) /\ s[i].table = t[j].table /\ s[i].id = t[j].id

-----------------------------------------------------------------------------
(* Clients.                                                                *)

Command(c) == Head(todo[c])

\* The programs c's command writes to.
Programs(c) ==
  CASE Command(c).op = "pour"  -> {Command(c).program,
                                   PourProgram(Command(c).program, Command(c).file)}
    [] Command(c).op = "reset" -> {Command(c).program}
    [] Command(c).op = "eval"  -> {CellZero}

NoLocals == [at |-> 1, polls |-> 0, frames |-> {}, sql |-> <<>>, before |-> FALSE]

Labels == {"ready", "insert", "frames", "cache", "exists", "createSource",
           "freezeSource", "createParse", "poll", "sandbox", "exec", "request",
           "evalInsert", "delete", "ended"}

Outcomes == {"none", "poured", "answered", "refused", "blocked", "failed", "timeout",
             "nothing", "reset", "cached", "submitted"}

Init ==
  /\ rows = {}
  /\ \E s \in Sessions : todo = s.todo /\ crew = s.crew /\ crashes = s.crashes
  /\ pc = [c \in Clients |-> "ready"]
  /\ loc = [c \in Clients |-> NoLocals]
  /\ outcome = [c \in Clients |-> "none"]
  /\ sees = [p \in Pistons |-> NoRow]
  /\ ppc = [p \in Pistons |-> "find"]
  /\ touched = [c \in Clients |-> {}]

Goto(c, l) == pc' = [pc EXCEPT ![c] = l]
At(c, l, i) == Goto(c, l) /\ loc' = [loc EXCEPT ![c].at = i]

End(c, o) == /\ Goto(c, "ended") /\ outcome' = [outcome EXCEPT ![c] = o]
             /\ UNCHANGED loc

Working == <<crew, sees, ppc>>

\* What is done to a program is remembered by the clients, but for its author,
\* whose command is about that program too.
Touch(author, how, program) ==
  touched' = [c \in Clients |->
    IF c # author /\ todo[c] # <<>> /\ program \in Programs(c)
    THEN touched[c] \cup {how} ELSE touched[c]]

\* The command c starts with has its first SELECT: cells of its program.
Starts(c, op) ==
  /\ pc[c] = "ready" /\ todo[c] # <<>>
  /\ Command(c).op = op
  /\ touched' = [touched EXCEPT ![c] = {}]
  /\ UNCHANGED <<rows, todo, Working, crashes>>

\* cmdPour: refuse a program that has cells, parse, compile.
PourCount(c) ==
  LET program == Command(c).program  file == Command(c).file
      before == \E r \in Answered(program, file) : r.value # NothingSent
      l == CASE file.reading = "cells" -> "insert" [] file.reading = "nil" -> "cache"
  IN /\ Starts(c, "pour")
     /\ IF CellsOf(program) # {} \/ file.reading = "error" THEN End(c, "refused")
        ELSE /\ Goto(c, l)
             /\ loc' = [loc EXCEPT ![c] =
                  [NoLocals EXCEPT !.before = before, !.sql = file.script]]
             /\ UNCHANGED outcome

\* The next statement of a script that inserts into program.
Executes(c, script, program) ==
  /\ loc[c].at <= Len(script)
  /\ Insert(script[loc[c].at])
  /\ Touch(c, "insert", program)
  /\ UNCHANGED <<todo, Working, crashes>>

\* Mutant of PourInsert: the error of a statement is passed over.
PourInsertAll(c) ==
  /\ pc[c] = "insert"
  /\ Executes(c, loc[c].sql, Command(c).program)
  /\ At(c, "insert", loc[c].at + 1)
  /\ UNCHANGED outcome

\* A statement that fails ends the script: on to the piston.
PourInsert(c) ==
  /\ pc[c] = "insert"
  /\ Executes(c, loc[c].sql, Command(c).program)
  /\ IF Fails(loc[c].sql[loc[c].at]) THEN Goto(c, "cache") /\ UNCHANGED loc
     ELSE At(c, "insert", loc[c].at + 1)
  /\ UNCHANGED outcome

\* Mutant of ReadCells: it does not wait for the last statement.
ReadCellsEarly(c) ==
  /\ pc[c] = "insert"
  /\ loc[c].at >= Len(loc[c].sql)
  /\ loc' = [loc EXCEPT ![c].frames =
               {FrameRow(r, 0) : r \in CellsOf(Command(c).program)}]
  /\ Goto(c, "frames")
  /\ UNCHANGED <<rows, todo, outcome, Working, crashes, touched>>

\* ensureFrames reads the cells of the program ...
ReadCells(c) ==
  /\ pc[c] = "insert"
  /\ loc[c].at > Len(loc[c].sql)
  /\ loc' = [loc EXCEPT ![c].frames =
               {FrameRow(r, 0) : r \in CellsOf(Command(c).program)}]
  /\ Goto(c, "frames")
  /\ UNCHANGED <<rows, todo, outcome, Working, crashes, touched>>

\* ... and inserts the frames that are missing, one at a time.
EnsureFrame(c) ==
  /\ pc[c] = "frames"
  /\ \E r \in loc[c].frames : /\ Insert(r)
                              /\ loc' = [loc EXCEPT ![c].frames = @ \ {r}]
  /\ Touch(c, "insert", Command(c).program)
  /\ UNCHANGED <<todo, pc, outcome, Working, crashes>>

PourEnds(c) ==
  /\ pc[c] = "frames" /\ loc[c].frames = {}
  /\ End(c, "poured")
  /\ UNCHANGED <<rows, todo, Working, crashes, touched>>

-----------------------------------------------------------------------------
(* pourViaPiston.                                                          *)

\* An answer found is what pourExecSQL is given; without one c goes to l.
LooksForAnswer(c, l) ==
  LET program == Command(c).program  file == Command(c).file
      found == {r \in Answered(program, file) : r.value # NothingSent}
  IN /\ IF found # {}
        THEN /\ Goto(c, "sandbox")
             /\ loc' = [loc EXCEPT ![c].at = 1, ![c].sql =
                  file.answers[(CHOOSE r \in found : TRUE).value]]
        ELSE Goto(c, l) /\ loc' = [loc EXCEPT ![c].at = 1, ![c].polls =
                              IF l = "poll" THEN @ + 1 ELSE @]
     /\ UNCHANGED <<rows, todo, outcome, Working, crashes, touched>>

\* Mutant of CheckCache: the cache is not consulted.
CheckNoCache(c) ==
  /\ pc[c] = "cache"
  /\ Goto(c, "exists")
  /\ loc' = [loc EXCEPT ![c].at = 1]
  /\ UNCHANGED <<rows, todo, outcome, Working, crashes, touched>>

CheckCache(c) == pc[c] = "cache" /\ LooksForAnswer(c, "exists")

\* A pour-program that has a cell is taken for one a piston works on.
CheckExists(c) ==
  /\ pc[c] = "exists"
  /\ Goto(c, IF CellsOf(PourProgram(Command(c).program, Command(c).file)) = {}
             THEN "createSource" ELSE "poll")
  /\ UNCHANGED <<rows, todo, loc, outcome, Working, crashes, touched>>

\* One of the INSERTs that create the pour-program: a failure is only logged.
Creates(c, script, l) ==
  /\ Insert(script[loc[c].at])
  /\ Touch(c, "insert", PourProgram(Command(c).program, Command(c).file))
  /\ IF loc[c].at = Len(script) THEN At(c, l, 1)
     ELSE At(c, pc[c], loc[c].at + 1)
  /\ UNCHANGED <<todo, outcome, Working, crashes>>

CreateSource(c) ==
  /\ pc[c] = "createSource"
  /\ Creates(c, SourceRows(Command(c).program, Command(c).file), "freezeSource")

\* UPDATE cells SET state = 'frozen' WHERE id = the source cell.
FreezeSource(c) ==
  LET id == SourceCell(Command(c).program, Command(c).file).id
  IN /\ pc[c] = "freezeSource"
     /\ rows' = {IF r.table = "cells" /\ r.id = id THEN [r EXCEPT !.state = "frozen"]
                 ELSE r : r \in rows}
     /\ Goto(c, "createParse")
     /\ UNCHANGED <<todo, loc, outcome, Working, crashes, touched>>

CreateParse(c) ==
  /\ pc[c] = "createParse"
  /\ Creates(c, ParseRows(Command(c).program, Command(c).file), "poll")

\* Mutant of Poll: a failed look is not counted.
PollUncounted(c) == pc[c] = "poll" /\ LooksForAnswer(c, "exists")

\* Mutant of Poll: it looks once too often.
PollOnceMore(c) == pc[c] = "poll" /\ loc[c].polls <= MaxPolls /\ LooksForAnswer(c, "poll")

Poll(c) == pc[c] = "poll" /\ loc[c].polls < MaxPolls /\ LooksForAnswer(c, "poll")

TimesOut(c) ==
  /\ pc[c] = "poll" /\ loc[c].polls = MaxPolls
  /\ End(c, "timeout")
  /\ UNCHANGED <<rows, todo, Working, crashes, touched>>

\* pourExecSQL: every statement is looked at before the first is executed.
Sandbox(c) ==
  /\ pc[c] = "sandbox"
  /\ IF \A i \in DOMAIN loc[c].sql : loc[c].sql[i].table \in Allowed
     THEN Goto(c, "exec") /\ UNCHANGED <<loc, outcome>>
     ELSE End(c, "blocked")
  /\ UNCHANGED <<rows, todo, Working, crashes, touched>>

ExecAnswer(c) ==
  /\ pc[c] = "exec"
  /\ Executes(c, loc[c].sql, Command(c).program)
  /\ IF Fails(loc[c].sql[loc[c].at]) THEN End(c, "failed")
     ELSE At(c, "exec", loc[c].at + 1) /\ UNCHANGED outcome

ExecEnds(c) ==
  /\ pc[c] = "exec" /\ loc[c].at > Len(loc[c].sql)
  /\ End(c, "answered")
  /\ UNCHANGED <<rows, todo, Working, crashes, touched>>

-----------------------------------------------------------------------------
(* cmdEval and cmdReset.                                                   *)

EvalCount(c) ==
  /\ Starts(c, "eval")
  /\ IF CellsOf(CellZero) = {} THEN End(c, "refused")
     ELSE At(c, "request", 1) /\ UNCHANGED outcome

\* The request is known by the contents of the file alone.
RequestCount(c) ==
  /\ pc[c] = "request"
  /\ IF \E r \in rows : r.table = "cells" /\ r.id = RequestCell(Command(c).file).id
     THEN End(c, "cached")
     ELSE Goto(c, "evalInsert") /\ UNCHANGED <<loc, outcome>>
  /\ UNCHANGED <<rows, todo, Working, crashes, touched>>

\* Four INSERTs whose failures are only logged; then success is reported.
EvalInsert(c) ==
  LET script == RequestRows(Command(c).file)
  IN /\ pc[c] = "evalInsert"
     /\ IF loc[c].at > Len(script)
        THEN End(c, "submitted") /\ UNCHANGED <<rows, todo, Working, crashes, touched>>
        ELSE /\ Executes(c, script, CellZero)
             /\ At(c, "evalInsert", loc[c].at + 1) /\ UNCHANGED outcome

\* A claim on a cell that is gone: a piston saw the cell before a reset.
Stray(r) == /\ r.table = "claims"
            /\ ~\E q \in rows : q.table = "cells" /\ q.id = r.cell

ResetCount(c) ==
  LET program == Command(c).program
      before == \E r \in rows : Stray(r) /\ Begins(program, r.cell)
  IN /\ Starts(c, "reset")
     /\ IF CellsOf(program) = {} THEN End(c, "nothing")
        ELSE /\ Goto(c, "delete")
             /\ loc' = [loc EXCEPT ![c] = [NoLocals EXCEPT !.before = before]]
             /\ UNCHANGED outcome

\* Mutant of DeletionOrder: frames before cells, cells before what they own.
DeletionReversed == <<"frames", "cells", "givens", "yields", "oracles", "claims">>

\* The tables in the order resetProgram empties them.
DeletionOrder == <<"claims", "oracles", "yields", "givens", "cells", "frames">>

\* What DELETE FROM table takes away: rows of the program's cells, found by a
\* subselect on cells, or rows that carry the program's id.
Doomed(table, program) ==
  {r \in rows : /\ r.table = table
                /\ IF table \in {"cells", "frames"} THEN r.program = program
                   ELSE \E q \in CellsOf(program) : q.id = r.cell}

\* A cell with a given, yield or oracle is not deleted: the statement fails as
\* a whole, and that is only logged.
Refused(table, program) ==
  table = "cells" /\ \E r \in rows : /\ r.table \in Owned
                                     /\ \E q \in CellsOf(program) : q.id = r.cell

Delete(c) ==
  LET program == Command(c).program  table == DeletionOrder[loc[c].at]
  IN /\ pc[c] = "delete" /\ loc[c].at <= Len(DeletionOrder)
     /\ rows' = IF Refused(table, program) THEN rows ELSE rows \ Doomed(table, program)
     /\ Touch(c, "delete", program)
     /\ At(c, "delete", loc[c].at + 1)
     /\ UNCHANGED <<todo, outcome, Working, crashes>>

ResetEnds(c) ==
  /\ pc[c] = "delete" /\ loc[c].at > Len(DeletionOrder)
  /\ End(c, "reset")
  /\ UNCHANGED <<rows, todo, Working, crashes, touched>>

\* The next command of the client.
NextCommand(c) ==
  /\ pc[c] = "ended" /\ Len(todo[c]) > 1
  /\ todo' = [todo EXCEPT ![c] = Tail(@)]
  /\ Goto(c, "ready")
  /\ loc' = [loc EXCEPT ![c] = NoLocals]
  /\ outcome' = [outcome EXCEPT ![c] = "none"]
  /\ touched' = [touched EXCEPT ![c] = {}]
  /\ UNCHANGED <<rows, Working, crashes>>

\* The process of c is killed; its terminal goes on with the next command.
Crash(c) ==
  /\ crashes > 0 /\ pc[c] \notin {"ready", "ended"}
  /\ crashes' = crashes - 1
  /\ End(c, "none")
  /\ UNCHANGED <<rows, todo, Working, touched>>

-----------------------------------------------------------------------------
(* Pistons: what EvalEngine and Generations say of them, as far as it adds *)
(* rows or answers a request.  A piston goes on with the row it has read.  *)

PGoto(p, l) == ppc' = [ppc EXCEPT ![p] = l]

\* The view ready_cells over rows: a given whose source is not there is no
\* obstacle, and neither is one that is not inserted yet.
IsReady(r) ==
  /\ r.state = "declared"
  /\ \A g \in rows : g.table = "givens" /\ g.cell = r.id /\ ~g.optional =>
       \A s \in CellsOf(r.program) : s.name = g.source =>
         \E y \in rows : y.table = "yields" /\ y.cell = s.id /\ y.field = g.field /\ y.frozen

PistonFinds(p) ==
  /\ ppc[p] = "find"
  /\ \E r \in rows :
       /\ r.table = "cells" /\ IsReady(r)
       /\ ~\E q \in rows : q.table = "claims" /\ q.cell = r.id
       /\ sees' = [sees EXCEPT ![p] = r]
  /\ PGoto(p, "frame")
  /\ UNCHANGED <<rows, todo, pc, loc, outcome, crew, crashes, touched>>

FramesOf(r) ==
  {q \in rows : q.table = "frames" /\ q.program = r.program /\ q.name = r.name}

\* ensureFrameForCell
PistonFrame(p) ==
  /\ ppc[p] = "frame"
  /\ IF FramesOf(sees[p]) = {} THEN Insert(FrameRow(sees[p], 0)) ELSE UNCHANGED rows
  /\ Touch("piston", "insert", sees[p].program)
  /\ PGoto(p, "claim")
  /\ UNCHANGED <<todo, pc, loc, outcome, crew, sees, crashes>>

\* latestFrameID and INSERT IGNORE INTO cell_claims
PistonClaims(p) ==
  LET r == sees[p]
  IN /\ ppc[p] = "claim"
     /\ IF FramesOf(r) = {} THEN UNCHANGED rows /\ PGoto(p, "find")
        ELSE LET f == CHOOSE q \in FramesOf(r) : \A s \in FramesOf(r) : s.gen <= q.gen
                 row == [table |-> "claims", id |-> r.id, cell |-> r.id, frame |-> f.id]
             IN Insert(row) /\ PGoto(p, IF Accepts(row) THEN "work" ELSE "find")
     /\ Touch("piston", "insert", r.program)
     /\ UNCHANGED <<todo, pc, loc, outcome, crew, sees, crashes>>

\* The frozen yield of the cell that parses: an answer to the request.
PistonAnswers(p) ==
  /\ ppc[p] = "work"
  /\ \E a \in Answers :
       rows' = {IF r.table = "yields" /\ r.cell = sees[p].id /\ r.field = "sql" /\ ~r.frozen
                THEN [r EXCEPT !.value = a, !.frozen = TRUE] ELSE r : r \in rows}
  /\ PGoto(p, "unclaim")
  /\ UNCHANGED <<todo, pc, loc, outcome, crew, sees, crashes, touched>>

\* A stem is respawned: one more frame.
PistonSpawns(p) ==
  LET r == sees[p]
      gens == {q.gen : q \in FramesOf(r)}
  IN /\ ppc[p] = "work" /\ r.body = "stem"
     /\ \E g \in 0..MaxGen : /\ \A k \in gens : k < g
                             /\ g = 0 \/ g - 1 \in gens
                             /\ Insert(FrameRow(r, g))
     /\ Touch("piston", "insert", r.program)
     /\ PGoto(p, "unclaim")
     /\ UNCHANGED <<todo, pc, loc, outcome, crew, sees, crashes>>

PistonUnclaims(p) ==
  /\ ppc[p] = "unclaim"
  /\ rows' = {r \in rows : ~(r.table = "claims" /\ r.cell = sees[p].id)}
  /\ sees' = [sees EXCEPT ![p] = NoRow]
  /\ PGoto(p, "find")
  /\ UNCHANGED <<todo, pc, loc, outcome, crew, crashes, touched>>

-----------------------------------------------------------------------------
Pour(c) ==
  \/ PourCount(c) \/ PourInsert(c) \/ ReadCells(c) \/ EnsureFrame(c) \/ PourEnds(c)
  \/ CheckCache(c) \/ CheckExists(c) \/ CreateSource(c) \/ FreezeSource(c)
  \/ CreateParse(c) \/ Poll(c) \/ TimesOut(c) \/ Sandbox(c) \/ ExecAnswer(c) \/ ExecEnds(c)

Eval(c) == EvalCount(c) \/ RequestCount(c) \/ EvalInsert(c)
Reset(c) == ResetCount(c) \/ Delete(c) \/ ResetEnds(c)

ClientStep(c) == Pour(c) \/ Eval(c) \/ Reset(c) \/ NextCommand(c)

PistonStep(p) ==
  \/ PistonFinds(p) \/ PistonFrame(p) \/ PistonClaims(p)
  \/ PistonAnswers(p) \/ PistonSpawns(p) \/ PistonUnclaims(p)

Next ==
  \/ \E c \in Clients : ClientStep(c) \/ Crash(c)
  \/ \E p \in crew : PistonStep(p)

Spec == Init /\ [][Next]_vars

\* A process that was started runs on.  Nothing is assumed of the pistons.
FairSpec == Spec /\ \A c \in Clients : WF_vars(ClientStep(c))

-----------------------------------------------------------------------------
(* Properties.                                                             *)

TypeOK ==
  /\ pc \in [Clients -> Labels] /\ outcome \in [Clients -> Outcomes]
  /\ \A c \in Clients : /\ loc[c].at \in Nat /\ loc[c].polls \in 0..MaxPolls
                         /\ touched[c] \subseteq {"insert", "delete"}
  /\ \A p \in Pistons : ppc[p] \in {"find", "frame", "claim", "work", "unclaim"}

Stored(r) == \E q \in rows : q.table = r.table /\ q.id = r.id

\* Success is not reported by half: a pour that says so has every row of its
\* script in the tables, whatever other pours and pistons did meanwhile, and if
\* it compiled the file, a frame for every cell; only a reset of the program
\* may have undone it.  An answer of a piston is executed as it stands: it is
\* asked for no frames and none are added, so a cell it inserts may have no
\* frame until a piston comes to evaluate it.
PourWhole ==
  \A c \in Clients :
    /\ pc[c] = "ended" /\ outcome[c] \in {"poured", "answered"}
    /\ "delete" \notin touched[c]
    => \A i \in DOMAIN loc[c].sql : LET r == loc[c].sql[i] IN
         /\ ~Ignoring(r) => Stored(r)
         /\ outcome[c] = "poured" /\ r.table = "cells" => FramesOf(r) # {}

\* Of two pours of one file under one name at most one reports success, as
\* long as nobody resets the program.
PouredOnce ==
  \A c, d \in Clients :
    /\ c # d /\ pc[c] = "ended" /\ pc[d] = "ended"
    /\ {outcome[c], outcome[d]} \subseteq {"poured", "answered"}
    /\ Command(c) = Command(d) /\ loc[c].sql # <<>>
    => "delete" \in touched[c] \cup touched[d]

\* A reset that nobody disturbed by an INSERT leaves no row of the program in
\* any table, although each of its DELETEs finds its rows through others.  Only
\* a claim whose cell was gone before is out of its reach.
ResetComplete ==
  \A c \in Clients :
    /\ pc[c] = "ended" /\ outcome[c] = "reset" /\ touched[c] = {}
    => LET program == Command(c).program
       IN \A r \in rows : ~(r.table = "claims" /\ loc[c].before) =>
            IF r.table \in {"cells", "frames"} THEN r.program # program
            ELSE ~Begins(program, r.cell)

\* An answer that came too late for one pour serves the next: a pour whose
\* answer was frozen before it began asks nobody again and does not wait.
LateAnswerServes ==
  \A c \in Clients :
    /\ loc[c].before
    /\ \/ pc[c] \in {"exists", "createSource", "freezeSource", "createParse", "poll"}
       \/ pc[c] = "ended" /\ outcome[c] = "timeout"
    => "delete" \in touched[c]

\* Every command comes to an end, with or without pistons: a pour that waits
\* for an answer gives up.
CommandsEnd ==
  <>(\A c \in Clients : todo[c] # <<>> => Len(todo[c]) = 1 /\ pc[c] = "ended")

\* What no code ensures: a piston works on a cell that is being poured only
\* when the yields its givens will name are frozen.
ClaimedWithInputs ==
  \A c \in Clients, p \in Pistons :
    /\ todo[c] # <<>> /\ Command(c).op = "pour" /\ pc[c] = "insert" /\ ppc[p] = "work"
    => LET script == loc[c].sql
       IN \A i, k \in DOMAIN script :
            /\ script[i].table = "givens" /\ script[i].cell = sees[p].id
            /\ ~script[i].optional
            /\ script[k].table = "yields" /\ script[k].field = script[i].field
            /\ script[k].cell = Command(c).program \o script[i].source
            => \E y \in rows : y.table = "yields" /\ y.id = script[k].id /\ y.frozen
=============================================================================
