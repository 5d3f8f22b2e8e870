------------------------------ MODULE Compiler ------------------------------
(***************************************************************************)
(* The compiler of ct: from the lines of a .cell file to the rows a pour   *)
(* inserts (src/cmd/ct/parse.go), and the linter (src/cmd/ct/lint.go).     *)
(*                                                                         *)
(* A NAME is the sequence of the words between its dashes, because the     *)
(* compiler builds names and keys by joining others with dashes: the third *)
(* step of refine is <<"refine", "3">>, and the key of a yield is          *)
(* <<"y">>, the program, the cell and the field, end to end.  A LINE of a  *)
(* file is a record: the keyword it starts with (tag), whether it is       *)
(* indented, and what follows the keyword.  Prose is one tag; the hash     *)
(* that shortens long keys and the quoting of values are left out.         *)
(***************************************************************************)
EXTENDS Integers, SequencesExt, FiniteSetsExt, TLC

Word(i) == ToString(i)
StepName(base, i)  == Append(base, Word(i))
JudgeName(name, j) == name \o <<"judge", Word(j)>>

\* A cell of the source.  guard is the field a guard watches, "" for none.
NewCell(name, type, times) ==
  [name |-> name, type |-> type, body |-> <<>>, givens |-> <<>>,
   yields |-> <<>>, oracles |-> <<>>, iterate |-> times, guard |-> ""]

Given(source, field, optional) ==
  [source |-> source, field |-> field, optional |-> optional]

\* validNameRe: a name starts with a letter; "*" is not part of one.
ValidName(name) ==
  Head(name) \notin {Word(i) : i \in 0..9} /\ "*" \notin Range(name)

ValidNames(cells) ==
  \A i \in DOMAIN cells :
    /\ ValidName(cells[i].name)
    /\ \A j \in DOMAIN cells[i].yields : ValidName(<<cells[i].yields[j].field>>)
    /\ \A j \in DOMAIN cells[i].givens : ValidName(<<cells[i].givens[j].field>>)

-----------------------------------------------------------------------------
(* The parsers: a state is what a line leaves behind for the next one.     *)

Unread == [cells |-> <<>>, inBody |-> FALSE, ok |-> TRUE]

Current(s) == Last(s.cells)
SetCurrent(s, c) == [s EXCEPT !.cells[Len(s.cells)] = c]
Declare(s, c) == [s EXCEPT !.cells = Append(@, c), !.inBody = FALSE]
Fail(s) == [s EXCEPT !.ok = FALSE]

\* A line of a body is kept without its indentation.
AddToBody(s, l) ==
  SetCurrent(s, [Current(s) EXCEPT !.body = Append(@, [l EXCEPT !.indent = FALSE])])

TrimBody(body) ==
  SubSeq(body, 1, Max({0} \cup {i \in DOMAIN body : body[i].tag # "blank"}))

AddGiven(s, g) ==
  SetCurrent(s, [Current(s) EXCEPT !.givens = Append(@, g)])

\* A yield that is bound, be it to the empty text, gives the cell the type
\* bound; after that, a yield bound to the empty text is like an unbound one.
\* The sign that binds in the other syntax is taken for a part of the field's
\* name, which is then invalid.
AddYield(s, l, v, bound) ==
  LET foreign == l.bound /\ l.v # v
  IN SetCurrent(s, [Current(s) EXCEPT
       !.yields = Append(@, [field |-> IF foreign THEN "*" ELSE l.field,
                             value |-> IF foreign THEN "" ELSE l.value]),
       !.type   = IF l.bound /\ ~foreign THEN bound ELSE @])

\* "permutation of f" names the cell of the first given that reads f so far.
LengthSource(c, field) ==
  LET i == SelectInSeq(c.givens, LAMBDA g : g.field = field)
  IN IF i = 0 THEN <<field>> ELSE c.givens[i].source

\* The words of an assertion decide what judges it.
Classify(c, l) ==
  [type |-> IF l.asserts = "prose" THEN "semantic" ELSE "deterministic",
   cond |-> l.asserts,
   cell |-> IF l.asserts = "permutation" THEN LengthSource(c, l.field) ELSE <<>>]

AddOracle(s, o) ==
  SetCurrent(s, [Current(s) EXCEPT !.oracles = Append(@, o)])

SemanticOracle == [type |-> "semantic", cond |-> "prose", cell |-> <<>>]

\* X.Y, X[*].Y and X[2].Y: the bracket becomes the last word of the name.
SourceName(l) == IF l.index = "" THEN l.source ELSE Append(l.source, l.index)

Runnable == {"sql", "dml"}

\* Mutant of InFence: declarations are looked for before the fence is.
InFenceLate(s, l) ==
  CASE l.tag = "fence" /\ l.indent -> [s EXCEPT !.inBody = FALSE]
    [] l.tag = "cell" /\ ~l.indent -> Declare(s, NewCell(l.name, "soft", 0))
    [] OTHER -> AddToBody(s, l)

\* Inside a fence everything is body, even what looks like a declaration,
\* until an indented fence closes it and shows what kind of body it was.
InFence(s, l) ==
  IF l.tag = "fence" /\ l.indent
  THEN LET body == TrimBody(Current(s).body)
           runs == body # <<>> /\ Head(body).tag \in Runnable
       IN [SetCurrent(s, [Current(s) EXCEPT !.body = body,
             !.type = IF @ # "stem" /\ runs THEN "hard" ELSE @])
           EXCEPT !.inBody = FALSE]
  ELSE AddToBody(s, l)

DeclareV2(s, l) ==
  CASE l.tag = "cell"    -> Declare(s, NewCell(l.name, l.type, 0))
    [] l.tag = "iterate" -> Declare(s, NewCell(l.name, "soft", l.times))
    [] l.tag = "broken"  -> Fail(s)
    [] OTHER             -> s

ClauseV2(s, l) ==
  LET c == Current(s)
  IN CASE l.tag = "fence" -> [SetCurrent(s, [c EXCEPT !.body = <<>>])
                              EXCEPT !.inBody = TRUE]
       [] l.tag = "given" -> IF l.v = 1 THEN Fail(s) ELSE
                             AddGiven(s, Given(SourceName(l), l.field, l.optional))
       [] l.tag = "yield" -> AddYield(s, l, 2, IF c.type = "stem" THEN "stem" ELSE "hard")
       [] l.tag = "recur" -> SetCurrent(s, [c EXCEPT !.iterate = l.times,
                               !.guard = IF l.guard # "" THEN l.guard ELSE @])
       [] l.tag = "check~" -> AddOracle(s, SemanticOracle)
       [] l.tag = "check" -> AddOracle(s, Classify(c, l))
       [] l.tag = "broken" -> Fail(s)
       [] OTHER -> s

LineV2(s, l) ==
  CASE ~s.ok -> s
    [] s.ok /\ s.inBody -> IF l.tag = "blank" THEN AddToBody(s, l) ELSE InFence(s, l)
    [] s.ok /\ ~s.inBody /\ l.tag \in {"blank", "comment"} -> s
    [] s.ok /\ ~s.inBody /\ l.tag \notin {"blank", "comment"} ->
         IF ~l.indent THEN DeclareV2(s, l)
         ELSE IF s.cells = <<>> THEN s ELSE ClauseV2(s, l)

\* An indented clause of v1; any of them ends a body.
ClauseV1(s, l) ==
  LET out == [s EXCEPT !.inBody = FALSE]
  IN CASE l.tag = "given" -> IF l.v = 2 THEN Fail(s)
                             ELSE AddGiven(out, Given(l.source, l.field, l.optional))
       [] l.tag = "yield" -> AddYield(out, l, 1, "hard")

BodyTypes == [therefore |-> "soft", therefore2 |-> "stem", equals |-> "hard"]

StartBody(s, l) ==
  [SetCurrent(s, [Current(s) EXCEPT !.body = <<l.text>>, !.type = BodyTypes[l.tag]])
   EXCEPT !.inBody = TRUE]

LineV1(s, l) ==
  CASE ~s.ok \/ l.tag \in {"comment", "fence"} -> s
    [] s.ok /\ l.tag \in {"turnstile", "loop"} -> Declare(s, NewCell(l.name, "soft", l.times))
    [] s.ok /\ l.tag = "broken loop" -> Fail(s)
    [] s.ok /\ l.tag \notin {"comment", "fence", "turnstile", "loop", "broken loop"} ->
         IF s.cells = <<>> THEN s
         ELSE CASE l.tag \in {"given", "yield"} /\ l.indent -> ClauseV1(s, l)
                [] l.tag \in DOMAIN BodyTypes -> StartBody(s, l)
                [] l.tag = "models~" -> AddOracle([s EXCEPT !.inBody = FALSE], SemanticOracle)
                [] l.tag = "models" ->
                     AddOracle([s EXCEPT !.inBody = FALSE], Classify(Current(s), l))
                [] OTHER -> IF s.inBody THEN AddToBody(s, l) ELSE s

\* The cells read, or <<>> (nil in the code) when the syntax is not this one.
Finish(s) ==
  IF ~s.ok THEN <<>>
  ELSE [i \in DOMAIN s.cells |-> [s.cells[i] EXCEPT !.body = TrimBody(@)]]

ParseV1(lines) == Finish(FoldLeft(LineV1, Unread, lines))

\* A file is v2 when a line at the margin declares a cell the v2 way.
LooksLikeV2(lines) ==
  \E i \in DOMAIN lines : lines[i].tag \in {"cell", "iterate"} /\ ~lines[i].indent

ParseV2(lines) ==
  IF LooksLikeV2(lines) THEN Finish(FoldLeft(LineV2, Unread, lines)) ELSE <<>>

\* parseCellFile, but for the validation of names.
Parse(lines) == LET cells == ParseV2(lines)
                IN IF cells # <<>> THEN cells ELSE ParseV1(lines)

-----------------------------------------------------------------------------
(* cellsToSQL: resolve the references, expand the loops, write the rows.   *)

Templates(cells) == {c \in Range(cells) : c.iterate > 0}

\* iterTemplates[name]: of several templates of one name the last counts.
Times(cells, name) ==
  cells[Max({i \in DOMAIN cells : cells[i].iterate > 0 /\ cells[i].name = name})].iterate

IsTemplate(cells, name) == \E c \in Templates(cells) : c.name = name

\* x[*] reads every step of the loop x; x alone, if x is a loop, its last.
ResolveGiven(cells, g) ==
  LET base == Front(g.source)
  IN IF Last(g.source) = "*" /\ IsTemplate(cells, base)
     THEN [k \in 1..Times(cells, base) |-> [g EXCEPT !.source = StepName(base, k)]]
     ELSE IF IsTemplate(cells, g.source)
          THEN <<[g EXCEPT !.source = StepName(g.source, Times(cells, g.source))]>>
          ELSE <<g>>

\* The givens of a template are left as they are.
Resolve(cells) ==
  [i \in DOMAIN cells |->
     IF cells[i].iterate > 0 THEN cells[i]
     ELSE [cells[i] EXCEPT !.givens =
             FlattenSeq([j \in DOMAIN @ |-> ResolveGiven(cells, @[j])])]]

\* The given whose field is also a yield, the last one if there are several.
ChainGiven(c) ==
  SelectLastInSeq(c.givens, LAMBDA g : \E y \in Range(c.yields) : y.field = g.field)

Semantic(c) == {j \in DOMAIN c.oracles : c.oracles[j].type = "semantic"}

\* Mutant of StepGiven: every step reads what the first one reads.
StepGivenUnchained(c, i, g) == g

\* What step i reads instead of g: from the second step on, the chained field
\* comes from the step before.
StepGiven(c, i, g) ==
  LET chained == ChainGiven(c)
  IN IF chained = 0 \/ g.field # c.givens[chained].field THEN g
     ELSE [g EXCEPT !.source =
             IF i = 1 THEN c.givens[chained].source ELSE StepName(c.name, i - 1)]

\* The verdicts on the step before are optional givens of step i.
Verdicts(c, i) ==
  FlattenSeq([j \in DOMAIN c.oracles |->
    IF j \in Semantic(c)
    THEN <<Given(JudgeName(StepName(c.name, i - 1), j), "verdict", TRUE)>> ELSE <<>>])

Step(c, i) ==
  [c EXCEPT !.name    = StepName(@, i),
            !.iterate = 0,
            !.givens  = [j \in DOMAIN @ |-> StepGiven(c, i, @[j])]
                        \o (IF i > 1 THEN Verdicts(c, i) ELSE <<>>),
            !.body    = IF i > 1 /\ Semantic(c) # {}
                        THEN Append(@, [tag |-> "feedback", indent |-> FALSE]) ELSE @]

\* Mutant of JudgeOfOracle: the judge sees the first yield only.
JudgeOfFirstYield(c, j) ==
  [NewCell(JudgeName(c.name, j), "stem", 0) EXCEPT
     !.body    = <<[tag |-> "judge", indent |-> FALSE]>>,
     !.givens  = SubSeq([k \in DOMAIN c.yields |->
                           Given(c.name, c.yields[k].field, FALSE)], 1, 1),
     !.yields  = <<[field |-> "verdict", value |-> ""]>>,
     !.oracles = <<[type |-> "deterministic", cond |-> "not_empty", cell |-> <<>>]>>]

\* The judge of c's j-th oracle: a stem that reads all of c's yields.
JudgeOfOracle(c, j) ==
  [NewCell(JudgeName(c.name, j), "stem", 0) EXCEPT
     !.body    = <<[tag |-> "judge", indent |-> FALSE]>>,
     !.givens  = [k \in DOMAIN c.yields |-> Given(c.name, c.yields[k].field, FALSE)],
     !.yields  = <<[field |-> "verdict", value |-> ""]>>,
     !.oracles = <<[type |-> "deterministic", cond |-> "not_empty", cell |-> <<>>]>>]

\* c and then its judges.
WithJudges(c) ==
  <<c>> \o FlattenSeq([j \in DOMAIN c.oracles |->
             IF j \in Semantic(c) THEN <<JudgeOfOracle(c, j)>> ELSE <<>>])

\* The cells a source cell becomes.
Expand(c) ==
  IF c.iterate > 0
  THEN FlattenSeq([i \in 1..c.iterate |-> WithJudges(Step(c, i))])
  ELSE WithJudges(c)

\* An empty hard body is the literal its yields are bound to, or literal:_.
BodyKind(c) ==
  IF c.type # "hard" THEN c.type
  ELSE IF c.body = <<>> THEN "literal"
       ELSE IF Head(c.body).tag \in Runnable THEN Head(c.body).tag ELSE "prose"

\* All of several yields are bound: the cell is poured frozen.
PouredFrozen(c) ==
  /\ c.type = "hard" /\ Len(c.yields) > 1
  /\ \A k \in DOMAIN c.yields : c.yields[k].value # ""

\* writeCell: the rows of c, in the order they are inserted.
CellRows(program, c) ==
  LET id    == program \o c.name
      frame == <<"f">> \o id \o <<"0">>
      state == IF PouredFrozen(c) THEN "frozen" ELSE "declared"
  IN <<[table |-> "cells", id |-> id, program |-> program, name |-> c.name,
        body |-> BodyKind(c), state |-> state],
       [table |-> "frames", id |-> frame, program |-> program, name |-> c.name, gen |-> 0]>>
     \o [k \in DOMAIN c.givens |-> LET g == c.givens[k] IN
          [table |-> "givens", id |-> <<"g">> \o id \o g.source \o <<g.field>>, cell |-> id,
           source |-> g.source, field |-> g.field, optional |-> g.optional]]
     \o [k \in DOMAIN c.yields |->
          [table |-> "yields", id |-> <<"y">> \o id \o <<c.yields[k].field>>, cell |-> id,
           frame |-> frame, field |-> c.yields[k].field,
           value |-> IF PouredFrozen(c) THEN c.yields[k].value ELSE "",
           frozen |-> PouredFrozen(c)]]
     \o [k \in DOMAIN c.oracles |->
          [table |-> "oracles", id |-> <<"o">> \o id \o <<Word(k)>>, cell |-> id,
           cond |-> c.oracles[k].cond, of |-> c.oracles[k].cell]]
     \o (IF c.guard = "" THEN <<>>
         ELSE <<[table |-> "oracles", id |-> <<"o">> \o id \o <<"guard">>, cell |-> id,
                 cond |-> "guard", of |-> <<c.guard>>]>>)

\* The rows of a program, in the order cellsToSQL inserts them.
CompiledCells(cells) == LET resolved == Resolve(cells)
                        IN FlattenSeq([i \in DOMAIN resolved |-> Expand(resolved[i])])

Compile(program, cells) ==
  LET all == CompiledCells(cells)
  IN FlattenSeq([i \in DOMAIN all |-> CellRows(program, all[i])])

-----------------------------------------------------------------------------
(* lintCells.                                                              *)

Names(cells) == {c.name : c \in Range(cells)}

Duplicated(cells) ==
  \E i, j \in DOMAIN cells : i # j /\ cells[i].name = cells[j].name

\* A step of some loop, by its number.
IsStep(cells, name) ==
  \E c \in Templates(cells) : \E i \in 1..Times(cells, c.name) : name = StepName(c.name, i)

\* Whatever has -judge- in its name is taken for a judge.
IsJudge(name) == \E i \in 2..Len(name) - 1 : name[i] = "judge"

\* Mutant of Dangling: a name that starts with a loop's is taken for a step.
DanglingLoosely(cells, g) ==
  IF Last(g.source) = "*" THEN Front(g.source) \notin Names(cells)
  ELSE /\ g.source \notin Names(cells) /\ ~IsJudge(g.source)
       /\ ~\E c \in Templates(cells) : IsPrefix(c.name, g.source)

\* The given names no cell: a gather is checked by the name it gathers.
Dangling(cells, g) ==
  IF Last(g.source) = "*" THEN Front(g.source) \notin Names(cells)
  ELSE /\ g.source \notin Names(cells)
       /\ ~IsStep(cells, g.source)
       /\ ~IsJudge(g.source)

\* The names a cell reads, as they are written in the source.
ReadsOf(cells, name) ==
  FlattenSeq([i \in DOMAIN cells |->
    IF cells[i].name = name
    THEN [j \in DOMAIN cells[i].givens |-> cells[i].givens[j].source] ELSE <<>>])

\* The names a program speaks of.
Nodes(cells) == Names(cells) \cup {g.source : g \in UNION {Range(c.givens) : c \in Range(cells)}}

\* What the search knows: visited, by its values 1 and 2, and the answer.
Visits(cells) == [visiting : SUBSET Nodes(cells), done : SUBSET Nodes(cells), cycle : BOOLEAN]

Unvisited == [visiting |-> {}, done |-> {}, cycle |-> FALSE]

\* The loop over what name reads.  A node that reads itself is passed over.
SearchReads(search, cells, s, name) ==
  FoldLeft(LAMBDA u, dep : IF dep = name THEN u ELSE search[<<u, dep>>], s, ReadsOf(cells, name))

\* Mutant of Visit: a node is done as soon as it is met, so that a path back to
\* one that is being visited is not noticed.
VisitOnce(search, cells, s, name) ==
  IF name \in s.done THEN s
  ELSE SearchReads(search, cells, [s EXCEPT !.done = @ \cup {name}], name)

\* dfs: meeting a node that is being visited is a cycle.
Visit(search, cells, s, name) ==
  IF name \in s.done THEN s
  ELSE IF name \in s.visiting THEN [s EXCEPT !.cycle = TRUE]
  ELSE LET t == SearchReads(search, cells, [s EXCEPT !.visiting = @ \cup {name}], name)
       IN IF t.cycle THEN t
          ELSE [t EXCEPT !.visiting = @ \ {name}, !.done = @ \cup {name}]

\* The depth-first search from a name, which is over when a cycle is found.
Search(cells) ==
  LET search[at \in Visits(cells) \X Nodes(cells)] ==
        IF at[1].cycle THEN at[1] ELSE Visit(search, cells, at[1], at[2])
  IN search

Cyclic(cells) ==
  FoldLeft(LAMBDA s, c : Search(cells)[<<s, c.name>>], Unvisited, cells).cycle

LintClean(cells) ==
  /\ cells # <<>> /\ ValidNames(cells)
  /\ ~Duplicated(cells)
  /\ \A c \in Range(cells) :
       /\ \A g \in Range(c.givens) : ~Dangling(cells, g)
       /\ c.yields # <<>>
       /\ ~(c.type = "stem" /\ c.body = <<>>)
  /\ ~Cyclic(cells)
=============================================================================
