------------------------------ MODULE MCPour ------------------------------
(***************************************************************************)
(* Instances of PourReset whose files are compiled by Compiler: every      *)
(* program of one or two cells of a menu, in both syntaxes where both can  *)
(* write it, and some of three cells, poured by a client that is alone;    *)
(* and races of two clients and a piston over a few small files.           *)
(***************************************************************************)
EXTENDS PourReset, CellPrograms

y(f) == [field |-> f, value |-> ""]
bound(f) == [field |-> f, value |-> "1"]
reads(s, f) == Given(s, f, FALSE)
prose == <<[tag |-> "prose", indent |-> FALSE]>>
notEmpty == [type |-> "deterministic", cond |-> "not_empty", cell |-> <<>>]
permutes(s) == [type |-> "deterministic", cond |-> "permutation", cell |-> s]
margin == <<[tag |-> "cell", indent |-> FALSE, name |-> <<"t">>, type |-> "soft"],
            [tag |-> "fence", indent |-> FALSE], [tag |-> "prose", indent |-> FALSE]>>

cell(name, type, givens, yields, body, oracles) ==
  [NewCell(name, type, 0) EXCEPT !.givens = givens, !.yields = yields,
                                 !.body = body, !.oracles = oracles]
loop(c, times, guard) == [c EXCEPT !.iterate = times, !.guard = guard]

Menu == <<
  \* 1: literals, one of them poured frozen; readers; a stem
  cell(<<"t">>, "hard", <<>>, <<bound("x")>>, <<>>, <<>>),
  cell(<<"k">>, "hard", <<>>, <<bound("x"), bound("y")>>, <<>>, <<>>),
  cell(<<"s">>, "soft", <<reads(<<"t">>, "x")>>, <<y("y")>>, prose, <<notEmpty>>),
  cell(<<"o">>, "soft", <<Given(<<"t">>, "x", TRUE)>>, <<y("x")>>, prose, <<SemanticOracle>>),
  cell(<<"w">>, "stem", <<reads(<<"s">>, "y")>>, <<y("z")>>, prose, <<>>),
  \* 6: loops, with a judge and with a guard, and who reads them
  loop(cell(<<"r">>, "soft", <<reads(<<"t">>, "x")>>, <<y("x")>>, prose, <<SemanticOracle>>), 2, ""),
  loop(cell(<<"q">>, "stem", <<reads(<<"t">>, "x"), reads(<<"k">>, "y")>>,
            <<y("x"), y("y")>>, prose, <<>>), 3, "y"),
  cell(<<"e">>, "soft", <<reads(<<"r">>, "x")>>, <<y("z")>>, <<>>, <<>>),
  cell(<<"g">>, "soft", <<reads(<<"r", "*">>, "x")>>, <<y("x"), y("z")>>, prose,
       <<SemanticOracle>>),
  cell(<<"i">>, "soft", <<reads(<<"r", "1">>, "x")>>, <<y("z")>>, prose, <<permutes(<<"r", "1">>)>>),
  cell(<<"v">>, "soft", <<reads(<<"r", "2", "judge", "1">>, "verdict")>>, <<y("z")>>, prose, <<>>),
  \* 12: the name of another, in a cycle; bodies that run; no yields; itself
  cell(<<"t">>, "soft", <<reads(<<"w">>, "z")>>, <<y("x")>>, prose, <<>>),
  cell(<<"d">>, "hard", <<reads(<<"t">>, "x")>>, <<y("x")>>,
       <<[tag |-> "sql", indent |-> FALSE]>>, <<permutes(<<"t">>)>>),
  cell(<<"m">>, "hard", <<>>, <<y("x")>>, <<[tag |-> "dml", indent |-> FALSE]>>, <<>>),
  cell(<<"n">>, "soft", <<reads(<<"t">>, "x")>>, <<>>, prose, <<>>),
  cell(<<"u">>, "soft", <<reads(<<"u">>, "x")>>, <<y("x")>>, prose, <<>>),
  \* 17: a body like a program; literals by half; a name that is none
  cell(<<"b">>, "soft", <<>>, <<y("x")>>, margin, <<notEmpty>>),
  cell(<<"h">>, "hard", <<>>, <<bound("x"), y("y")>>, <<>>, <<>>),
  cell(<<"p">>, "hard", <<>>, <<bound("x")>>, prose, <<>>),
  cell(<<"1">>, "soft", <<>>, <<y("x")>>, prose, <<>>),
  \* 21: a loop over a loop, a gather of no loop, a step by hand, cycles, a
  \* step that does not exist
  loop(cell(<<"f">>, "soft", <<reads(<<"r">>, "x")>>, <<y("x")>>, prose, <<>>), 2, ""),
  cell(<<"c">>, "soft", <<reads(<<"t", "*">>, "x")>>, <<y("z")>>, prose, <<>>),
  cell(<<"r", "1">>, "hard", <<>>, <<bound("x")>>, <<>>, <<>>),
  loop(cell(<<"r">>, "soft", <<reads(<<"e">>, "z")>>, <<y("z")>>, prose, <<>>), 2, ""),
  loop(cell(<<"r">>, "soft", <<reads(<<"g">>, "x")>>, <<y("x")>>, prose, <<>>), 2, ""),
  cell(<<"j">>, "soft", <<reads(<<"r", "3">>, "x")>>, <<y("z")>>, prose, <<>>),
  \* 27: a loop that gathers a loop; a literal that is bound to nothing
  loop(cell(<<"a">>, "soft", <<reads(<<"r", "*">>, "x")>>, <<y("x")>>, prose, <<>>), 2, ""),
  cell(<<"l">>, "hard", <<>>, <<y("x")>>, <<>>, <<>>)
>>

\* A file: a syntax and the numbers of its cells.
Source(f) == [i \in DOMAIN f[2] |-> Menu[f[2][i]]]

Items == DOMAIN Menu
Pairs == {<<i>> : i \in Items} \cup (Items \X Items)
Triples == ({1} \X Items \X Items) \cup {<<3, 5, 12>>}

SoloFiles ==
  {f \in ({"v2"} \X (Pairs \cup Triples)) \cup ({"v1"} \X Pairs) :
     f[1] = "v1" => HasV1(Source(f))}

Literal == <<"v2", <<1>>>>
Other   == <<"v2", <<12>>>>
Early   == <<"v2", <<3, 1>>>>
Stem    == <<"v2", <<5>>>>
Broken  == <<"broken", <<1>>>>

\* What a piston is told to write (src/tools/pour-prompt.md): the cells and what
\* belongs to them, without frames and without values, under ids that name the
\* cell but not, except for cells, the program.
Prescribed(program, cells) ==
  LET owned(r) == SubSeq(r.cell, Len(program) + 1, Len(r.cell))
      written(r) ==
        CASE r.table = "cells"   -> [r EXCEPT !.state = "declared"]
          [] r.table = "givens"  -> [r EXCEPT !.id = <<"g">> \o owned(r) \o <<r.field>>]
          [] r.table = "yields"  -> [r EXCEPT !.id = <<"y">> \o owned(r) \o <<r.field>>,
                                              !.frame = <<>>, !.value = NothingSent, !.frozen = FALSE]
          [] r.table = "oracles" -> [r EXCEPT !.id = <<"o">> \o owned(r) \o <<Last(@)>>]
      compiled == SelectSeq(Compile(program, cells), LAMBDA r : r.table # "frames")
  IN [i \in DOMAIN compiled |-> written(compiled[i])]

\* A piston does as it is told, or writes something the sandbox stops.
MCAnswers == {"good", "blocked"}

\* What becomes of a file poured as program.
File(program, f) ==
  LET parsed == Parse(Written(f[1], Source(f)))
  IN [source  |-> f,
      hash    |-> ToString(f),
      reading |-> IF parsed = <<>> THEN "nil"
                  ELSE IF ValidNames(parsed) THEN "cells" ELSE "error",
      script  |-> Compile(program, parsed),
      answers |-> [good    |-> Prescribed(program, Source(f)),
                   blocked |-> <<[table |-> "trace"]>>]]

Prog == <<"p">>
pour(f)  == [op |-> "pour", program |-> Prog, file |-> File(Prog, f)]
eval(f)  == [op |-> "eval", program |-> Prog, file |-> File(Prog, f)]
reset(p) == [op |-> "reset", program |-> p]
pourZero == [op |-> "pour", program |-> CellZero, file |-> File(CellZero, Literal)]

Run(first, second, workers, deaths) ==
  [todo |-> [c1 |-> first, c2 |-> second], crew |-> workers, crashes |-> deaths]

SoloSessions == {Run(<<pour(f)>>, <<>>, {}, 0) : f \in SoloFiles}
RaceSessions == {
  Run(<<pour(Literal)>>, <<pour(Literal)>>, {}, 1),
  Run(<<pour(Literal)>>, <<pour(Other)>>, {}, 1),
  Run(<<pour(Literal)>>, <<reset(Prog), pour(Literal)>>, {"p1"}, 0),
  Run(<<pour(Stem), reset(Prog), pour(Literal)>>, <<>>, {"p1"}, 1),
  Run(<<pour(Literal), reset(Prog), pour(Stem), reset(Prog)>>, <<>>, {"p1"}, 0),
  Run(<<pour(Broken)>>, <<pour(Broken)>>, {}, 1),
  Run(<<pour(Broken)>>, <<pour(Broken)>>, {"p1"}, 0),
  Run(<<pour(Broken)>>, <<reset(PourProgram(Prog, File(Prog, Broken)))>>, {"p1"}, 0),
  Run(<<pourZero, eval(Literal), eval(Other)>>, <<eval(Literal), reset(CellZero)>>, {}, 1)}

MCSessions == SoloSessions \cup RaceSessions
EarlySessions == {Run(<<pour(Early)>>, <<>>, {"p1"}, 0)}
MCClients == {"c1", "c2"}
MCPistons == {"p1"}
MCNoRow == [table |-> "none"]

-----------------------------------------------------------------------------
(* What the compiler owes, of every program poured by a client alone.      *)

\* The pour of c is over and nobody else was there.
PouredAlone(c) ==
  /\ todo[c] # <<>> /\ pc[c] = "ended" /\ Command(c).op = "pour"
  /\ crew = {} /\ \A d \in Clients \ {c} : todo[d] = <<>>

Asked(c) == Source(Command(c).file.source)

\* Both parsers give back the program that was written down, clause by clause:
\* nothing of a body is taken for a declaration, nothing is credited to the
\* cell before or after.
ReadsAsWritten ==
  \A c \in Clients : PouredAlone(c) => ReadsBack(Command(c).file.source[1], Asked(c))

\* What is poured was a program.
ASSUME ProgramsAssumption ==
  \A k \in Pours : LET cells == Source(k.file.source) IN
    k.program \in Seq(STRING) /\ IsProgram(cells) /\ NumbersDiffer(cells)

\* The linter's search finds a cycle exactly when there is one.
CycleSearchRight == \A c \in Clients : PouredAlone(c) => CyclesFound(Asked(c))

Clean(cells) == LintClean(cells) /\ Careful(cells)

\* What is inserted is what the compiler makes of what the parser has read.
ASSUME FilesAssumption ==
  \A k \in Pours : LET f == k.file.source IN
    k.file.script = Compile(k.program, Parse(Written(f[1], Source(f))))

\* A program that ct lint passes and whose author was careful is poured at
\* once, every input of it exists, and its cells can all be evaluated.
CleanProgramsRun ==
  \A c \in Clients : PouredAlone(c) /\ Clean(Asked(c)) =>
    /\ outcome[c] = "poured"
    /\ InputsExist(rows) /\ Completes(rows)

\* The pour of c succeeded, and nobody else has touched its program since it
\* began.  Others may be busy with other programs.
PouredUndisturbed(c) ==
  /\ todo[c] # <<>> /\ pc[c] = "ended" /\ Command(c).op = "pour"
  /\ outcome[c] = "poured" /\ touched[c] = {}

\* The cells of a program, with their givens, yields and oracles.
RowsOf(program) ==
  CellsOf(program) \cup
  {r \in rows : r.table \in Owned /\ \E q \in CellsOf(program) : q.id = r.cell}

\* A loop with one field to chain is chained: each step reads the one before
\* and what the judges said of it, readers read the last step, or all.
LoopsChain ==
  \A c \in Clients : PouredUndisturbed(c) /\ Clean(Asked(c)) =>
    LET T == RowsOf(Command(c).program)
    IN \A l \in Templates(Asked(c)) : Cardinality(Chaining(l)) = 1 =>
         /\ \A field \in Chaining(l) : Chained(l, T, field)
         /\ FedBack(l, T)
         /\ ReadAtEnd(l, Asked(c), T)

\* Every prose assertion of every cell and step has its judge, which waits for
\* all that it has to judge.
JudgesSeeAll ==
  \A c \in Clients : PouredUndisturbed(c) /\ Clean(Asked(c)) =>
    \A d \in Range(Asked(c)) : Judged(d, RowsOf(Command(c).program))
=============================================================================
