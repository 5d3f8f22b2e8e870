--------------------------- MODULE CellPrograms ---------------------------
(***************************************************************************)
(* What the compiler is measured by: how a program is written down in the  *)
(* two syntaxes, what a careful author keeps to beyond what ct lint checks *)
(* and what the poured rows must be like for the program to run.           *)
(***************************************************************************)
EXTENDS Compiler

\* The bodies whose evaluation freezes the yields.
Evaluated == {"literal", "sql", "soft", "stem"}

\* A list of cells, each with its name, its lists and how often it is repeated.
IsProgram(cells) ==
  /\ cells \in Seq(Range(cells))
  /\ \A c \in Range(cells) :
       /\ c = [name |-> c.name, type |-> c.type, body |-> c.body, givens |-> c.givens,
               yields |-> c.yields, oracles |-> c.oracles, iterate |-> c.iterate,
               guard |-> c.guard]
       /\ c.name \in Seq(STRING) /\ c.name # <<>> /\ c.iterate \in Nat
       /\ c.givens \in Seq([source : Seq(STRING), field : STRING, optional : BOOLEAN])
       /\ \A g \in Range(c.givens) : g.source # <<>>
       /\ c.yields \in Seq([field : STRING, value : STRING])
       /\ c.oracles \in Seq([type : STRING, cond : STRING, cell : Seq(STRING)])

Fields(seq) == {seq[i].field : i \in DOMAIN seq}

-----------------------------------------------------------------------------
(* Writing a program down.                                                 *)

Line(tag)  == [tag |-> tag, indent |-> TRUE]
Blank      == [tag |-> "blank", indent |-> FALSE]
Comment    == [tag |-> "comment", indent |-> FALSE]
Margin(l)  == [l EXCEPT !.indent = FALSE]

GivenLine(g, v) ==
  LET bracket == v = 2 /\ Len(g.source) > 1 /\ Last(g.source) \in {"*", "1", "2", "3"}
  IN [tag |-> "given", indent |-> TRUE, v |-> v, field |-> g.field,
      optional |-> g.optional,
      source |-> IF bracket THEN Front(g.source) ELSE g.source,
      index  |-> IF bracket THEN Last(g.source) ELSE ""]

\* What makes a cell hard that has neither a body nor a value is that its
\* fields are bound to nothing.
YieldLine(c, y, v) ==
  [tag |-> "yield", indent |-> TRUE, v |-> v, field |-> y.field, value |-> y.value,
   bound |-> \/ y.value # ""
             \/ c.type = "hard" /\ c.body = <<>> /\ \A z \in Range(c.yields) : z.value = ""]

\* Permutations are always of x here.
OracleLine(o, semantic, classified) ==
  IF o.type = "semantic" THEN Line(semantic)
  ELSE [tag |-> classified, indent |-> TRUE, asserts |-> o.cond, field |-> "x"]

\* A declaration in a body stands at the margin, other lines are indented.
BodyLine(l) == IF l.tag \in {"cell", "fence"} THEN l ELSE [l EXCEPT !.indent = TRUE]

\* A loop without a guard is written iterate NAME N, or with a recur clause.
CellV2(c) ==
  LET sugar == c.iterate > 0 /\ c.guard = "" /\ c.type # "stem"
  IN <<IF sugar THEN [tag |-> "iterate", indent |-> FALSE, name |-> c.name, times |-> c.iterate]
       ELSE [tag |-> "cell", indent |-> FALSE, name |-> c.name,
             type |-> IF c.type = "stem" THEN "stem" ELSE "soft"],
       Comment>>
     \o [i \in DOMAIN c.givens |-> GivenLine(c.givens[i], 2)]
     \o [i \in DOMAIN c.yields |-> YieldLine(c, c.yields[i], 2)]
     \o (IF c.iterate = 0 \/ sugar THEN <<>>
         ELSE <<[tag |-> "recur", indent |-> TRUE, times |-> c.iterate, guard |-> c.guard]>>)
     \o (IF c.body = <<>> THEN <<>>
         ELSE <<Line("fence")>> \o [i \in DOMAIN c.body |-> BodyLine(c.body[i])]
              \o <<Blank, Line("fence")>>)
     \o [i \in DOMAIN c.oracles |-> OracleLine(c.oracles[i], "check~", "check")]
     \o <<Blank>>

BodySign(c) ==
  CASE c.type = "hard" -> "equals" [] c.type = "stem" -> "therefore2" [] OTHER -> "therefore"

CellV1(c) ==
  <<[tag |-> IF c.iterate > 0 THEN "loop" ELSE "turnstile", indent |-> FALSE,
     name |-> c.name, times |-> c.iterate], Comment>>
  \o [i \in DOMAIN c.givens |-> GivenLine(c.givens[i], 1)]
  \o [i \in DOMAIN c.yields |-> YieldLine(c, c.yields[i], 1)]
  \o (IF c.body = <<>> THEN <<>>
      ELSE <<[tag |-> BodySign(c), indent |-> TRUE, text |-> Head(c.body)]>>
           \o [i \in DOMAIN Tail(c.body) |-> BodyLine(Tail(c.body)[i])] \o <<Blank>>)
  \o [i \in DOMAIN c.oracles |-> OracleLine(c.oracles[i], "models~", "models")]

\* v1 has no guard, and a line of a body must not look like anything else.
HasV1(cells) ==
  \A c \in Range(cells) :
    /\ c.guard = ""
    /\ \A i \in DOMAIN c.body : c.body[i].tag \in {"prose", "sql", "dml", "blank"}

Written(syntax, cells) ==
  LET lines == FlattenSeq([i \in DOMAIN cells |->
                 IF syntax = "v1" THEN CellV1(cells[i]) ELSE CellV2(cells[i])])
  IN IF syntax = "broken" THEN Append(lines, Line("broken")) ELSE lines

\* Both parsers give back the program that was written down: no clause is lost
\* or credited to another cell, and what stands in a body stays there.
ReadsBack(syntax, cells) == Parse(Written(syntax, cells)) = cells

-----------------------------------------------------------------------------
(* The cycle check against its definition.                                 *)

\* Going round in N, each name read by another one of N.
Loop(cells, N) ==
  N # {} /\ \A n \in N : \E d \in N \ {n} : d \in Range(ReadsOf(cells, n))

\* The search finds a cycle exactly when there is one.  A name that reads
\* itself is none.
CyclesFound(cells) == Cyclic(cells) <=> \E N \in SUBSET Nodes(cells) : Loop(cells, N)

-----------------------------------------------------------------------------
(* What ct lint does not check.                                            *)

\* The cell of the source that a name, or the name before a bracket, stands for.
BaseName(cells, name) ==
  IF \E k \in 1..Len(name) : SubSeq(name, 1, k) \in Names(cells)
  THEN SubSeq(name, 1, Min({k \in 1..Len(name) : SubSeq(name, 1, k) \in Names(cells)}))
  ELSE name

Position(cells, name) == Min({i \in DOMAIN cells : cells[i].name = name})

\* The field is one the cell yields, if there is such a cell, and only a loop
\* is gathered; a judge is the judge of the last step.
FieldThere(cells, g) ==
  IF IsJudge(g.source)
  THEN g.field = "verdict" /\ \E c \in Range(cells) : \E j \in Semantic(c) :
         g.source = JudgeName(IF c.iterate = 0 THEN c.name ELSE StepName(c.name, c.iterate), j)
  ELSE \A c \in Range(cells) : c.name \in {g.source, Front(g.source)} =>
         /\ g.field \in Fields(c.yields)
         /\ Last(g.source) = "*" => c.iterate > 0

Brackets(cells) ==
  \E c \in Range(cells) : \E g \in Range(c.givens) : g.source \notin Names(cells)

\* Steps are told apart by their numbers.
NumbersDiffer(cells) ==
  \A c \in Range(cells) : \A i, j \in 1..c.iterate : Word(i) = Word(j) => i = j

\* No name can be mistaken for another cell's, nor for a step or judge of one.
Unambiguous(cells) ==
  \A i, j \in DOMAIN cells : i # j => ~IsPrefix(cells[i].name, cells[j].name)

\* What a judged loop chains is not to be taken for the verdict on it.
NoVerdict(c) == c.iterate > 0 /\ Semantic(c) # {} => "verdict" \notin Fields(c.yields)

\* Unambiguous names, nothing listed twice, bodies that run, and references to
\* what is there.
Careful(cells) ==
  /\ Unambiguous(cells)
  /\ \A c \in Range(cells) : NoVerdict(c)
  /\ \A i \in DOMAIN cells :
       LET c == cells[i]
           resolved == Resolve(cells)[i]
       IN /\ Cardinality(Range(c.yields)) = Len(c.yields)
          /\ Cardinality({<<g.source, g.field>> : g \in Range(resolved.givens)}) = Len(resolved.givens)
          \* all yields of a literal are bound, none of another cell
          /\ c.type = "hard" /\ c.body = <<>> => \A y \in Range(c.yields) : y.value # ""
          /\ BodyKind(c) \in Evaluated
          /\ \A g \in Range(c.givens) :
               /\ FieldThere(cells, g)
               \* where there are brackets, every given looks back
               /\ \/ g.source # c.name /\ ~Brackets(cells)
                  \/ Position(cells, BaseName(cells, g.source)) < i
               \* a loop neither reads a loop by its bare name nor gathers one
               /\ c.iterate > 0 => ~IsTemplate(cells, g.source) /\ Last(g.source) # "*"
          /\ \A o \in Range(c.oracles) :
               o.cond = "permutation" => \E g \in Range(c.givens) : /\ g.source = o.cell
                                                                   /\ ~IsTemplate(cells, o.cell)
                                                                   /\ Last(o.cell) # "*"

-----------------------------------------------------------------------------
(* The poured rows T of a program.                                         *)

TableOf(T, table) == {r \in T : r.table = table}

GivensOf(T, name) ==
  {g \in TableOf(T, "givens") : \E r \in TableOf(T, "cells") : r.name = name /\ r.id = g.cell}

\* The yields the given g may read.
YieldsRead(T, g) ==
  {y \in TableOf(T, "yields") :
     /\ y.field = g.field
     /\ \E r \in TableOf(T, "cells") : r.name = g.source /\ r.id = y.cell}

\* Every given, and every oracle that compares, has something to look at.
InputsExist(T) ==
  /\ \A g \in TableOf(T, "givens") : YieldsRead(T, g) # {}
  /\ \A o \in TableOf(T, "oracles") :
       o.cond = "permutation" => \E r \in TableOf(T, "cells") : r.name = o.of

\* The yields frozen after one more round, in which every cell whose
\* non-optional givens are frozen is evaluated.
Round(T, frozen) ==
  frozen \cup {y \in TableOf(T, "yields") :
    \E r \in TableOf(T, "cells") :
      /\ r.id = y.cell /\ r.body \in Evaluated
      /\ \A g \in TableOf(T, "givens") :
           g.cell = r.id /\ ~g.optional => YieldsRead(T, g) \cap frozen # {}}

\* In as many rounds as there are cells, every yield is frozen.
Completes(T) ==
  LET yields == TableOf(T, "yields")
  IN yields = FoldSet(LAMBDA r, frozen : Round(T, frozen),
                      {y \in yields : y.frozen}, TableOf(T, "cells"))

Sources(T, name, field) == {g.source : g \in {h \in GivensOf(T, name) : h.field = field}}

Chaining(c) == Fields(c.givens) \cap Fields(c.yields)

\* In the steps of c, field comes from the step before.
Chained(c, T, field) ==
  \A i \in 2..c.iterate : Sources(T, StepName(c.name, i), field) = {StepName(c.name, i - 1)}

\* The verdicts on a step are fed to the next, which does not wait for them.
FedBack(c, T) ==
  \A i \in 2..c.iterate, j \in Semantic(c) :
    \E g \in GivensOf(T, StepName(c.name, i)) :
      /\ g.source = JudgeName(StepName(c.name, i - 1), j) /\ g.optional
      /\ YieldsRead(T, g) # {}

\* Who reads the loop c reads its last step; who gathers it, all of them.
ReadAtEnd(c, cells, T) ==
  \A d \in Range(cells) \ Templates(cells) : \A g \in Range(d.givens) :
    /\ g.source = c.name =>
         StepName(c.name, c.iterate) \in Sources(T, d.name, g.field)
    /\ g.source = Append(c.name, "*") =>
         {StepName(c.name, i) : i \in 1..c.iterate} \subseteq Sources(T, d.name, g.field)

StepsOf(c) == IF c.iterate = 0 THEN {c.name}
              ELSE {StepName(c.name, i) : i \in 1..c.iterate}

\* Every prose assertion has a judge that waits for all it is to judge.
Judged(c, T) ==
  \A n \in StepsOf(c), j \in Semantic(c) :
    /\ \E r \in TableOf(T, "cells") : r.name = JudgeName(n, j) /\ r.body = "stem"
    /\ {<<g.source, g.field, g.optional>> : g \in GivensOf(T, JudgeName(n, j))}
         = {<<n, field, FALSE>> : field \in Fields(c.yields)}
=============================================================================
