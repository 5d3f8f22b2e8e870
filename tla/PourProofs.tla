----------------------------- MODULE PourProofs -----------------------------
(* Theorems about PourReset, for any clients, pistons, sessions and answers *)
(* that the assumptions of PourReset admit.                                 *)
EXTENDS PourReset, SequenceTheorems, TLAPS

-----------------------------------------------------------------------------
(* The rows of the tables.                                                 *)

IsCell(id, program, name) ==
  \E q \in PossibleCells : q.id = id /\ q.program = program /\ q.name = name
CellOf(id, program) == \E q \in PossibleCells : q.id = id /\ q.program = program

FrameId(id, g) == <<"f">> \o id \o <<ToString(g)>>

\* A row that belongs to program.
RowFor(program, r) ==
  /\ r.table \in Allowed \cup {"claims"}
  /\ Columns(r.table) \subseteq DOMAIN r
  /\ r.table = "cells" => r.program = program /\ IsCell(r.id, program, r.name)
  /\ r.table = "frames" => /\ r.program = program
                           /\ \E q \in PossibleCells, g \in Nat :
                                /\ q.program = program /\ q.name = r.name
                                /\ r.id = FrameId(q.id, g)
  /\ r.table \in Owned \cup {"claims"} => CellOf(r.cell, program)

\* What is frozen in the yield of a cell that parses is an answer.
AnswerOK(r) ==
  r.table = "yields" /\ r.frozen /\ r.field = "sql" /\ r.value # NothingSent =>
    \A k \in Pours : r.cell = ParseCell(k.program, k.file).id => r.value \in Answers

\* Givens, yields and oracles have their cell.
HasCell(r) == \E q \in rows : q.table = "cells" /\ q.id = r.cell

RowsOK ==
  \A r \in rows : /\ \E program : RowFor(program, r)
                  /\ AnswerOK(r)
                  /\ r.table \in Owned => HasCell(r)

\* An update of state, value or frozen.
Same(r, s) ==
  /\ s.table = r.table /\ s.id = r.id /\ DOMAIN s = DOMAIN r
  /\ r.table = "cells" => /\ s.program = r.program /\ s.name = r.name
                          /\ "body" \in DOMAIN r => s.body = r.body
  /\ r.table \in Owned => s.cell = r.cell
  /\ r.table = "yields" => s.field = r.field /\ (r.frozen => s = r)
  /\ r.table \notin {"cells", "yields"} => s = r

-----------------------------------------------------------------------------
(* What a command may do to the tables and to the memory of the others.    *)

\* a inserts a row of program, or finds it there.
Adds(a, program) ==
  /\ Touch(a, "insert", program)
  /\ \/ UNCHANGED rows
     \/ \E r : /\ RowFor(program, r) /\ AnswerOK(r)
               /\ Accepts(r) /\ rows' = rows \cup {r}

\* Rows are updated where they are.
Marks ==
  /\ touched' = touched
  /\ \A r \in rows : \E s \in rows' : Same(r, s)
  /\ \A s \in rows' : AnswerOK(s) /\ \E r \in rows : Same(r, s)

\* A claim is given back.
Unclaims ==
  /\ touched' = touched
  /\ rows' \subseteq rows
  /\ \A r \in rows : r \in rows' \/ r.table = "claims"

\* d empties its next table.
Deletes(d) ==
  LET program == Command(d).program  table == DeletionOrder[loc[d].at]
  IN /\ pc[d] = "delete" /\ loc[d].at <= Len(DeletionOrder)
     /\ rows' = IF Refused(table, program) THEN rows ELSE rows \ Doomed(table, program)
     /\ Touch(d, "delete", program)

\* Nothing happens to the tables; the command of c may begin.
Quiet(c) ==
  /\ UNCHANGED rows
  /\ touched' = touched \/ touched' = [touched EXCEPT ![c] = {}]

-----------------------------------------------------------------------------
(* Ids.                                                                    *)

\* Frames with one id are frames of cells with one id: their ids differ from
\* those of the cells by a letter before and one after.
LEMMA FrameIdInjective ==
  ASSUME NEW a, IsId(a), NEW b, IsId(b), NEW g, NEW h,
         FrameId(a, g) = FrameId(b, h)
  PROVE  a = b
<1>1. ASSUME NEW x, NEW y, NEW z, <<z>> \o a \o <<x>> = <<z>> \o b \o <<y>>
      PROVE  a = b
  <2> DEFINE A == {a[i] : i \in DOMAIN a}
             B == {b[i] : i \in DOMAIN b}
             S == A \cup B \cup {x, y, z}
  <2>1. a \in Seq(A) /\ b \in Seq(B)
    BY DEF IsId
  <2>2. A \subseteq S /\ B \subseteq S /\ x \in S /\ y \in S /\ z \in S
    OBVIOUS
  <2> HIDE DEF A, B, S
  <2>3. a \in Seq(S) /\ b \in Seq(S)
    BY <2>1, <2>2, SeqMonotonic
  <2>4. /\ Len(<<z>> \o a \o <<x>>) = Len(a) + 2
        /\ Len(<<z>> \o b \o <<y>>) = Len(b) + 2
        /\ Len(a) \in Nat /\ Len(b) \in Nat
    BY <2>2, <2>3
  <2>5. Len(a) = Len(b)
    BY <1>1, <2>4
  <2>6. /\ \A i \in 1..Len(a) : a[i] = (<<z>> \o a \o <<x>>)[i + 1]
        /\ \A i \in 1..Len(b) : b[i] = (<<z>> \o b \o <<y>>)[i + 1]
    BY <2>2, <2>3
  <2>7. \A i \in 1..Len(a) : a[i] = b[i]
    BY <1>1, <2>5, <2>6
  <2> QED BY <2>3, <2>5, <2>7, SeqEqual
<1> QED BY <1>1 DEF FrameId

\* One id is one cell, of one program.
LEMMA OneCell ==
  ASSUME NEW id, NEW P, NEW Q, NEW n, NEW m
  PROVE  /\ IsCell(id, P, n) /\ IsCell(id, Q, m) => P = Q /\ n = m
         /\ IsCell(id, P, n) => CellOf(id, P) /\ IsId(id)
         /\ CellOf(id, P) /\ CellOf(id, Q) => P = Q
BY NamesAssumption, SessionsAssumption DEF IsCell, CellOf

\* What a command can delete of program Q is of Q.
LEMMA DoomedOfProgram ==
  ASSUME RowsOK, NEW r \in rows, NEW P, RowFor(P, r),
         NEW t, NEW Q, r \in Doomed(t, Q)
  PROVE  P = Q
<1>1. CASE r.table \in {"cells", "frames"}
  BY <1>1 DEF Doomed, RowFor
<1>2. CASE r.table \notin {"cells", "frames"}
  <2>1. CellOf(r.cell, P)
    BY <1>2 DEF RowFor, Allowed, Owned
  <2>2. PICK q \in CellsOf(Q) : q.id = r.cell
    BY <1>2 DEF Doomed
  <2>3. IsCell(q.id, Q, q.name)
    BY <2>2 DEF RowsOK, RowFor, CellsOf
  <2> QED BY <2>1, <2>2, <2>3, OneCell
<1> QED BY <1>1, <1>2

\* A row is what it is.
LEMMA SameRefl == ASSUME NEW r PROVE Same(r, r)
BY DEF Same

\* An update keeps to whom a row belongs.
LEMMA SameFor ==
  ASSUME NEW r, NEW s, Same(r, s), NEW P, RowFor(P, r)
  PROVE  RowFor(P, s)
BY DEF Same, RowFor, Allowed, Owned

\* An update of an update is an update.
LEMMA SameTrans ==
  ASSUME NEW r, NEW s, NEW t, Same(r, s), Same(s, t)
  PROVE  Same(r, t)
BY DEF Same, Owned

-----------------------------------------------------------------------------
(* The tables after a step.                                                *)

Effect(a) ==
  \/ Quiet(a) \/ Marks \/ Unclaims \/ Deletes(a)
  \/ \E P : Adds(a, P)

\* Whatever is done, the rows stay rows of programs, and givens, yields and
\* oracles keep their cell.
LEMMA EffectKeepsRows ==
  ASSUME RowsOK, NEW a, Effect(a)
  PROVE  RowsOK'
<1>1. CASE UNCHANGED rows
  BY <1>1 DEF RowsOK, HasCell
<1>2. CASE Marks
  <2> SUFFICES ASSUME NEW s \in rows'
               PROVE  /\ \E P : RowFor(P, s)
                      /\ AnswerOK(s)
                      /\ s.table \in Owned => HasCell(s)'
    BY DEF RowsOK
  <2>1. PICK r \in rows : Same(r, s) /\ AnswerOK(s)
    BY <1>2 DEF Marks
  <2>2. \E P : RowFor(P, s)
    BY <2>1, SameFor DEF RowsOK
  <2>3. ASSUME s.table \in Owned PROVE HasCell(s)'
    <3>1. r.table \in Owned /\ r.cell = s.cell
      BY <2>1, <2>3 DEF Same
    <3>2. PICK q \in rows : q.table = "cells" /\ q.id = s.cell
      BY <3>1 DEF RowsOK, HasCell
    <3>3. PICK t \in rows' : Same(q, t)
      BY <1>2 DEF Marks
    <3> QED BY <3>2, <3>3 DEF Same, HasCell
  <2> QED BY <2>1, <2>2, <2>3
<1>3. CASE Unclaims
  <2>1. \A r \in rows : r.table = "cells" => r \in rows'
    BY <1>3 DEF Unclaims
  <2> QED BY <1>3, <2>1 DEF RowsOK, HasCell, Unclaims
<1>4. CASE Deletes(a)
  <2> DEFINE P == Command(a).program
             t == DeletionOrder[loc[a].at]
  <2>1. rows' = IF Refused(t, P) THEN rows ELSE rows \ Doomed(t, P)
    BY <1>4 DEF Deletes
  <2> HIDE DEF P, t
  <2>2. ASSUME NEW r \in rows', r.table \in Owned PROVE HasCell(r)'
    <3>1. PICK q \in rows : q.table = "cells" /\ q.id = r.cell
      BY <2>1, <2>2 DEF RowsOK, HasCell
    <3>2. CASE q \in rows'
      BY <3>1, <3>2 DEF HasCell
    <3>3. CASE q \notin rows'
      <4>1. q \in CellsOf(P) /\ t = "cells" /\ ~Refused(t, P)
        BY <2>1, <3>1, <3>3 DEF Doomed, CellsOf
      <4> QED BY <2>1, <2>2, <3>1, <4>1 DEF Refused
    <3> QED BY <3>2, <3>3
  <2> QED BY <2>1, <2>2 DEF RowsOK
<1>5. CASE \E P : Adds(a, P)
  <2>1. PICK P : Adds(a, P)
    BY <1>5
  <2>2. CASE UNCHANGED rows
    BY <2>2, <1>1
  <2>3. CASE rows' # rows
    <3>1. PICK r : /\ RowFor(P, r) /\ AnswerOK(r)
                   /\ Accepts(r) /\ rows' = rows \cup {r}
      BY <2>1, <2>3 DEF Adds
    <3> QED BY <3>1 DEF RowsOK, HasCell, Accepts
  <2> QED BY <2>2, <2>3
<1> QED BY <1>1, <1>2, <1>3, <1>4, <1>5 DEF Effect, Quiet

\* While no reset takes a program of c's command away, its rows stay.
LEMMA RowStays ==
  ASSUME RowsOK, NEW a, Effect(a), NEW c \in Clients, todo[c] # <<>>,
         pc[c] # "delete" \/ a # c, "delete" \notin touched'[c],
         NEW P \in Programs(c), NEW r \in rows, RowFor(P, r),
         r.table # "claims"
  PROVE  \E s \in rows' : Same(r, s)
<1>1. CASE r \in rows'
  BY <1>1, SameRefl
<1>2. CASE Marks
  BY <1>2 DEF Marks
<1>3. CASE Unclaims
  BY <1>3, SameRefl DEF Unclaims
<1>4. CASE Deletes(a) /\ r \notin rows'
  <2> DEFINE Q == Command(a).program
             t == DeletionOrder[loc[a].at]
  <2>1. r \in Doomed(t, Q) /\ Touch(a, "delete", Q) /\ pc[a] = "delete"
    BY <1>4 DEF Deletes
  <2> HIDE DEF Q, t
  <2>2. P = Q
    BY <2>1, DoomedOfProgram
  <2> QED BY <2>1, <2>2 DEF Touch
<1>5. CASE Quiet(a) \/ \E Q : Adds(a, Q)
  BY <1>5, SameRefl DEF Quiet, Adds
<1> QED BY <1>1, <1>2, <1>3, <1>4, <1>5 DEF Effect

\* After INSERT IGNORE of a frame there is a frame of that name: what was in
\* the way was one.
LEMMA FrameStands ==
  ASSUME RowsOK, NEW P, NEW f, RowFor(P, f), f.table = "frames", Insert(f)
  PROVE  \E q \in rows' : q.table = "frames" /\ q.program = f.program /\ q.name = f.name
<1>1. CASE Accepts(f)
  BY <1>1 DEF Insert
<1>2. CASE ~Accepts(f)
  <2>1. PICK q \in rows : Keys(q) \cap Keys(f) # {}
    BY <1>2 DEF Accepts, Owned
  <2>2. PICK k : k \in Keys(q) /\ k \in Keys(f)
    BY <2>1
  <2>3. k = <<"frames", f.id>> \/ k = <<"generation", f.program, f.name, f.gen>>
    BY <2>2 DEF Keys
  <2>4. PICK Q : RowFor(Q, q)
    BY DEF RowsOK
  <2>5. q.table \in {"cells", "frames", "givens", "yields", "oracles", "claims"}
    BY <2>4 DEF RowFor, Allowed
  <2>6. CASE k = <<"frames", f.id>>
    <3>1. q.table = "frames" /\ q.id = f.id
      BY <2>2, <2>5, <2>6 DEF Keys
    <3>2. PICK u \in PossibleCells, g \in Nat :
            u.program = f.program /\ u.name = f.name /\ f.id = FrameId(u.id, g)
      BY DEF RowFor
    <3>3. PICK v \in PossibleCells, h \in Nat :
            v.program = q.program /\ v.name = q.name /\ q.id = FrameId(v.id, h)
      BY <2>4, <3>1 DEF RowFor
    <3>4. u.id = v.id
      <4>1. IsId(u.id) /\ IsId(v.id)
        BY SessionsAssumption
      <4>2. FrameId(u.id, g) = FrameId(v.id, h)
        BY <3>1, <3>2, <3>3
      <4> QED BY <4>1, <4>2, FrameIdInjective
    <3>5. q.program = f.program /\ q.name = f.name
      BY <3>2, <3>3, <3>4, NamesAssumption
    <3> QED BY <1>2, <3>1, <3>5 DEF Insert
  <2>7. CASE k = <<"generation", f.program, f.name, f.gen>>
    <3>1. q.table = "frames" /\ q.program = f.program /\ q.name = f.name
      BY <2>2, <2>5, <2>7 DEF Keys
    <3> QED BY <1>2, <3>1 DEF Insert
  <2> QED BY <2>3, <2>6, <2>7
<1> QED BY <1>1, <1>2

-----------------------------------------------------------------------------
(* The control of the clients: what the local variables of a client hold   *)
(* at each of its labels, whatever is in the tables.                       *)

Success == {"poured", "answered"}
Pouring == {"insert", "frames", "cache", "exists", "createSource", "freezeSource",
            "createParse", "poll", "sandbox", "exec"}

AllFrames  == {FrameRow(q, 0) : q \in PossibleCells}
AnswersTo(k) == {k.file.answers[a] : a \in Answers}
AllScripts == {<<>>} \cup {k.file.script : k \in Pours} \cup UNION {AnswersTo(k) : k \in Pours}
Locals ==
  [at : Nat \ {0}, polls : 0..MaxPolls, frames : SUBSET AllFrames,
   sql : AllScripts, before : BOOLEAN]

\* A client whose commands are t stands at l with local variables r; its last
\* command ended with o.
CtlOf(t, l, r, o) ==
  /\ l # "ready" => t # <<>>
  /\ l \in Pouring \/ (l = "ended" /\ o \in Success \cup {"timeout"}) => Head(t) \in Pours
  /\ l \in {"request", "evalInsert"} => Head(t) \in Evals
  /\ l = "delete" \/ (l = "ended" /\ o = "reset") => Head(t).op = "reset"
  /\ l \in {"insert", "exec", "frames"} \/ (l = "ended" /\ o \in Success) =>
       r.sql \in Scripts(Head(t))
  /\ l \in {"sandbox", "exec"} \/ (l = "ended" /\ o = "answered") =>
       r.sql \in AnswersTo(Head(t))
  /\ l = "frames" \/ (l = "ended" /\ o \in Success) => r.at > Len(r.sql)
  /\ l = "frames" => \A f \in r.frames : f.program = Head(t).program
  /\ l \in {"exists", "freezeSource", "sandbox"} => r.at = 1
  /\ l = "createSource" => r.at <= 4
  /\ l = "createParse" => r.at <= 6
  /\ l = "delete" => r.at <= 7
  /\ l = "ended" /\ o = "reset" => r.at = 7

Control ==
  /\ todo \in [Clients -> Seq(Commands)]
  /\ pc \in [Clients -> Labels]
  /\ loc \in [Clients -> Locals]
  /\ outcome \in [Clients -> Outcomes]
  /\ \A c \in Clients : CtlOf(todo[c], pc[c], loc[c], outcome[c])

\* c moves to l, keeps r and has t before it; its command ended with o.
Moves(c, t, l, r, o) ==
  /\ t \in Seq(Commands) /\ l \in Labels /\ r \in Locals /\ o \in Outcomes
  /\ CtlOf(t, l, r, o)
  /\ todo' = [todo EXCEPT ![c] = t]
  /\ pc' = [pc EXCEPT ![c] = l]
  /\ loc' = [loc EXCEPT ![c] = r]
  /\ outcome' = [outcome EXCEPT ![c] = o]

OthersStay(a) ==
  \A d \in Clients \ {a} : /\ todo'[d] = todo[d] /\ pc'[d] = pc[d]
                           /\ loc'[d] = loc[d] /\ outcome'[d] = outcome[d]

\* A move that fits leaves the control well formed, that of the others as it was.
LEMMA MoveKeeps ==
  ASSUME Control, NEW c \in Clients, NEW t, NEW l, NEW r, NEW o, Moves(c, t, l, r, o)
  PROVE  Control' /\ OthersStay(c)
<1>1. /\ todo'[c] = t /\ pc'[c] = l /\ loc'[c] = r /\ outcome'[c] = o
      /\ OthersStay(c)
  BY DEF Control, Moves, OthersStay
<1>2. /\ todo' \in [Clients -> Seq(Commands)]
      /\ pc' \in [Clients -> Labels]
      /\ loc' \in [Clients -> Locals]
      /\ outcome' \in [Clients -> Outcomes]
  BY DEF Control, Moves
<1>3. ASSUME NEW d \in Clients
      PROVE  CtlOf(todo'[d], pc'[d], loc'[d], outcome'[d])
  <2>1. CASE d = c
    BY <1>1, <2>1 DEF Moves
  <2>2. CASE d # c
    BY <1>1, <2>2 DEF Control, OthersStay
  <2> QED BY <2>1, <2>2
<1> QED BY <1>1, <1>2, <1>3 DEF Control

\* What is known of a client at work, and how a client that stays in one
\* respect is written as one that moves.
LEMMA AtWork ==
  ASSUME Control, NEW c \in Clients
  PROVE  /\ loc[c] \in Locals /\ todo[c] \in Seq(Commands)
         /\ pc[c] \in Labels /\ outcome[c] \in Outcomes
         /\ CtlOf(todo[c], pc[c], loc[c], outcome[c])
         /\ todo[c] # <<>> => Head(todo[c]) \in Commands
         /\ todo = [todo EXCEPT ![c] = todo[c]]
         /\ loc = [loc EXCEPT ![c] = loc[c]]
         /\ pc = [pc EXCEPT ![c] = pc[c]]
         /\ outcome = [outcome EXCEPT ![c] = outcome[c]]
BY DEF Control

\* What the assumption on the sessions says of numbers, names and readings.
LEMMA Bounds ==
  /\ MaxPolls \in Nat /\ MaxGen \in Nat /\ "piston" \notin Clients
  /\ \A k \in Pours : k.file.reading \in {"cells", "nil", "error"}
<1>1. MaxPolls \in Nat 
  BY SessionsAssumption
<1>2. MaxGen \in Nat 
  BY SessionsAssumption
<1>3. "piston" \notin Clients
  BY SessionsAssumption
<1>4. \A k \in Pours : k.file.reading \in {"cells", "nil", "error"}
  BY SessionsAssumption
<1> QED BY <1>1, <1>2, <1>3, <1>4

\* The local variables of a command that starts have their type.
LEMMA NoLocalsType == NoLocals \in Locals /\ <<>> \in AllScripts
<1>1. <<>> \in AllScripts
  BY DEF AllScripts
<1> QED BY <1>1, Bounds DEF NoLocals, Locals

\* A counter that is set back, with another script or number of polls.
LEMMA BackToFirst ==
  ASSUME NEW r \in Locals
  PROVE  /\ [r EXCEPT !.at = 1] \in Locals
         /\ \A s \in AllScripts :
              LET u == [r EXCEPT !.at = 1, !.sql = s] IN u \in Locals /\ u.at = 1 /\ u.sql = s
         /\ \A n \in 0..MaxPolls :
              LET u == [r EXCEPT !.at = 1, !.polls = n] IN u \in Locals /\ u.at = 1
<1>1. [r EXCEPT !.at = 1] \in Locals /\ [r EXCEPT !.at = 1].at = 1
  BY DEF Locals
<1>2. ASSUME NEW v \in Locals, NEW s \in AllScripts
      PROVE  LET u == [v EXCEPT !.sql = s] IN u \in Locals /\ u.at = v.at /\ u.sql = s
  BY DEF Locals
<1>3. ASSUME NEW v \in Locals, NEW n \in 0..MaxPolls
      PROVE  [v EXCEPT !.polls = n] \in Locals /\ [v EXCEPT !.polls = n].at = v.at
  BY DEF Locals
<1> QED BY <1>1, <1>2, <1>3

\* Every step of a client keeps the control well formed, and is its own.
LEMMA ClientControl ==
  ASSUME Control, RowsOK, NEW c \in Clients, ClientStep(c) \/ Crash(c)
  PROVE  Control' /\ OthersStay(c)
<1> DEFINE t == todo[c]
           r == loc[c]
           o == outcome[c]
           k == Head(t)
<1>a. /\ r \in Locals /\ t \in Seq(Commands) /\ pc[c] \in Labels /\ o \in Outcomes
      /\ CtlOf(t, pc[c], r, o)
      /\ t # <<>> => k \in Commands
      /\ todo = [todo EXCEPT ![c] = t]
      /\ loc = [loc EXCEPT ![c] = r]
      /\ pc = [pc EXCEPT ![c] = pc[c]]
      /\ outcome = [outcome EXCEPT ![c] = o]
  BY AtWork
<1>b. /\ r.at \in Nat \ {0} /\ r.polls \in 0..MaxPolls /\ r.frames \subseteq AllFrames
      /\ r.sql \in AllScripts /\ r.before \in BOOLEAN
  BY <1>a DEF Locals
<1>c. pc[c] \in Pouring => k \in Pours /\ t # <<>>
  BY <1>a DEF CtlOf, Pouring
<1> USE DEF Goto, End, Labels, Outcomes, Command
<1>1. CASE PourCount(c)
  <2> DEFINE b == \E q \in Answered(k.program, k.file) : q.value # NothingSent
             s == [NoLocals EXCEPT !.before = b, !.sql = k.file.script]
             l == IF k.file.reading = "cells" THEN "insert" ELSE "cache"
  <2>1. k \in Pours /\ t # <<>> /\ k.file.reading \in {"cells", "nil", "error"}
    <3>1. k \in Pours /\ t # <<>>
      BY <1>1, <1>a DEF PourCount, Starts, Pours
    <3> QED BY <3>1, Bounds
  <2>2. CASE CellsOf(k.program) # {} \/ k.file.reading = "error"
    <3>1. Moves(c, t, "ended", r, "refused")
      BY <1>1, <1>a, <2>1, <2>2 DEF PourCount, Starts, Moves, CtlOf, Pouring, Success
    <3> QED BY <3>1, MoveKeeps
  <2>3. CASE ~(CellsOf(k.program) # {} \/ k.file.reading = "error")
    <3>0. b \in BOOLEAN
      OBVIOUS
    <3> HIDE DEF b
    <3>1. s \in Locals /\ s.sql = k.file.script
      <4>1. k.file.script \in AllScripts
        BY <2>1 DEF AllScripts
      <4>2. s.sql = k.file.script
        BY DEF NoLocals
      <4> QED BY <3>0, <4>1, <4>2, NoLocalsType DEF Locals
    <3>2. l = "insert" => s.sql \in Scripts(k)
      <4>1. CASE k.file.reading = "cells"
        <5> HIDE DEF s, l
        <5> QED BY <3>1, <4>1 DEF Scripts
      <4>2. CASE k.file.reading # "cells"
        BY <4>2
      <4> QED BY <4>1, <4>2
    <3>3. /\ pc' = [pc EXCEPT ![c] = l] /\ loc' = [loc EXCEPT ![c] = s]
          /\ UNCHANGED <<todo, outcome>>
      BY <1>1, <2>1, <2>3 DEF PourCount, Starts, b
    <3> HIDE DEF s
    <3>4. Moves(c, t, l, s, o)
      BY <1>a, <2>1, <3>1, <3>2, <3>3 DEF Moves, CtlOf, Pouring, Success
    <3> QED BY <3>4, MoveKeeps
  <2> QED BY <2>2, <2>3
<1>2. CASE PourInsert(c)
  <2> DEFINE s == [r EXCEPT !.at = @ + 1]
  <2>1. s \in Locals /\ s.sql = r.sql
    BY <1>a, <1>b DEF Locals
  <2>2. \/ loc' = loc /\ pc' = [pc EXCEPT ![c] = "cache"]
        \/ loc' = [loc EXCEPT ![c] = s] /\ pc' = [pc EXCEPT ![c] = "insert"]
    BY <1>2 DEF PourInsert, At
  <2>3. pc[c] = "insert" /\ UNCHANGED <<todo, outcome>>
    BY <1>2 DEF PourInsert, Executes
  <2> HIDE DEF s
  <2>4. Moves(c, t, "cache", r, o) \/ Moves(c, t, "insert", s, o)
    BY <1>a, <2>1, <2>2, <2>3 DEF Moves, CtlOf, Pouring, Success
  <2> QED BY <2>4, MoveKeeps
<1>3. CASE ReadCells(c)
  <2> DEFINE F == {FrameRow(q, 0) : q \in CellsOf(k.program)}
             s == [r EXCEPT !.frames = F]
  <2>1. F \subseteq AllFrames /\ \A f \in F : f.program = k.program
    <3>1. \A q \in CellsOf(k.program) : \E u \in PossibleCells :
            u.id = q.id /\ u.program = k.program /\ u.name = q.name /\ q.program = k.program
      BY DEF CellsOf, RowsOK, RowFor, IsCell
    <3>2. \A q \in CellsOf(k.program) : \E u \in PossibleCells :
            FrameRow(q, 0) = FrameRow(u, 0) /\ FrameRow(q, 0).program = k.program
      BY <3>1 DEF FrameRow
    <3> QED BY <3>2 DEF AllFrames
  <2> HIDE DEF F
  <2>2. s \in Locals /\ s.sql = r.sql /\ s.at = r.at /\ s.frames = F
    BY <1>a, <1>b, <2>1 DEF Locals
  <2>3. /\ pc[c] = "insert" /\ r.at > Len(r.sql) /\ UNCHANGED <<todo, outcome>>
        /\ pc' = [pc EXCEPT ![c] = "frames"] /\ loc' = [loc EXCEPT ![c] = s]
    BY <1>3 DEF ReadCells, F
  <2> HIDE DEF s
  <2>4. Moves(c, t, "frames", s, o)
    BY <1>a, <2>1, <2>2, <2>3 DEF Moves, CtlOf, Pouring, Success
  <2> QED BY <2>4, MoveKeeps
<1>4. CASE EnsureFrame(c)
  <2>1. PICK f \in r.frames : loc' = [loc EXCEPT ![c].frames = @ \ {f}]
    BY <1>4 DEF EnsureFrame
  <2> DEFINE s == [r EXCEPT !.frames = @ \ {f}]
  <2>2. s \in Locals /\ s.sql = r.sql /\ s.at = r.at /\ s.frames \subseteq r.frames
    BY <1>a, <1>b DEF Locals
  <2>3. /\ pc[c] = "frames" /\ UNCHANGED <<todo, pc, outcome>>
        /\ loc' = [loc EXCEPT ![c] = s]
    BY <1>4, <2>1 DEF EnsureFrame
  <2> HIDE DEF s
  <2>4. Moves(c, t, "frames", s, o)
    BY <1>a, <2>2, <2>3 DEF Moves, CtlOf, Pouring, Success
  <2> QED BY <2>4, MoveKeeps
<1>5. CASE PourEnds(c)
  <2>1. Moves(c, t, "ended", r, "poured")
    BY <1>5, <1>a DEF PourEnds, Moves, CtlOf, Pouring, Success
  <2> QED BY <2>1, MoveKeeps
<1>6. CASE CheckCache(c) \/ Poll(c)
  <2> DEFINE l == IF pc[c] = "poll" THEN "poll" ELSE "exists"
             found == {q \in Answered(k.program, k.file) : q.value # NothingSent}
             x == k.file.answers[(CHOOSE q \in found : TRUE).value]
             u == [r EXCEPT !.at = 1, !.sql = x]
             v == [r EXCEPT !.at = 1, !.polls = IF l = "poll" THEN @ + 1 ELSE @]
  <2>1. /\ pc[c] \in {"cache", "poll"} /\ (pc[c] = "poll" => r.polls < MaxPolls)
        /\ LooksForAnswer(c, l)
    BY <1>6 DEF CheckCache, Poll
  <2>2. /\ IF found # {} THEN pc' = [pc EXCEPT ![c] = "sandbox"] /\ loc' = [loc EXCEPT ![c] = u]
           ELSE pc' = [pc EXCEPT ![c] = l] /\ loc' = [loc EXCEPT ![c] = v]
        /\ UNCHANGED <<todo, outcome>>
    BY <2>1 DEF LooksForAnswer
  <2>3. k \in Pours /\ t # <<>>
    BY <1>c, <2>1 DEF Pouring
  <2>4. found # {} => x \in AnswersTo(k)
    <3>1. ASSUME NEW q \in found PROVE q.value \in Answers
      BY <2>3 DEF Answered, RowsOK, AnswerOK
    <3> QED BY <3>1 DEF AnswersTo
  <2> HIDE DEF found, x
  <2>5. CASE found # {}
    <3>1. u \in Locals /\ u.at = 1 /\ u.sql \in AnswersTo(k)
      <4>1. x \in AllScripts /\ x \in AnswersTo(k)
        BY <2>3, <2>4, <2>5 DEF AllScripts
      <4> QED BY <1>a, <4>1, BackToFirst
    <3> HIDE DEF u
    <3>2. Moves(c, t, "sandbox", u, o)
      BY <1>a, <2>2, <2>3, <2>5, <3>1 DEF Moves, CtlOf, Pouring, Success
    <3> QED BY <3>2, MoveKeeps
  <2>6. CASE found = {}
    <3>1. v \in Locals /\ v.at = 1
      <4> DEFINE n == IF l = "poll" THEN r.polls + 1 ELSE r.polls
      <4>1. n \in 0..MaxPolls
        BY <1>b, <2>1, Bounds
      <4>2. v = [r EXCEPT !.at = 1, !.polls = n]
        BY <1>a DEF Locals
      <4> HIDE DEF n, v
      <4> QED BY <1>a, <4>1, <4>2, BackToFirst
    <3> HIDE DEF v
    <3>2. Moves(c, t, l, v, o)
      BY <1>a, <2>2, <2>3, <2>6, <3>1 DEF Moves, CtlOf, Pouring, Success
    <3> QED BY <3>2, MoveKeeps
  <2> QED BY <2>5, <2>6
<1>7. CASE CheckExists(c)
  <2>1. /\ pc[c] = "exists" /\ UNCHANGED <<todo, loc, outcome>>
        /\ \/ pc' = [pc EXCEPT ![c] = "createSource"]
           \/ pc' = [pc EXCEPT ![c] = "poll"]
    BY <1>7 DEF CheckExists
  <2>2. Moves(c, t, "createSource", r, o) \/ Moves(c, t, "poll", r, o)
    BY <1>a, <2>1 DEF Moves, CtlOf, Pouring, Success
  <2> QED BY <2>2, MoveKeeps
<1>8. CASE CreateSource(c)
  <2> DEFINE s == [r EXCEPT !.at = @ + 1]
             u == [r EXCEPT !.at = 1]
  <2>1. /\ pc[c] = "createSource" /\ UNCHANGED <<todo, outcome>>
        /\ IF r.at = 4 THEN pc' = [pc EXCEPT ![c] = "freezeSource"] /\ loc' = [loc EXCEPT ![c] = u]
           ELSE pc' = [pc EXCEPT ![c] = "createSource"] /\ loc' = [loc EXCEPT ![c] = s]
    BY <1>8 DEF CreateSource, Creates, SourceRows, At
  <2>2. s \in Locals /\ s.at = r.at + 1 /\ u \in Locals /\ u.at = 1
    BY <1>a, <1>b DEF Locals
  <2> HIDE DEF s, u
  <2>3. Moves(c, t, "freezeSource", u, o) \/ Moves(c, t, "createSource", s, o)
    BY <1>a, <1>b, <2>1, <2>2 DEF Moves, CtlOf, Pouring, Success
  <2> QED BY <2>3, MoveKeeps
<1>9. CASE FreezeSource(c)
  <2>1. Moves(c, t, "createParse", r, o)
    BY <1>9, <1>a DEF FreezeSource, Moves, CtlOf, Pouring, Success
  <2> QED BY <2>1, MoveKeeps
<1>10. CASE CreateParse(c)
  <2> DEFINE s == [r EXCEPT !.at = @ + 1]
             u == [r EXCEPT !.at = 1]
  <2>1. /\ pc[c] = "createParse" /\ UNCHANGED <<todo, outcome>>
        /\ IF r.at = 6 THEN pc' = [pc EXCEPT ![c] = "poll"] /\ loc' = [loc EXCEPT ![c] = u]
           ELSE pc' = [pc EXCEPT ![c] = "createParse"] /\ loc' = [loc EXCEPT ![c] = s]
    BY <1>10 DEF CreateParse, Creates, ParseRows, At
  <2>2. s \in Locals /\ s.at = r.at + 1 /\ u \in Locals /\ u.at = 1
    BY <1>a, <1>b DEF Locals
  <2> HIDE DEF s, u
  <2>3. Moves(c, t, "poll", u, o) \/ Moves(c, t, "createParse", s, o)
    BY <1>a, <1>b, <2>1, <2>2 DEF Moves, CtlOf, Pouring, Success
  <2> QED BY <2>3, MoveKeeps
<1>11. CASE TimesOut(c)
  <2>1. Moves(c, t, "ended", r, "timeout")
    BY <1>11, <1>a DEF TimesOut, Moves, CtlOf, Pouring, Success
  <2> QED BY <2>1, MoveKeeps
<1>12. CASE Sandbox(c)
  <2>1. pc[c] = "sandbox" /\ k \in Pours /\ t # <<>> /\ r.sql \in AnswersTo(k)
    BY <1>12, <1>a, <1>c DEF Sandbox, CtlOf, Pouring
  <2>2. CASE \A i \in DOMAIN r.sql : r.sql[i].table \in Allowed
    <3>1. r.sql \in Scripts(k)
      BY <2>1, <2>2 DEF AnswersTo, Scripts, SandboxPasses
    <3>2. Moves(c, t, "exec", r, o)
      BY <1>12, <1>a, <2>1, <2>2, <3>1 DEF Sandbox, Moves, CtlOf, Pouring, Success
    <3> QED BY <3>2, MoveKeeps
  <2>3. CASE ~\A i \in DOMAIN r.sql : r.sql[i].table \in Allowed
    <3>1. Moves(c, t, "ended", r, "blocked")
      BY <1>12, <1>a, <2>1, <2>3 DEF Sandbox, Moves, CtlOf, Pouring, Success
    <3> QED BY <3>1, MoveKeeps
  <2> QED BY <2>2, <2>3
<1>13. CASE ExecAnswer(c)
  <2> DEFINE s == [r EXCEPT !.at = @ + 1]
  <2>1. s \in Locals /\ s.sql = r.sql
    BY <1>a, <1>b DEF Locals
  <2>2. \/ /\ loc' = loc /\ pc' = [pc EXCEPT ![c] = "ended"]
           /\ outcome' = [outcome EXCEPT ![c] = "failed"]
        \/ /\ loc' = [loc EXCEPT ![c] = s] /\ pc' = [pc EXCEPT ![c] = "exec"]
           /\ UNCHANGED outcome
    BY <1>13 DEF ExecAnswer, At
  <2>3. pc[c] = "exec" /\ UNCHANGED todo
    BY <1>13 DEF ExecAnswer, Executes
  <2> HIDE DEF s
  <2>4. Moves(c, t, "ended", r, "failed") \/ Moves(c, t, "exec", s, o)
    BY <1>a, <2>1, <2>2, <2>3 DEF Moves, CtlOf, Pouring, Success
  <2> QED BY <2>4, MoveKeeps
<1>14. CASE ExecEnds(c)
  <2>1. Moves(c, t, "ended", r, "answered")
    BY <1>14, <1>a DEF ExecEnds, Moves, CtlOf, Pouring, Success
  <2> QED BY <2>1, MoveKeeps
<1>15. CASE EvalCount(c)
  <2> DEFINE s == [r EXCEPT !.at = 1]
  <2>1. k \in Evals /\ t # <<>>
    BY <1>15, <1>a DEF EvalCount, Starts, Evals
  <2>2. s \in Locals
    BY <1>a, <1>b DEF Locals
  <2>3. \/ /\ pc' = [pc EXCEPT ![c] = "ended"] /\ loc' = loc
           /\ outcome' = [outcome EXCEPT ![c] = "refused"]
        \/ /\ pc' = [pc EXCEPT ![c] = "request"] /\ loc' = [loc EXCEPT ![c] = s]
           /\ UNCHANGED outcome
    BY <1>15 DEF EvalCount, At
  <2>4. UNCHANGED todo
    BY <1>15 DEF EvalCount, Starts
  <2> HIDE DEF s
  <2>5. Moves(c, t, "ended", r, "refused") \/ Moves(c, t, "request", s, o)
    BY <1>a, <2>1, <2>2, <2>3, <2>4 DEF Moves, CtlOf, Pouring, Success
  <2> QED BY <2>5, MoveKeeps
<1>16. CASE RequestCount(c)
  <2>1. Moves(c, t, "ended", r, "cached") \/ Moves(c, t, "evalInsert", r, o)
    BY <1>16, <1>a DEF RequestCount, Moves, CtlOf, Pouring, Success
  <2> QED BY <2>1, MoveKeeps
<1>17. CASE EvalInsert(c)
  <2> DEFINE s == [r EXCEPT !.at = @ + 1]
  <2>1. s \in Locals
    BY <1>a, <1>b DEF Locals
  <2>2. pc[c] = "evalInsert" /\ UNCHANGED todo
    BY <1>17 DEF EvalInsert, Executes
  <2>3. \/ /\ pc' = [pc EXCEPT ![c] = "ended"] /\ loc' = loc
           /\ outcome' = [outcome EXCEPT ![c] = "submitted"]
        \/ /\ pc' = [pc EXCEPT ![c] = "evalInsert"] /\ loc' = [loc EXCEPT ![c] = s]
           /\ UNCHANGED outcome
    BY <1>17 DEF EvalInsert, At
  <2> HIDE DEF s
  <2>4. Moves(c, t, "ended", r, "submitted") \/ Moves(c, t, "evalInsert", s, o)
    BY <1>a, <2>1, <2>2, <2>3 DEF Moves, CtlOf, Pouring, Success
  <2> QED BY <2>4, MoveKeeps
<1>18. CASE ResetCount(c)
  <2> DEFINE b == \E q \in rows : Stray(q) /\ Begins(k.program, q.cell)
             s == [NoLocals EXCEPT !.before = b]
  <2>1. k.op = "reset" /\ t # <<>> /\ UNCHANGED todo
    BY <1>18, <1>a DEF ResetCount, Starts
  <2>2. s \in Locals /\ s.at = 1
    <3>1. b \in BOOLEAN
      OBVIOUS
    <3> HIDE DEF b
    <3>2. s \in Locals
      BY <3>1, NoLocalsType DEF Locals
    <3> QED BY <3>2 DEF NoLocals
  <2>3. \/ /\ pc' = [pc EXCEPT ![c] = "ended"] /\ loc' = loc
           /\ outcome' = [outcome EXCEPT ![c] = "nothing"]
        \/ /\ pc' = [pc EXCEPT ![c] = "delete"] /\ loc' = [loc EXCEPT ![c] = s]
           /\ UNCHANGED outcome
    BY <1>18 DEF ResetCount
  <2> HIDE DEF s
  <2>4. Moves(c, t, "ended", r, "nothing") \/ Moves(c, t, "delete", s, o)
    BY <1>a, <2>1, <2>2, <2>3 DEF Moves, CtlOf, Pouring, Success
  <2> QED BY <2>4, MoveKeeps
<1>19. CASE Delete(c)
  <2> DEFINE s == [r EXCEPT !.at = @ + 1]
  <2>1. /\ pc[c] = "delete" /\ r.at <= 6 /\ UNCHANGED <<todo, outcome>>
        /\ pc' = [pc EXCEPT ![c] = "delete"] /\ loc' = [loc EXCEPT ![c] = s]
    BY <1>19 DEF Delete, At, DeletionOrder
  <2>2. s \in Locals /\ s.at = r.at + 1
    BY <1>a, <1>b DEF Locals
  <2> HIDE DEF s
  <2>3. Moves(c, t, "delete", s, o)
    BY <1>a, <1>b, <2>1, <2>2 DEF Moves, CtlOf, Pouring, Success
  <2> QED BY <2>3, MoveKeeps
<1>20. CASE ResetEnds(c)
  <2>1. pc[c] = "delete" /\ r.at > 6 /\ r.at <= 7
    BY <1>20, <1>a DEF ResetEnds, DeletionOrder, CtlOf
  <2>2. Moves(c, t, "ended", r, "reset")
    BY <1>20, <1>a, <1>b, <2>1 DEF ResetEnds, Moves, CtlOf, Pouring, Success
  <2> QED BY <2>2, MoveKeeps
<1>21. CASE NextCommand(c)
  <2>1. NoLocals \in Locals
    BY NoLocalsType
  <2>2. Tail(t) \in Seq(Commands)
    BY <1>21, <1>a DEF NextCommand
  <2>3. Moves(c, Tail(t), "ready", NoLocals, "none")
    BY <1>21, <1>a, <2>1, <2>2 DEF NextCommand, Moves, CtlOf, Pouring, Success
  <2> QED BY <2>3, MoveKeeps
<1>22. CASE Crash(c)
  <2>1. Moves(c, t, "ended", r, "none")
    BY <1>22, <1>a DEF Crash, Moves, CtlOf, Pouring, Success
  <2> QED BY <2>1, MoveKeeps
<1> QED
  BY <1>1, <1>2, <1>3, <1>4, <1>5, <1>6, <1>7, <1>8, <1>9, <1>10, <1>11, <1>12, <1>13,
     <1>14, <1>15, <1>16, <1>17, <1>18, <1>19, <1>20, <1>21, <1>22
  DEF ClientStep, Pour, Eval, Reset

-----------------------------------------------------------------------------
(* What the steps insert belongs to the program the step is about.         *)

\* The rows of a cell belong to its program.
LEMMA RowsOfCell ==
  ASSUME NEW q \in PossibleCells
  PROVE  /\ \A g \in Nat : RowFor(q.program, FrameRow(q, g))
         /\ \A f, v : RowFor(q.program, YieldRow(q, f, v))
         /\ \A n, f : RowFor(q.program, GivenRow(q, n, f))
         /\ RowFor(q.program, NotEmptyRow(q))
<1>1. CellOf(q.id, q.program)
  BY DEF CellOf
<1>2. ASSUME NEW g \in Nat PROVE RowFor(q.program, FrameRow(q, g))
  BY DEF RowFor, FrameRow, FrameId, Columns, Allowed, Owned
<1>3. ASSUME NEW f, NEW v PROVE RowFor(q.program, YieldRow(q, f, v))
  BY <1>1 DEF RowFor, YieldRow, Columns, Allowed, Owned
<1>4. ASSUME NEW n, NEW f PROVE RowFor(q.program, GivenRow(q, n, f))
  BY <1>1 DEF RowFor, GivenRow, Columns, Allowed, Owned
<1>5. RowFor(q.program, NotEmptyRow(q))
  BY <1>1 DEF RowFor, NotEmptyRow, Columns, Allowed, Owned
<1> QED BY <1>2, <1>3, <1>4, <1>5

\* Only an answer is a frozen field called sql.
LEMMA NoAnswer ==
  ASSUME NEW r, r.table = "yields" => r.field # "sql" \/ ~r.frozen
  PROVE  AnswerOK(r)
BY DEF AnswerOK

\* The cells that commands insert are possible cells.
LEMMA CellsOfCommands ==
  /\ \A k \in Pours : \A s \in Scripts(k) : \A i \in DOMAIN s :
       s[i].table = "cells" => s[i] \in PossibleCells
  /\ \A k \in Pours : SourceCell(k.program, k.file) \in PossibleCells
  /\ \A k \in Pours : ParseCell(k.program, k.file) \in PossibleCells
  /\ \A k \in Evals : RequestCell(k.file) \in PossibleCells
BY DEF PossibleCells

\* A compiled file writes rows of its program only, and so does an answer.
LEMMA ScriptsWrite ==
  ASSUME NEW k \in Pours, NEW s \in Scripts(k)
  PROVE  WritesOnly(s, k.program)
<1>1. CASE s \in SandboxPasses(k)
  <2>1. PICK a \in Answers : s = k.file.answers[a]
    BY <1>1 DEF SandboxPasses
  <2> QED BY <1>1, <2>1, AnswersAssumption
<1>2. CASE k.file.reading = "cells" /\ s = k.file.script
  BY <1>2, SessionsAssumption
<1> QED BY <1>1, <1>2 DEF Scripts

\* The rows of a script belong to the program that is poured.
LEMMA ScriptRows ==
  ASSUME NEW k \in Pours, NEW s \in Scripts(k), NEW i \in 1..Len(s)
  PROVE  RowFor(k.program, s[i]) /\ AnswerOK(s[i]) /\ s[i].table \in Allowed
<1>1. WritesOnly(s, k.program)
  BY ScriptsWrite
<1>2. /\ i \in DOMAIN s /\ s[i].table \in Allowed
      /\ Columns(s[i].table) \subseteq DOMAIN s[i]
      /\ s[i].table = "cells" => s[i].program = k.program
  BY <1>1 DEF WritesOnly
<1>3. \A j \in DOMAIN s : s[j].table = "cells" => s[j] \in PossibleCells
  BY CellsOfCommands
<1>4. CASE s[i].table = "cells"
  BY <1>2, <1>3, <1>4 DEF RowFor, AnswerOK, IsCell, Owned
<1>5. CASE s[i].table = "frames"
  <2>1. PICK j \in DOMAIN s, g \in 0..MaxGen :
          s[j].table = "cells" /\ s[i] = FrameRow(s[j], g)
    BY <1>1, <1>2, <1>5 DEF WritesOnly
  <2>2. s[j] \in PossibleCells /\ s[j].program = k.program /\ g \in Nat
    BY <1>1, <1>3, <2>1, Bounds DEF WritesOnly
  <2> QED BY <1>2, <1>5, <2>1, <2>2, RowsOfCell, NoAnswer
<1>6. CASE s[i].table \in Owned
  <2>1. PICK j \in DOMAIN s : s[j].table = "cells" /\ s[i].cell = s[j].id
    BY <1>1, <1>2, <1>6 DEF WritesOnly, Owned
  <2>2. s[j] \in PossibleCells /\ s[j].program = k.program
    BY <1>1, <1>3, <2>1 DEF WritesOnly
  <2>3. CellOf(s[i].cell, k.program)
    BY <2>1, <2>2 DEF CellOf
  <2>4. ASSUME NEW l \in Pours, s[i].cell = ParseCell(l.program, l.file).id
        PROVE  FALSE
    <3>1. ParseCell(l.program, l.file) \in PossibleCells
      BY CellsOfCommands
    <3>2. ParseCell(l.program, l.file).program = PourProgram(l.program, l.file)
      BY DEF ParseCell, CellRow
    <3>3. s[j].id = ParseCell(l.program, l.file).id
      BY <2>1, <2>4
    <3>4. s[j].program = ParseCell(l.program, l.file).program
      BY <2>2, <3>1, <3>3, NamesAssumption
    <3>5. k.program # PourProgram(l.program, l.file)
      BY NamesAssumption
    <3> QED BY <2>2, <3>2, <3>4, <3>5
  <2> QED BY <1>2, <1>6, <2>3, <2>4 DEF RowFor, AnswerOK, Owned
<1> QED BY <1>2, <1>4, <1>5, <1>6 DEF Allowed, Owned

\* The rows of the pour-program and of a request belong to it.
LEMMA SourceRowsFor ==
  ASSUME NEW k \in Pours, NEW i \in 1..4
  PROVE  LET r == SourceRows(k.program, k.file)[i]
         IN  RowFor(PourProgram(k.program, k.file), r) /\ AnswerOK(r)
<1> DEFINE q == SourceCell(k.program, k.file)
           P == PourProgram(k.program, k.file)
           Y(f, v) == YieldRow(q, f, v)
<1>1. q \in PossibleCells
  BY CellsOfCommands
<1>2. q.program = P /\ q.table = "cells" /\ Columns("cells") \subseteq DOMAIN q
  BY DEF SourceCell, CellRow, Columns
<1>3. SourceRows(k.program, k.file) = <<q, FrameRow(q, 0), Y("text", "file"), Y("name", "program")>>
  BY DEF SourceRows
<1>4. /\ FrameRow(q, 0).table = "frames"
      /\ \A f, v : Y(f, v).table = "yields" /\ Y(f, v).field = f
  BY DEF FrameRow, YieldRow
<1>5. RowFor(P, q) /\ AnswerOK(q)
  BY <1>1, <1>2, NoAnswer DEF RowFor, IsCell, Allowed, Owned
<1>6. RowFor(P, FrameRow(q, 0)) /\ AnswerOK(FrameRow(q, 0))
  BY <1>1, <1>2, <1>4, RowsOfCell, NoAnswer
<1>7. /\ RowFor(P, Y("text", "file")) /\ AnswerOK(Y("text", "file"))
      /\ RowFor(P, Y("name", "program")) /\ AnswerOK(Y("name", "program"))
  BY <1>1, <1>2, <1>4, RowsOfCell, NoAnswer
<1> HIDE DEF q, P, Y
<1>8. CASE i = 1
  BY <1>3, <1>5, <1>8 DEF P
<1>9. CASE i = 2
  BY <1>3, <1>6, <1>9 DEF P
<1>10. CASE i = 3
  BY <1>3, <1>7, <1>10 DEF P
<1>11. CASE i = 4
  BY <1>3, <1>7, <1>11 DEF P
<1> QED BY <1>8, <1>9, <1>10, <1>11

\* So do those of the cell that parses.
LEMMA ParseRowsFor ==
  ASSUME NEW k \in Pours, NEW i \in 1..6
  PROVE  LET r == ParseRows(k.program, k.file)[i]
         IN  RowFor(PourProgram(k.program, k.file), r) /\ AnswerOK(r)
<1> DEFINE q == ParseCell(k.program, k.file)
           P == PourProgram(k.program, k.file)
           G(f) == GivenRow(q, <<"source">>, f)
           Y == YieldRow(q, "sql", NothingSent)
<1>1. q \in PossibleCells
  BY CellsOfCommands
<1>2. q.program = P /\ q.table = "cells" /\ Columns("cells") \subseteq DOMAIN q
  BY DEF ParseCell, CellRow, Columns
<1>3. ParseRows(k.program, k.file) = <<q, G("text"), G("name"), FrameRow(q, 0), Y, NotEmptyRow(q)>>
  BY DEF ParseRows
<1>4. /\ FrameRow(q, 0).table = "frames" /\ \A f : G(f).table = "givens"
      /\ Y.table = "yields" /\ ~Y.frozen /\ NotEmptyRow(q).table = "oracles"
  BY DEF FrameRow, YieldRow, GivenRow, NotEmptyRow
<1>5. RowFor(P, q) /\ AnswerOK(q)
  BY <1>1, <1>2, NoAnswer DEF RowFor, IsCell, Allowed, Owned
<1>6. RowFor(P, FrameRow(q, 0)) /\ AnswerOK(FrameRow(q, 0))
  BY <1>1, <1>2, <1>4, RowsOfCell, NoAnswer
<1>7. RowFor(P, Y) /\ AnswerOK(Y)
  BY <1>1, <1>2, <1>4, RowsOfCell, NoAnswer
<1>8. \A f : RowFor(P, G(f)) /\ AnswerOK(G(f))
  BY <1>1, <1>2, <1>4, RowsOfCell, NoAnswer
<1>9. RowFor(P, NotEmptyRow(q)) /\ AnswerOK(NotEmptyRow(q))
  BY <1>1, <1>2, <1>4, RowsOfCell, NoAnswer
<1> HIDE DEF q, P, G, Y
<1>10. CASE i = 1
  BY <1>3, <1>5, <1>10 DEF P
<1>11. CASE i = 2 \/ i = 3
  BY <1>3, <1>8, <1>11 DEF P
<1>12. CASE i = 4
  BY <1>3, <1>6, <1>12 DEF P
<1>13. CASE i = 5
  BY <1>3, <1>7, <1>13 DEF P
<1>14. CASE i = 6
  BY <1>3, <1>9, <1>14 DEF P
<1> QED BY <1>10, <1>11, <1>12, <1>13, <1>14

\* The rows of a request belong to the program of the requests.
LEMMA RequestRowsFor ==
  ASSUME NEW k \in Evals, NEW i \in 1..4
  PROVE  LET r == RequestRows(k.file)[i] IN RowFor(CellZero, r) /\ AnswerOK(r)
<1> DEFINE q == RequestCell(k.file)
           Y(f, v) == YieldRow(q, f, v)
<1>1. q \in PossibleCells
  BY CellsOfCommands
<1>2. q.program = CellZero /\ q.table = "cells" /\ Columns("cells") \subseteq DOMAIN q
  BY DEF RequestCell, CellRow, Columns
<1>3. RequestRows(k.file) = <<q, FrameRow(q, 0), Y("name", "program"), Y("text", "file")>>
  BY DEF RequestRows
<1>4. /\ FrameRow(q, 0).table = "frames"
      /\ \A f, v : Y(f, v).table = "yields" /\ Y(f, v).field = f
  BY DEF FrameRow, YieldRow
<1>5. RowFor(CellZero, q) /\ AnswerOK(q)
  BY <1>1, <1>2, NoAnswer DEF RowFor, IsCell, Allowed, Owned
<1>6. RowFor(CellZero, FrameRow(q, 0)) /\ AnswerOK(FrameRow(q, 0))
  BY <1>1, <1>2, <1>4, RowsOfCell, NoAnswer
<1>7. /\ RowFor(CellZero, Y("text", "file")) /\ AnswerOK(Y("text", "file"))
      /\ RowFor(CellZero, Y("name", "program")) /\ AnswerOK(Y("name", "program"))
  BY <1>1, <1>2, <1>4, RowsOfCell, NoAnswer
<1> HIDE DEF q, Y
<1>8. CASE i = 1
  BY <1>3, <1>5, <1>8
<1>9. CASE i = 2
  BY <1>3, <1>6, <1>9
<1>10. CASE i = 3
  BY <1>3, <1>7, <1>10
<1>11. CASE i = 4
  BY <1>3, <1>7, <1>11
<1> QED BY <1>8, <1>9, <1>10, <1>11

\* An INSERT of a row of P.
LEMMA InsertAdds ==
  ASSUME NEW a, NEW P, NEW r, RowFor(P, r), AnswerOK(r), Insert(r), Touch(a, "insert", P)
  PROVE  Adds(a, P)
BY DEF Insert, Adds

\* Every step of a client is one of the effects.
LEMMA ClientEffect ==
  ASSUME Control, RowsOK, NEW c \in Clients, ClientStep(c) \/ Crash(c)
  PROVE  Effect(c)
<1> DEFINE k == Head(todo[c])
           r == loc[c]
<1>a. /\ r.at \in Nat \ {0} /\ CtlOf(todo[c], pc[c], r, outcome[c])
      /\ r.frames \subseteq AllFrames
  BY AtWork DEF Locals
<1> USE DEF Command
<1>1. CASE \/ PourCount(c) \/ ReadCells(c) \/ PourEnds(c) \/ CheckCache(c) \/ CheckExists(c)
           \/ Poll(c) \/ TimesOut(c) \/ Sandbox(c) \/ ExecEnds(c) \/ EvalCount(c)
           \/ RequestCount(c) \/ ResetCount(c) \/ ResetEnds(c) \/ NextCommand(c) \/ Crash(c)
  <2>1. UNCHANGED rows /\ (touched' = touched \/ touched' = [touched EXCEPT ![c] = {}])
    BY <1>1 DEF PourCount, ReadCells, PourEnds, CheckCache, CheckExists, Poll, TimesOut,
      Sandbox, ExecEnds, EvalCount, RequestCount, ResetCount, ResetEnds, NextCommand, Crash,
      Starts, LooksForAnswer
  <2> QED BY <2>1 DEF Effect, Quiet
<1>2. CASE PourInsert(c) \/ ExecAnswer(c)
  <2>1. /\ pc[c] \in {"insert", "exec"} /\ Executes(c, r.sql, k.program)
    BY <1>2 DEF PourInsert, ExecAnswer
  <2>2. k \in Pours /\ r.sql \in Scripts(k)
    BY <1>a, <2>1 DEF CtlOf, Pouring
  <2>3. r.at \in 1..Len(r.sql)
    <3>1. WritesOnly(r.sql, k.program)
      BY <2>2, ScriptsWrite
    <3> QED BY <1>a, <2>1, <3>1 DEF Executes, WritesOnly
  <2>4. RowFor(k.program, r.sql[r.at]) /\ AnswerOK(r.sql[r.at])
    BY <2>2, <2>3, ScriptRows
  <2>5. Insert(r.sql[r.at]) /\ Touch(c, "insert", k.program)
    BY <2>1 DEF Executes
  <2>6. Adds(c, k.program)
    BY <2>4, <2>5, InsertAdds
  <2> QED BY <2>6 DEF Effect
<1>3. CASE EnsureFrame(c)
  <2>1. PICK f \in r.frames : Insert(f)
    BY <1>3 DEF EnsureFrame
  <2>2. pc[c] = "frames" /\ Touch(c, "insert", k.program)
    BY <1>3 DEF EnsureFrame
  <2>3. PICK q \in PossibleCells : f = FrameRow(q, 0)
    BY <1>a, <2>1 DEF AllFrames
  <2>4. f.program = k.program /\ f.program = q.program /\ f.table = "frames"
    BY <1>a, <2>1, <2>2, <2>3 DEF CtlOf, FrameRow
  <2>5. RowFor(k.program, f) /\ AnswerOK(f)
    BY <2>3, <2>4, RowsOfCell, NoAnswer
  <2>6. Adds(c, k.program)
    BY <2>1, <2>2, <2>5, InsertAdds
  <2> QED BY <2>6 DEF Effect
<1>4. CASE CreateSource(c)
  <2>1. k \in Pours /\ r.at \in 1..4
    BY <1>4, <1>a DEF CreateSource, CtlOf, Pouring
  <2>2. /\ Insert(SourceRows(k.program, k.file)[r.at])
        /\ Touch(c, "insert", PourProgram(k.program, k.file))
    BY <1>4 DEF CreateSource, Creates
  <2>3. Adds(c, PourProgram(k.program, k.file))
    BY <2>1, <2>2, SourceRowsFor, InsertAdds
  <2> QED BY <2>3 DEF Effect
<1>5. CASE CreateParse(c)
  <2>1. k \in Pours /\ r.at \in 1..6
    BY <1>5, <1>a DEF CreateParse, CtlOf, Pouring
  <2>2. /\ Insert(ParseRows(k.program, k.file)[r.at])
        /\ Touch(c, "insert", PourProgram(k.program, k.file))
    BY <1>5 DEF CreateParse, Creates
  <2>3. Adds(c, PourProgram(k.program, k.file))
    BY <2>1, <2>2, ParseRowsFor, InsertAdds
  <2> QED BY <2>3 DEF Effect
<1>6. CASE EvalInsert(c)
  <2> DEFINE script == RequestRows(k.file)
  <2>1. k \in Evals /\ Len(script) = 4
    BY <1>6, <1>a DEF EvalInsert, CtlOf, RequestRows
  <2>2. CASE r.at > Len(script)
    BY <1>6, <2>2 DEF EvalInsert, Effect, Quiet
  <2>3. CASE ~(r.at > Len(script))
    <3>1. Insert(script[r.at]) /\ Touch(c, "insert", CellZero)
      BY <1>6, <2>3 DEF EvalInsert, Executes
    <3>2. r.at \in 1..4
      <4> HIDE DEF script
      <4> QED BY <1>a, <2>1, <2>3
    <3>3. Adds(c, CellZero)
      BY <2>1, <3>1, <3>2, RequestRowsFor, InsertAdds
    <3> QED BY <3>3 DEF Effect
  <2> QED BY <2>2, <2>3
<1>7. CASE FreezeSource(c)
  <2> DEFINE id == SourceCell(k.program, k.file).id
             Mark(q) == IF q.table = "cells" /\ q.id = id THEN [q EXCEPT !.state = "frozen"] ELSE q
  <2>1. rows' = {Mark(q) : q \in rows} /\ touched' = touched
    BY <1>7 DEF FreezeSource
  <2>2. ASSUME NEW q \in rows PROVE Same(q, Mark(q)) /\ AnswerOK(Mark(q))
    <3> HIDE DEF id
    <3>1. CASE q.table = "cells" /\ q.id = id
      <4>1. Columns("cells") \subseteq DOMAIN q
        BY <3>1 DEF RowsOK, RowFor
      <4> QED BY <3>1, <4>1 DEF Columns, Same, AnswerOK, Owned
    <3>2. CASE ~(q.table = "cells" /\ q.id = id)
      BY <3>2, SameRefl DEF RowsOK
    <3> QED BY <3>1, <3>2
  <2> HIDE DEF Mark
  <2>3. Marks
    BY <2>1, <2>2 DEF Marks
  <2> QED BY <2>3 DEF Effect
<1>8. CASE Delete(c)
  BY <1>8 DEF Delete, Effect, Deletes
<1> QED
  BY <1>1, <1>2, <1>3, <1>4, <1>5, <1>6, <1>7, <1>8 DEF ClientStep, Pour, Eval, Reset

-----------------------------------------------------------------------------
(* The pistons.                                                            *)

\* A piston at work has read the row of a cell.
PistonControl ==
  /\ crew \subseteq Pistons
  /\ ppc \in [Pistons -> {"find", "frame", "claim", "work", "unclaim"}]
  /\ sees = [p \in Pistons |-> sees[p]]
  /\ \A p \in Pistons : ppc[p] # "find" =>
       IsCell(sees[p].id, sees[p].program, sees[p].name)

ClientsStay == UNCHANGED <<todo, pc, loc, outcome>>

\* Every step of a piston keeps that, is one of the effects, and leaves the
\* clients where they are.
LEMMA PistonEffect ==
  ASSUME PistonControl, RowsOK, NEW p \in crew, PistonStep(p)
  PROVE  PistonControl' /\ ClientsStay /\ Effect("piston")
<1> DEFINE r == sees[p]
<1>a. p \in Pistons /\ crew' = crew /\ ClientsStay
  BY DEF PistonControl, PistonStep, PistonFinds, PistonFrame, PistonClaims, PistonAnswers,
    PistonSpawns, PistonUnclaims, ClientsStay
<1>b. ASSUME ppc[p] # "find" PROVE IsCell(r.id, r.program, r.name)
  BY <1>a, <1>b DEF PistonControl
<1>c. ASSUME IsCell(r.id, r.program, r.name), NEW g \in Nat
      PROVE  RowFor(r.program, FrameRow(r, g)) /\ AnswerOK(FrameRow(r, g))
  <2>1. PICK q \in PossibleCells : q.id = r.id /\ q.program = r.program /\ q.name = r.name
    BY <1>c DEF IsCell
  <2>2. FrameRow(r, g) = FrameRow(q, g) /\ FrameRow(q, g).table = "frames"
    BY <2>1 DEF FrameRow
  <2> QED BY <2>1, <2>2, RowsOfCell, NoAnswer
<1>1. CASE PistonFinds(p)
  <2>1. PICK q \in rows : q.table = "cells" /\ sees' = [sees EXCEPT ![p] = q]
    BY <1>1 DEF PistonFinds
  <2>2. IsCell(q.id, q.program, q.name)
    BY <2>1 DEF RowsOK, RowFor
  <2>3. PistonControl'
    BY <1>a, <1>1, <2>1, <2>2 DEF PistonControl, PistonFinds, PGoto
  <2>4. Effect("piston")
    BY <1>1 DEF PistonFinds, Effect, Quiet
  <2> QED BY <1>a, <2>3, <2>4
<1>2. CASE PistonFrame(p)
  <2>1. PistonControl'
    BY <1>a, <1>b, <1>2 DEF PistonControl, PistonFrame, PGoto
  <2>2. IsCell(r.id, r.program, r.name) /\ Touch("piston", "insert", r.program)
    BY <1>b, <1>2 DEF PistonFrame
  <2>3. UNCHANGED rows \/ Insert(FrameRow(r, 0))
    BY <1>2 DEF PistonFrame
  <2>4. Adds("piston", r.program)
    BY <1>c, <2>2, <2>3, InsertAdds DEF Adds
  <2> QED BY <1>a, <2>1, <2>4 DEF Effect
<1>3. CASE PistonClaims(p)
  <2>1. /\ ppc[p] = "claim" /\ Touch("piston", "insert", r.program) /\ UNCHANGED sees
        /\ ppc' = [ppc EXCEPT ![p] = "find"] \/ ppc' = [ppc EXCEPT ![p] = "work"]
    BY <1>3 DEF PistonClaims, PGoto
  <2>2. PistonControl'
    BY <1>a, <1>b, <2>1 DEF PistonControl
  <2>3. CASE UNCHANGED rows
    <3>1. Adds("piston", r.program)
      BY <2>1, <2>3 DEF Adds
    <3> QED BY <1>a, <2>2, <3>1 DEF Effect
  <2>4. CASE rows' # rows
    <3>1. PICK f : Insert([table |-> "claims", id |-> r.id, cell |-> r.id, frame |-> f])
      BY <1>3, <2>4 DEF PistonClaims
    <3> DEFINE row == [table |-> "claims", id |-> r.id, cell |-> r.id, frame |-> f]
    <3>2. CellOf(r.id, r.program)
      BY <1>b, <2>1, OneCell
    <3>3. RowFor(r.program, row) /\ AnswerOK(row)
      BY <3>2, NoAnswer DEF RowFor, Columns, Allowed, Owned
    <3>4. Adds("piston", r.program)
      BY <2>1, <3>1, <3>3, InsertAdds
    <3> QED BY <1>a, <2>2, <3>4 DEF Effect
  <2> QED BY <2>3, <2>4
<1>4. CASE PistonAnswers(p)
  <2>1. PICK a \in Answers :
          rows' = {IF q.table = "yields" /\ q.cell = r.id /\ q.field = "sql" /\ ~q.frozen
                   THEN [q EXCEPT !.value = a, !.frozen = TRUE] ELSE q : q \in rows}
    BY <1>4 DEF PistonAnswers
  <2> DEFINE Mark(q) == IF q.table = "yields" /\ q.cell = r.id /\ q.field = "sql" /\ ~q.frozen
                        THEN [q EXCEPT !.value = a, !.frozen = TRUE] ELSE q
  <2>2. ASSUME NEW q \in rows PROVE Same(q, Mark(q)) /\ AnswerOK(Mark(q))
    <3>1. CASE q.table = "yields" /\ q.cell = r.id /\ q.field = "sql" /\ ~q.frozen
      <4>1. Columns("yields") \subseteq DOMAIN q
        BY <3>1 DEF RowsOK, RowFor
      <4>2. /\ Mark(q) = [q EXCEPT !.value = a, !.frozen = TRUE]
            /\ DOMAIN Mark(q) = DOMAIN q
            /\ Mark(q).table = q.table /\ Mark(q).id = q.id /\ Mark(q).cell = q.cell
            /\ Mark(q).field = q.field /\ Mark(q).value = a
        BY <3>1, <4>1 DEF Columns
      <4> HIDE DEF Mark
      <4> QED BY <3>1, <4>2 DEF Same, AnswerOK, Owned
    <3>2. CASE ~(q.table = "yields" /\ q.cell = r.id /\ q.field = "sql" /\ ~q.frozen)
      BY <3>2, SameRefl DEF RowsOK
    <3> QED BY <3>1, <3>2
  <2>3. touched' = touched /\ rows' = {Mark(q) : q \in rows}
    BY <1>4, <2>1 DEF PistonAnswers
  <2> HIDE DEF Mark
  <2>4. Marks
    BY <2>2, <2>3 DEF Marks
  <2>5. PistonControl'
    BY <1>a, <1>b, <1>4 DEF PistonControl, PistonAnswers, PGoto
  <2> QED BY <1>a, <2>4, <2>5 DEF Effect
<1>5. CASE PistonSpawns(p)
  <2>1. PistonControl'
    BY <1>a, <1>b, <1>5 DEF PistonControl, PistonSpawns, PGoto
  <2>2. IsCell(r.id, r.program, r.name) /\ Touch("piston", "insert", r.program)
    BY <1>b, <1>5 DEF PistonSpawns
  <2>3. PICK g \in 0..MaxGen : Insert(FrameRow(r, g))
    BY <1>5 DEF PistonSpawns
  <2>4. Adds("piston", r.program)
    BY <1>c, <2>2, <2>3, Bounds, InsertAdds
  <2> QED BY <1>a, <2>1, <2>4 DEF Effect
<1>6. CASE PistonUnclaims(p)
  <2>1. PistonControl'
    BY <1>a, <1>6 DEF PistonControl, PistonUnclaims, PGoto
  <2>2. Unclaims
    BY <1>6 DEF PistonUnclaims, Unclaims
  <2> QED BY <1>a, <2>1, <2>2 DEF Effect
<1> QED BY <1>1, <1>2, <1>3, <1>4, <1>5, <1>6 DEF PistonStep

-----------------------------------------------------------------------------
(* Type correctness.                                                       *)

Noted == touched \in [Clients -> SUBSET {"insert", "delete"}]

Base == Control /\ PistonControl /\ RowsOK /\ Noted

\* What is noted of c by a step of another is never forgotten, and it is noted
\* if the step is about c's program.
LEMMA EffectNotes ==
  ASSUME Noted, NEW a, Effect(a)
  PROVE  /\ Noted'
         /\ \A c \in Clients \ {a} : touched[c] \subseteq touched'[c]
         /\ \A c \in Clients \ {a} : todo[c] # <<>> =>
              /\ \A P \in Programs(c) : Adds(a, P) => "insert" \in touched'[c]
              /\ Deletes(a) /\ Command(a).program \in Programs(c) => "delete" \in touched'[c]
<1>1. ASSUME NEW P, NEW how \in {"insert", "delete"}, Touch(a, how, P)
      PROVE  /\ Noted'
             /\ \A c \in Clients \ {a} : touched[c] \subseteq touched'[c]
             /\ \A c \in Clients \ {a} : todo[c] # <<>> /\ P \in Programs(c) => how \in touched'[c]
  BY <1>1 DEF Touch, Noted
<1>2. Noted' /\ \A c \in Clients \ {a} : touched[c] \subseteq touched'[c]
  <2>1. CASE Quiet(a)
    BY <2>1 DEF Quiet, Noted
  <2>2. CASE Marks \/ Unclaims
    BY <2>2 DEF Marks, Unclaims, Noted
  <2>3. CASE Deletes(a)
    BY <1>1, <2>3 DEF Deletes
  <2>4. CASE \E P : Adds(a, P)
    BY <1>1, <2>4 DEF Adds
  <2> QED BY <2>1, <2>2, <2>3, <2>4 DEF Effect
<1>3. ASSUME NEW P, Adds(a, P)
      PROVE  \A c \in Clients \ {a} : todo[c] # <<>> /\ P \in Programs(c) => "insert" \in touched'[c]
  BY <1>1, <1>3 DEF Adds
<1>4. ASSUME Deletes(a)
      PROVE  \A c \in Clients \ {a} :
               todo[c] # <<>> /\ Command(a).program \in Programs(c) => "delete" \in touched'[c]
  BY <1>1, <1>4 DEF Deletes
<1> QED BY <1>2, <1>3, <1>4

\* A step has one author, and leaves the other clients where they are.
LEMMA StepOf ==
  ASSUME Base, Next
  PROVE  /\ Base'
         /\ \E a : /\ Effect(a) /\ OthersStay(a)
                   /\ a \in Clients => ClientStep(a) \/ Crash(a)
<1>1. ASSUME NEW c \in Clients, ClientStep(c) \/ Crash(c)
      PROVE  Base' /\ Effect(c) /\ OthersStay(c)
  <2>1. Control' /\ OthersStay(c) /\ Effect(c)
    BY <1>1, ClientControl, ClientEffect DEF Base
  <2>2. RowsOK' /\ Noted'
    BY <2>1, EffectKeepsRows, EffectNotes DEF Base
  <2>3. UNCHANGED Working
    BY <1>1 DEF Crash, ClientStep, Pour, Eval, Reset, PourCount, PourInsert, ReadCells,
      EnsureFrame, PourEnds, CheckCache, CheckExists, CreateSource, FreezeSource, CreateParse,
      Poll, TimesOut, Sandbox, ExecAnswer, ExecEnds, EvalCount, RequestCount, EvalInsert,
      ResetCount, Delete, ResetEnds, NextCommand, Starts, Executes, Creates, LooksForAnswer
  <2>4. PistonControl'
    BY <2>3 DEF Working, PistonControl, Base
  <2> QED BY <2>1, <2>2, <2>4 DEF Base
<1>2. ASSUME NEW p \in crew, PistonStep(p)
      PROVE  Base' /\ Effect("piston") /\ OthersStay("piston")
  <2>1. PistonControl' /\ ClientsStay /\ Effect("piston")
    BY <1>2, PistonEffect DEF Base
  <2>2. RowsOK' /\ Noted'
    BY <2>1, EffectKeepsRows, EffectNotes DEF Base
  <2>3. Control' /\ OthersStay("piston")
    BY <2>1 DEF ClientsStay, Control, OthersStay, Base
  <2> QED BY <2>1, <2>2, <2>3 DEF Base
<1>3. "piston" \notin Clients
  BY Bounds
<1> QED BY <1>1, <1>2, <1>3 DEF Next

\* Nothing is wrong when nothing has been done.
LEMMA InitBase == Init => Base
<1> SUFFICES ASSUME Init PROVE Base
  OBVIOUS
<1>1. PICK s \in Sessions : todo = s.todo /\ crew = s.crew /\ crashes = s.crashes
  BY DEF Init
<1>2. s.todo \in [Clients -> Seq(Commands)] /\ s.crew \subseteq Pistons
  BY SessionsAssumption
<1>3. Control
  <2>1. \A c \in Clients : CtlOf(todo[c], "ready", NoLocals, "none")
    BY DEF CtlOf, Pouring, Success
  <2> QED BY <1>1, <1>2, <2>1, NoLocalsType DEF Init, Control, Labels, Outcomes
<1>4. PistonControl
  BY <1>1, <1>2 DEF Init, PistonControl
<1>5. RowsOK
  BY DEF Init, RowsOK
<1>6. Noted
  BY DEF Init, Noted
<1> QED BY <1>3, <1>4, <1>5, <1>6 DEF Base

\* A step that changes nothing changes none of it.
LEMMA StutterBase == ASSUME Base, UNCHANGED vars PROVE Base'
BY DEF Base, vars, Control, PistonControl, RowsOK, HasCell, Noted

\* The control, the rows and the notes are always in order.
LEMMA AlwaysBase == Spec => []Base
<1>1. Base /\ [Next]_vars => Base'
  BY StepOf, StutterBase
<1> QED BY <1>1, InitBase, PTL DEF Spec

\* The types of PourReset: labels, outcomes, counters within their bounds, for
\* all clients of cmdPour, cmdEval and cmdReset and all pistons.
THEOREM TypeCorrect == Spec => []TypeOK
<1>1. Base => TypeOK
  BY DEF Base, Control, PistonControl, Noted, Locals, TypeOK
<1> QED BY <1>1, AlwaysBase, PTL

-----------------------------------------------------------------------------
(* An answer that came too late for one pour serves the next.              *)

Asking == {"exists", "createSource", "freezeSource", "createParse", "poll"}

HasAnswer(k) == \E r \in Answered(k.program, k.file) : r.value # NothingSent

\* A pour that found an answer when it began still has it when it looks, and
\* never goes on to ask.
LateOf(c) ==
  loc[c].before /\ "delete" \notin touched[c] =>
    /\ pc[c] \notin Asking
    /\ ~(pc[c] = "ended" /\ outcome[c] = "timeout")
    /\ pc[c] \in {"insert", "cache"} => HasAnswer(Command(c))

\* An answer stays as long as nobody resets the pour-program.
LEMMA AnswerStays ==
  ASSUME Base, NEW a, Effect(a), NEW c \in Clients, todo[c] # <<>>,
         Command(c) \in Pours, pc[c] # "delete" \/ a # c, "delete" \notin touched'[c],
         NEW r \in Answered(Command(c).program, Command(c).file)
  PROVE  r \in rows'
<1> DEFINE k == Command(c)
           P == PourProgram(k.program, k.file)
           q == ParseCell(k.program, k.file)
<1>1. P \in Programs(c)
  BY DEF Programs, Pours
<1>2. r \in rows /\ r.table = "yields" /\ r.cell = q.id /\ r.frozen
  BY DEF Answered
<1>3. PICK Q : RowFor(Q, r)
  BY <1>2 DEF Base, RowsOK
<1>4. CellOf(r.cell, Q)
  BY <1>2, <1>3 DEF RowFor, Owned
<1>5. CellOf(q.id, P)
  BY CellsOfCommands DEF CellOf, ParseCell, CellRow
<1>6. RowFor(P, r)
  BY <1>2, <1>3, <1>4, <1>5, OneCell
<1> HIDE DEF P
<1>7. PICK s \in rows' : Same(r, s)
  BY <1>1, <1>2, <1>6, RowStays DEF Base
<1> QED BY <1>2, <1>7 DEF Same

\* The same for the answer a pour waits for.
LEMMA HasAnswerStays ==
  ASSUME Base, NEW a, Effect(a), NEW c \in Clients, todo[c] # <<>>,
         Command(c) \in Pours, pc[c] # "delete" \/ a # c, "delete" \notin touched'[c],
         HasAnswer(Command(c)), todo'[c] = todo[c]
  PROVE  HasAnswer(Command(c))'
BY AnswerStays DEF HasAnswer, Answered, Command

\* A step of c itself.
LEMMA LateOwn ==
  ASSUME Base, NEW c \in Clients, ClientStep(c) \/ Crash(c), LateOf(c), Base'
  PROVE  LateOf(c)'
<1> DEFINE k == Command(c)
           r == loc[c]
<1>a. Effect(c)
  BY ClientEffect DEF Base
<1>b. /\ CtlOf(todo[c], pc[c], r, outcome[c]) /\ pc[c] \in Labels
      /\ r \in Locals /\ Control
  BY AtWork DEF Base
<1>c. pc[c] \in Pouring => k \in Pours /\ todo[c] # <<>>
  BY <1>b DEF CtlOf, Pouring, Command
<1>1. CASE PourCount(c)
  <2>1. CASE CellsOf(k.program) # {} \/ k.file.reading = "error"
    <3>1. pc'[c] = "ended" /\ outcome'[c] = "refused"
      BY <1>1, <1>b, <2>1 DEF PourCount, End, Goto, Control
    <3> QED BY <3>1 DEF LateOf, Asking
  <2>2. CASE ~(CellsOf(k.program) # {} \/ k.file.reading = "error")
    <3>1. /\ pc'[c] \in {"insert", "cache"} /\ todo' = todo /\ rows' = rows
          /\ loc'[c].before = HasAnswer(k)
      <4>1. k \in Pours /\ k.file.reading \in {"cells", "nil", "error"}
        <5>1. k \in Pours
          BY <1>1, <1>b DEF PourCount, Starts, Pours, Command, Control
        <5> QED BY <5>1, Bounds
      <4> DEFINE b == \E q \in Answered(k.program, k.file) : q.value # NothingSent
                 s == [NoLocals EXCEPT !.before = b, !.sql = k.file.script]
                 l == IF k.file.reading = "cells" THEN "insert" ELSE "cache"
      <4>2. /\ pc' = [pc EXCEPT ![c] = l] /\ loc' = [loc EXCEPT ![c] = s]
            /\ todo' = todo /\ rows' = rows
        BY <1>1, <1>b, <2>2, <4>1 DEF PourCount, Starts, Goto, End, Control
      <4>3. s.before = b
        BY DEF NoLocals
      <4> HIDE DEF s
      <4>4. loc'[c] = s /\ pc'[c] = l
        BY <1>b, <4>2 DEF Control
      <4>5. b = HasAnswer(k)
        BY DEF HasAnswer
      <4> HIDE DEF b
      <4> QED BY <4>2, <4>3, <4>4, <4>5
    <3> QED BY <3>1 DEF LateOf, Asking, HasAnswer, Answered, Command
  <2> QED BY <2>1, <2>2
<1>2. CASE PourInsert(c)
  <2>1. /\ pc[c] = "insert" /\ pc'[c] \in {"insert", "cache"} /\ todo' = todo
        /\ loc'[c].before = r.before
    BY <1>2, <1>b DEF PourInsert, Executes, At, Goto, Control, Locals
  <2>2. touched'[c] = touched[c]
    BY <1>2 DEF PourInsert, Executes, Touch, Base, Noted
  <2>3. ASSUME r.before, "delete" \notin touched'[c] PROVE HasAnswer(k)'
    BY <1>a, <1>c, <2>1, <2>2, <2>3, HasAnswerStays DEF LateOf, Pouring
  <2> QED BY <2>1, <2>3 DEF LateOf, Asking
<1>3. CASE CheckCache(c)
  <2>1. CASE HasAnswer(k)
    <3>1. pc'[c] = "sandbox"
      BY <1>3, <1>b, <2>1 DEF CheckCache, LooksForAnswer, HasAnswer, Goto, Control
    <3> QED BY <3>1 DEF LateOf, Asking
  <2>2. CASE ~HasAnswer(k)
    <3>1. pc[c] = "cache" /\ touched' = touched
      BY <1>3 DEF CheckCache, LooksForAnswer
    <3>2. loc'[c].before = r.before
      BY <1>3, <1>b DEF CheckCache, LooksForAnswer, Control, Locals
    <3> QED BY <2>2, <3>1, <3>2 DEF LateOf
  <2> QED BY <2>1, <2>2
<1>4. CASE Poll(c) \/ CheckExists(c) \/ CreateSource(c) \/ FreezeSource(c) \/ CreateParse(c)
           \/ TimesOut(c)
  <2>1. pc[c] \in Asking
    BY <1>4 DEF Poll, CheckExists, CreateSource, FreezeSource, CreateParse, TimesOut, Asking
  <2>2. touched'[c] = touched[c]
    BY <1>4 DEF Poll, LooksForAnswer, CheckExists, CreateSource, Creates, FreezeSource,
      CreateParse, TimesOut, Touch, Base, Noted
  <2>3. loc'[c].before = r.before
    BY <1>4, <1>b DEF Poll, LooksForAnswer, CheckExists, CreateSource, Creates, FreezeSource,
      CreateParse, TimesOut, At, End, Control, Locals
  <2> QED BY <2>1, <2>2, <2>3 DEF LateOf
<1>5. CASE \/ ReadCells(c) \/ EnsureFrame(c) \/ PourEnds(c) \/ Sandbox(c) \/ ExecAnswer(c)
           \/ ExecEnds(c) \/ EvalCount(c) \/ RequestCount(c) \/ EvalInsert(c)
           \/ ResetCount(c) \/ Delete(c) \/ ResetEnds(c) \/ NextCommand(c) \/ Crash(c)
  <2>1. /\ pc'[c] \notin Asking \cup {"insert", "cache"}
        /\ pc'[c] = "ended" => outcome'[c] # "timeout"
    BY <1>5, <1>b DEF ReadCells, EnsureFrame, PourEnds, Sandbox, ExecAnswer, ExecEnds,
      EvalCount, RequestCount, EvalInsert, ResetCount, Delete, ResetEnds, NextCommand, Crash,
      Goto, End, At, Asking, Control
  <2> QED BY <2>1 DEF LateOf
<1> QED BY <1>1, <1>2, <1>3, <1>4, <1>5 DEF ClientStep, Pour, Eval, Reset

\* The rest of the step, for all clients.
LEMMA LateStep ==
  ASSUME Base, \A c \in Clients : LateOf(c), [Next]_vars
  PROVE  \A c \in Clients : LateOf(c)'
<1>1. CASE UNCHANGED vars
  BY <1>1 DEF vars, LateOf, HasAnswer, Answered, Command
<1>2. CASE Next
  <2>1. PICK a : /\ Effect(a) /\ OthersStay(a)
                 /\ a \in Clients => ClientStep(a) \/ Crash(a)
    BY <1>2, StepOf
  <2> SUFFICES ASSUME NEW c \in Clients PROVE LateOf(c)'
    OBVIOUS
  <2>2. CASE c = a
    BY <1>2, <2>1, <2>2, LateOwn, StepOf
  <2>3. CASE c # a
    <3>1. /\ todo'[c] = todo[c] /\ pc'[c] = pc[c] /\ loc'[c] = loc[c]
          /\ outcome'[c] = outcome[c]
      BY <2>1, <2>3 DEF OthersStay
    <3>2. touched[c] \subseteq touched'[c]
      BY <2>1, <2>3, EffectNotes DEF Base
    <3>3. ASSUME pc[c] \in {"insert", "cache"}, "delete" \notin touched'[c], HasAnswer(Command(c))
          PROVE  HasAnswer(Command(c))'
      <4>1. Command(c) \in Pours /\ todo[c] # <<>>
        BY <3>3 DEF Base, Control, CtlOf, Pouring, Command
      <4> QED BY <2>1, <2>3, <3>1, <3>3, <4>1, HasAnswerStays
    <3> QED BY <3>1, <3>2, <3>3 DEF LateOf
  <2> QED BY <2>2, <2>3
<1> QED BY <1>1, <1>2

\* LateAnswerServes for any clients, files, answers and number of polls: a pour
\* whose pour-program already holds an answer (pourViaPiston's cache) neither
\* asks again nor waits, whatever the others do short of resetting it.
THEOREM AnswerServes == Spec => []LateAnswerServes
<1> DEFINE Late == \A c \in Clients : LateOf(c)
<1>1. Init => Late
  BY DEF Init, LateOf, NoLocals
<1>2. Base /\ Late /\ [Next]_vars => Late'
  BY LateStep
<1>3. Late => LateAnswerServes
  BY DEF LateOf, Asking, LateAnswerServes
<1> HIDE DEF Late
<1> QED BY <1>1, <1>2, <1>3, AlwaysBase, PTL DEF Spec

-----------------------------------------------------------------------------
(* The course of a pour: what it has written, at each of its steps.        *)

InProgress(c) ==
  pc[c] \in {"insert", "exec", "frames"} \/ (pc[c] = "ended" /\ outcome[c] \in Success)

Opens(c) == pc'[c] \in {"insert", "exec"} /\ loc'[c].at = 1

Stays(c) == /\ todo'[c] = todo[c] /\ touched'[c] = touched[c]
            /\ loc'[c].sql = loc[c].sql

Writes(c) ==
  LET r == loc[c]
  IN /\ pc[c] \in {"insert", "exec"} /\ pc'[c] = pc[c]
     /\ r.at \in 1..Len(r.sql)
     /\ Insert(r.sql[r.at]) /\ ~Fails(r.sql[r.at])
     /\ Stays(c) /\ loc'[c].at = r.at + 1

\* From the last statement to the frames, and to the end.
GoesOn(c) ==
  LET r == loc[c]
  IN /\ Stays(c) /\ loc'[c].at = r.at
     /\ \/ /\ pc[c] = "insert" /\ pc'[c] = "frames" /\ rows' = rows
           /\ r.at > Len(r.sql)
           /\ loc'[c].frames = {FrameRow(q, 0) : q \in CellsOf(Command(c).program)}
        \/ /\ pc[c] = "frames" /\ pc'[c] = "frames"
           /\ \E f \in r.frames : Insert(f) /\ loc'[c].frames = r.frames \ {f}
        \/ /\ pc[c] = "frames" /\ r.frames = {} /\ rows' = rows
           /\ pc'[c] = "ended" /\ outcome'[c] = "poured"
        \/ /\ pc[c] = "exec" /\ rows' = rows
           /\ pc'[c] = "ended" /\ outcome'[c] = "answered"

\* A script is a sequence of rows.
LEMMA ScriptLength ==
  ASSUME NEW k \in Pours, NEW s \in Scripts(k)
  PROVE  Len(s) \in Nat /\ DOMAIN s = 1..Len(s)
<1>1. WritesOnly(s, k.program)
  BY ScriptsWrite
<1> QED BY <1>1 DEF WritesOnly

\* Every step of a client that leaves it in progress is one of these.
LEMMA Course ==
  ASSUME Base, NEW c \in Clients, ClientStep(c) \/ Crash(c)
  PROVE  ~InProgress(c)' \/ Opens(c) \/ Writes(c) \/ GoesOn(c)
<1> DEFINE k == Command(c)
           r == loc[c]
<1>a. Control /\ touched \in [Clients -> SUBSET {"insert", "delete"}]
  BY DEF Base, Noted
<1>b. /\ CtlOf(todo[c], pc[c], r, outcome[c])
      /\ r \in Locals
  BY <1>a, AtWork
<1>c. r.at \in Nat \ {0}
  BY <1>b DEF Locals
<1>1. CASE PourCount(c)
  <2>1. CASE CellsOf(k.program) # {} \/ k.file.reading = "error"
    <3>1. pc'[c] = "ended" /\ outcome'[c] = "refused"
      BY <1>1, <1>a, <2>1 DEF PourCount, End, Goto, Control
    <3> QED BY <3>1 DEF InProgress, Success
  <2>2. CASE ~(CellsOf(k.program) # {} \/ k.file.reading = "error")
    <3> DEFINE b == \E q \in Answered(k.program, k.file) : q.value # NothingSent
               s == [NoLocals EXCEPT !.before = b, !.sql = k.file.script]
               l == IF k.file.reading = "cells" THEN "insert" ELSE "cache"
    <3>1. k \in Pours /\ k.file.reading \in {"cells", "nil", "error"}
      <4>1. k \in Pours
        BY <1>1, <1>a DEF PourCount, Starts, Pours, Command, Control
      <4> QED BY <4>1, Bounds
    <3>2. /\ pc' = [pc EXCEPT ![c] = l] /\ loc' = [loc EXCEPT ![c] = s]
      BY <1>1, <2>2, <3>1 DEF PourCount, Goto
    <3>3. s.at = 1
      BY DEF NoLocals
    <3> HIDE DEF s
    <3>4. pc'[c] = l /\ loc'[c].at = 1
      BY <1>a, <3>2, <3>3 DEF Control
    <3> QED BY <3>4 DEF InProgress, Opens
  <2> QED BY <2>1, <2>2
<1>2. CASE PourInsert(c) \/ ExecAnswer(c)
  <2>1. pc[c] \in {"insert", "exec"} /\ Executes(c, r.sql, k.program)
    BY <1>2 DEF PourInsert, ExecAnswer
  <2>2. r.at \in 1..Len(r.sql)
    <3>1. Len(r.sql) \in Nat
      BY <1>b, <2>1, ScriptLength DEF CtlOf, Pouring
    <3> QED BY <1>c, <2>1, <3>1 DEF Executes
  <2>3. CASE Fails(r.sql[r.at])
    <3>1. pc'[c] = "cache" \/ (pc'[c] = "ended" /\ outcome'[c] = "failed")
      BY <1>2, <1>a, <2>3 DEF PourInsert, ExecAnswer, Goto, End, Control
    <3> QED BY <3>1 DEF InProgress, Success
  <2>4. CASE ~Fails(r.sql[r.at])
    <3>1. /\ pc'[c] = pc[c] /\ loc'[c].at = r.at + 1 /\ loc'[c].sql = r.sql
      BY <1>2, <1>a, <1>b, <2>4 DEF PourInsert, ExecAnswer, At, Goto, Control, Locals
    <3>2. todo'[c] = todo[c] /\ touched'[c] = touched[c] /\ Insert(r.sql[r.at])
      BY <1>a, <2>1 DEF Executes, Touch
    <3> QED BY <2>1, <2>2, <2>4, <3>1, <3>2 DEF Writes, Stays
  <2> QED BY <2>3, <2>4
<1>3. CASE ReadCells(c)
  <2>1. /\ pc[c] = "insert" /\ pc'[c] = "frames" /\ rows' = rows
        /\ r.at > Len(r.sql) /\ todo' = todo /\ touched' = touched
    BY <1>3, <1>a DEF ReadCells, Goto, Control
  <2>2. /\ loc'[c].frames = {FrameRow(q, 0) : q \in CellsOf(k.program)}
        /\ loc'[c].at = r.at /\ loc'[c].sql = r.sql
    <3> DEFINE F == {FrameRow(q, 0) : q \in CellsOf(k.program)}
    <3>1. loc' = [loc EXCEPT ![c].frames = F]
      BY <1>3 DEF ReadCells
    <3> HIDE DEF F
    <3>2. loc'[c].frames = F /\ loc'[c].at = r.at /\ loc'[c].sql = r.sql
      BY <1>a, <1>b, <3>1 DEF Control, Locals
    <3> QED BY <3>2 DEF F
  <2> QED BY <2>1, <2>2 DEF GoesOn, Stays
<1>4. CASE EnsureFrame(c)
  <2>1. PICK f \in r.frames : Insert(f) /\ loc' = [loc EXCEPT ![c].frames = @ \ {f}]
    BY <1>4 DEF EnsureFrame
  <2>2. /\ loc'[c].frames = r.frames \ {f} /\ loc'[c].at = r.at /\ loc'[c].sql = r.sql
    BY <1>a, <1>b, <2>1 DEF Control, Locals
  <2>3. pc[c] = "frames" /\ pc'[c] = "frames" /\ todo'[c] = todo[c] /\ touched'[c] = touched[c]
    BY <1>4, <1>a DEF EnsureFrame, Touch
  <2> QED BY <2>1, <2>2, <2>3 DEF GoesOn, Stays
<1>5. CASE PourEnds(c)
  BY <1>5, <1>a DEF PourEnds, End, Goto, GoesOn, Stays, Control
<1>6. CASE ExecEnds(c)
  BY <1>6, <1>a DEF ExecEnds, End, Goto, GoesOn, Stays, Control
<1>7. CASE Sandbox(c)
  <2>1. CASE \A i \in DOMAIN r.sql : r.sql[i].table \in Allowed
    <3>1. pc'[c] = "exec" /\ loc' = loc /\ pc[c] = "sandbox"
      BY <1>7, <1>a, <2>1 DEF Sandbox, Goto, Control
    <3>2. r.at = 1
      BY <1>b, <3>1 DEF CtlOf
    <3> QED BY <3>1, <3>2 DEF Opens
  <2>2. CASE ~\A i \in DOMAIN r.sql : r.sql[i].table \in Allowed
    <3>1. pc'[c] = "ended" /\ outcome'[c] = "blocked"
      BY <1>7, <1>a, <2>2 DEF Sandbox, End, Goto, Control
    <3> QED BY <3>1 DEF InProgress, Success
  <2> QED BY <2>1, <2>2
<1>8. CASE \/ CheckCache(c) \/ CheckExists(c) \/ CreateSource(c) \/ FreezeSource(c)
           \/ CreateParse(c) \/ Poll(c) \/ TimesOut(c) \/ EvalCount(c) \/ RequestCount(c)
           \/ EvalInsert(c) \/ ResetCount(c) \/ Delete(c) \/ ResetEnds(c)
           \/ NextCommand(c) \/ Crash(c)
  <2>1. /\ pc'[c] \notin {"insert", "exec", "frames"}
        /\ pc'[c] = "ended" => outcome'[c] \notin Success
    BY <1>8, <1>a DEF CheckCache, CheckExists, CreateSource, Creates, FreezeSource,
      CreateParse, Poll, LooksForAnswer, TimesOut, EvalCount, RequestCount, EvalInsert,
      ResetCount, Delete, ResetEnds, NextCommand, Crash, Goto, End, At, Control, Success
  <2> QED BY <2>1 DEF InProgress
<1> QED
  BY <1>1, <1>2, <1>3, <1>4, <1>5, <1>6, <1>7, <1>8 DEF ClientStep, Pour, Eval, Reset

-----------------------------------------------------------------------------
(* Success is not reported by half.                                        *)

HasFrame(r) == FramesOf(r) # {}

Landed(r) ==
  /\ ~Ignoring(r) => \E q \in rows : Same(r, q)
  /\ r.table = "frames" => HasFrame(r)

\* Of a pour in progress what has been executed is written; frames that are
\* missing are about to be inserted.
WholeOf(c) ==
  LET s == loc[c].sql
  IN InProgress(c) /\ "delete" \notin touched[c] =>
       /\ \A i \in 1..Len(s) : i < loc[c].at => Landed(s[i])
       /\ pc[c] = "frames" => \A i \in 1..Len(s) : s[i].table = "cells" =>
            HasFrame(s[i]) \/ FrameRow(s[i], 0) \in loc[c].frames
       /\ pc[c] = "ended" /\ outcome[c] = "poured" =>
            \A i \in 1..Len(s) : s[i].table = "cells" => HasFrame(s[i])

\* A pour in progress pours a script that belongs to its program.
LEMMA Pours1 ==
  ASSUME Base, NEW c \in Clients, InProgress(c)
  PROVE  /\ Command(c) \in Pours /\ todo[c] # <<>>
         /\ loc[c].sql \in Scripts(Command(c))
         /\ Len(loc[c].sql) \in Nat /\ loc[c].at \in Nat \ {0}
         /\ Command(c).program \in Programs(c)
         /\ pc[c] # "delete"
<1>1. CtlOf(todo[c], pc[c], loc[c], outcome[c]) /\ loc[c] \in Locals
  BY AtWork DEF Base
<1>2. Command(c) \in Pours /\ todo[c] # <<>> /\ loc[c].sql \in Scripts(Command(c))
  BY <1>1 DEF CtlOf, InProgress, Pouring, Command
<1>3. Command(c).program \in Programs(c)
  BY <1>2 DEF Programs, Pours
<1>4. Len(loc[c].sql) \in Nat
  BY <1>2, ScriptLength
<1> QED BY <1>1, <1>2, <1>3, <1>4 DEF Locals, InProgress

\* What is written stays written, and a frame stays, while nobody resets.
LEMMA WrittenStays ==
  ASSUME Base, NEW a, Effect(a), NEW c \in Clients, todo[c] # <<>>,
         pc[c] # "delete" \/ a # c, "delete" \notin touched'[c],
         NEW P \in Programs(c), NEW r
  PROVE  /\ RowFor(P, r) /\ r.table # "claims" /\ Landed(r) => Landed(r)'
         /\ r.program = P /\ HasFrame(r) => HasFrame(r)'
<1>1. ASSUME r.program = P, HasFrame(r) PROVE HasFrame(r)'
  <2>1. PICK q \in rows : q.table = "frames" /\ q.program = P /\ q.name = r.name
    BY <1>1 DEF HasFrame, FramesOf
  <2>2. RowFor(P, q)
    BY <2>1 DEF Base, RowsOK, RowFor
  <2>3. PICK s \in rows' : Same(q, s)
    BY <2>1, <2>2, RowStays DEF Base
  <2>4. s = q
    BY <2>1, <2>3 DEF Same
  <2> QED BY <1>1, <2>1, <2>3, <2>4 DEF HasFrame, FramesOf
<1>2. ASSUME RowFor(P, r), r.table # "claims", Landed(r) PROVE Landed(r)'
  <2>1. ASSUME ~Ignoring(r) PROVE \E q \in rows' : Same(r, q)
    <3>1. PICK q \in rows : Same(r, q)
      BY <1>2, <2>1 DEF Landed
    <3>2. RowFor(P, q) /\ q.table # "claims"
      BY <1>2, <3>1, SameFor DEF Same
    <3>3. PICK s \in rows' : Same(q, s)
      BY <3>2, RowStays DEF Base
    <3> QED BY <3>1, <3>3, SameTrans
  <2>2. ASSUME r.table = "frames" PROVE HasFrame(r)'
    <3>1. r.program = P
      BY <1>2, <2>2 DEF RowFor
    <3> QED BY <1>1, <1>2, <2>2, <3>1 DEF Landed
  <2> QED BY <2>1, <2>2 DEF Landed
<1> QED BY <1>1, <1>2

\* Every statement that is executed without failure is written.
LEMMA InsertWrites ==
  ASSUME RowsOK, NEW P, NEW r, RowFor(P, r), r.table # "claims", Insert(r), ~Fails(r)
  PROVE  Landed(r)'
<1>1. CASE r.table = "frames"
  BY <1>1, FrameStands DEF Landed, HasFrame, FramesOf, Ignoring
<1>2. CASE r.table # "frames"
  <2>1. r \in rows'
    BY <1>2 DEF Fails, Insert, Ignoring
  <2> QED BY <1>2, <2>1, SameRefl DEF Landed
<1> QED BY <1>1, <1>2

\* A step of the pour itself.
LEMMA WholeOwn ==
  ASSUME Base, Base', NEW c \in Clients, ClientStep(c) \/ Crash(c), WholeOf(c)
  PROVE  WholeOf(c)'
<1> DEFINE k == Command(c)
<1>0. PICK s, at : s = loc[c].sql /\ at = loc[c].at
  OBVIOUS
<1> SUFFICES ASSUME InProgress(c)', "delete" \notin touched'[c] PROVE WholeOf(c)'
  BY DEF WholeOf
<1>1. Effect(c)
  BY ClientEffect DEF Base
<1>2. CASE Opens(c)
  <2>1. \A i \in Nat \ {0} : ~(i < loc'[c].at)
    BY <1>2 DEF Opens
  <2>2. pc'[c] # "frames" /\ pc'[c] # "ended"
    BY <1>2 DEF Opens
  <2> QED BY <2>1, <2>2 DEF WholeOf
<1>3. ASSUME Writes(c) \/ GoesOn(c)
      PROVE  /\ InProgress(c) /\ "delete" \notin touched[c]
             /\ loc'[c].sql = s /\ k \in Pours /\ todo[c] # <<>> /\ s \in Scripts(k)
             /\ k.program \in Programs(c) /\ pc[c] # "delete"
             /\ at \in Nat \ {0} /\ Len(s) \in Nat
             /\ \A i \in 1..Len(s) : RowFor(k.program, s[i]) /\ s[i].table # "claims"
             /\ \A i \in 1..Len(s) : i < at => Landed(s[i])'
             /\ \A i \in 1..Len(s) : s[i].table = "cells" /\ HasFrame(s[i]) => HasFrame(s[i])'
  <2>1. InProgress(c) /\ "delete" \notin touched[c] /\ loc'[c].sql = s
    BY <1>0, <1>3 DEF Writes, GoesOn, Stays, InProgress
  <2>2. /\ k \in Pours /\ todo[c] # <<>> /\ s \in Scripts(k)
        /\ k.program \in Programs(c) /\ pc[c] # "delete"
        /\ at \in Nat \ {0} /\ Len(s) \in Nat
    BY <1>0, <2>1, Pours1
  <2> HIDE DEF k
  <2>3. \A i \in 1..Len(s) : RowFor(k.program, s[i]) /\ s[i].table \in Allowed
    BY <2>2, ScriptRows
  <2>4. \A i \in 1..Len(s) : i < at => Landed(s[i])
    BY <1>0, <2>1 DEF WholeOf
  <2>5. \A i \in 1..Len(s) : Landed(s[i]) => Landed(s[i])'
    BY <1>1, <2>2, <2>3, WrittenStays DEF Allowed
  <2>6. \A i \in 1..Len(s) : s[i].table = "cells" => s[i].program = k.program
    BY <2>3 DEF RowFor
  <2>7. \A i \in 1..Len(s) : s[i].table = "cells" /\ HasFrame(s[i]) => HasFrame(s[i])'
    BY <1>1, <2>2, <2>6, WrittenStays
  <2> QED BY <2>1, <2>2, <2>3, <2>4, <2>5, <2>7 DEF Allowed
<1>4. CASE Writes(c)
  <2>1. /\ at \in 1..Len(s) /\ Insert(s[at]) /\ ~Fails(s[at]) /\ loc'[c].at = at + 1
        /\ pc'[c] \in {"insert", "exec"}
    BY <1>0, <1>4 DEF Writes
  <2>2. Landed(s[at])'
    BY <1>3, <1>4, <2>1, InsertWrites DEF Base
  <2>3. \A i \in 1..Len(s) : i < at + 1 => Landed(s[i])'
    <3> SUFFICES ASSUME NEW i \in 1..Len(s), i < at + 1 PROVE Landed(s[i])'
      OBVIOUS
    <3>1. i < at \/ i = at
      BY <2>1
    <3> QED BY <1>3, <1>4, <2>2, <3>1
  <2> QED BY <1>3, <1>4, <2>1, <2>3 DEF WholeOf
<1>5. CASE GoesOn(c)
  <2>1. loc'[c].at = at /\ loc'[c].sql = s
    BY <1>0, <1>5 DEF GoesOn, Stays
  <2>2. \A i \in 1..Len(s) : i < at => Landed(s[i])'
    BY <1>3, <1>5
  <2>3. CASE pc[c] = "insert"
    <3>1. /\ pc'[c] = "frames" /\ rows' = rows /\ at > Len(s)
          /\ loc'[c].frames = {FrameRow(q, 0) : q \in CellsOf(k.program)}
      BY <1>0, <1>5, <2>3 DEF GoesOn
    <3>2. ASSUME NEW i \in 1..Len(s), s[i].table = "cells"
          PROVE  FrameRow(s[i], 0) \in loc'[c].frames
      <4>1. Landed(s[i]) /\ i < at
        BY <1>0, <1>3, <1>5, <3>1 DEF WholeOf
      <4>2. PICK q \in rows : Same(s[i], q)
        BY <3>2, <4>1 DEF Landed, Ignoring
      <4>3. s[i].program = k.program
        BY <1>3, <1>5, <3>2 DEF RowFor
      <4>4. q \in CellsOf(k.program) /\ FrameRow(q, 0) = FrameRow(s[i], 0)
        BY <3>2, <4>2, <4>3 DEF Same, CellsOf, FrameRow
      <4> QED BY <3>1, <4>4
    <3> QED BY <2>1, <2>2, <3>1, <3>2 DEF WholeOf
  <2>4. CASE pc[c] = "frames" /\ pc'[c] = "frames"
    <3>1. PICK f \in loc[c].frames : Insert(f) /\ loc'[c].frames = loc[c].frames \ {f}
      BY <1>5, <2>4 DEF GoesOn
    <3>2. PICK u \in PossibleCells : f = FrameRow(u, 0)
      BY AtWork DEF Base, Locals, AllFrames
    <3>3. RowFor(f.program, f) /\ f.table = "frames"
      BY <3>2, RowsOfCell DEF FrameRow
    <3>4. HasFrame(f)'
      BY <3>1, <3>3, FrameStands DEF HasFrame, FramesOf, Base
    <3>5. ASSUME NEW i \in 1..Len(s), s[i].table = "cells", FrameRow(s[i], 0) = f
          PROVE  HasFrame(s[i])'
      <4>1. f.program = s[i].program /\ f.name = s[i].name
        BY <3>5 DEF FrameRow
      <4> QED BY <3>4, <4>1 DEF HasFrame, FramesOf
    <3>6. ASSUME NEW i \in 1..Len(s), s[i].table = "cells"
          PROVE  HasFrame(s[i])' \/ FrameRow(s[i], 0) \in loc'[c].frames
      BY <1>0, <1>3, <1>5, <2>4, <3>1, <3>5, <3>6 DEF WholeOf
    <3> QED BY <2>1, <2>2, <2>4, <3>6 DEF WholeOf
  <2>5. CASE pc[c] = "frames" /\ pc'[c] = "ended"
    <3>1. loc[c].frames = {}
      BY <1>5, <2>5 DEF GoesOn
    <3>2. \A i \in 1..Len(s) : s[i].table = "cells" => HasFrame(s[i])'
      BY <1>0, <1>3, <1>5, <2>5, <3>1 DEF WholeOf
    <3> QED BY <2>1, <2>2, <2>5, <3>2 DEF WholeOf
  <2>6. CASE pc[c] = "exec"
    <3>1. pc'[c] = "ended" /\ outcome'[c] = "answered"
      BY <1>5, <2>6 DEF GoesOn
    <3> QED BY <2>1, <2>2, <3>1 DEF WholeOf
  <2> QED BY <1>5, <2>3, <2>4, <2>5, <2>6 DEF GoesOn
<1> QED BY <1>2, <1>4, <1>5, Course

\* A step of anybody, for all pours.
LEMMA WholeStep ==
  ASSUME Base, \A c \in Clients : WholeOf(c), [Next]_vars
  PROVE  \A c \in Clients : WholeOf(c)'
<1>1. CASE UNCHANGED vars
  BY <1>1 DEF vars, WholeOf, InProgress, Landed, HasFrame, FramesOf
<1>2. CASE Next
  <2>1. PICK a : /\ Effect(a) /\ OthersStay(a)
                 /\ a \in Clients => ClientStep(a) \/ Crash(a)
    BY <1>2, StepOf
  <2> SUFFICES ASSUME NEW c \in Clients PROVE WholeOf(c)'
    OBVIOUS
  <2>2. CASE c = a
    BY <1>2, <2>1, <2>2, WholeOwn, StepOf
  <2>3. CASE c # a
    <3> SUFFICES ASSUME InProgress(c)', "delete" \notin touched'[c] PROVE WholeOf(c)'
      BY DEF WholeOf
    <3>1. PICK s : s = loc[c].sql
      OBVIOUS
    <3>2. /\ todo'[c] = todo[c] /\ pc'[c] = pc[c] /\ loc'[c] = loc[c]
          /\ outcome'[c] = outcome[c]
      BY <2>1, <2>3 DEF OthersStay
    <3>3. InProgress(c) /\ "delete" \notin touched[c]
      BY <2>1, <2>3, <3>2, EffectNotes DEF Base, InProgress
    <3>4. /\ Command(c) \in Pours /\ todo[c] # <<>> /\ s \in Scripts(Command(c))
          /\ Command(c).program \in Programs(c)
      BY <3>1, <3>3, Pours1
    <3>5. \A i \in 1..Len(s) : /\ RowFor(Command(c).program, s[i])
                               /\ s[i].table # "claims"
      BY <3>4, ScriptRows DEF Allowed
    <3>6. \A i \in 1..Len(s) : Landed(s[i]) => Landed(s[i])'
      BY <2>1, <2>3, <3>4, <3>5, WrittenStays
    <3>7. \A i \in 1..Len(s) : s[i].table = "cells" => s[i].program = Command(c).program
      BY <3>5 DEF RowFor
    <3>8. \A i \in 1..Len(s) : s[i].table = "cells" /\ HasFrame(s[i]) => HasFrame(s[i])'
      BY <2>1, <2>3, <3>4, <3>7, WrittenStays
    <3> QED BY <3>1, <3>2, <3>3, <3>6, <3>8 DEF WholeOf
  <2> QED BY <2>2, <2>3
<1> QED BY <1>1, <1>2

\* PourWhole for any clients, files and pistons: a pour that reports success
\* (cmdPour after ensureFrames, or pourExecSQL) has all its rows in the tables,
\* and in cmdPour a frame for every cell, unless the program was reset meanwhile.
THEOREM NoHalfPour == Spec => []PourWhole
<1> DEFINE Whole == \A c \in Clients : WholeOf(c)
<1>1. Init => Whole
  BY DEF Init, WholeOf, InProgress
<1>2. Base /\ Whole /\ [Next]_vars => Whole'
  BY WholeStep
<1>3. Base /\ Whole => PourWhole
  <2> SUFFICES ASSUME Base, Whole, NEW c \in Clients,
                      pc[c] = "ended", outcome[c] \in Success, "delete" \notin touched[c],
                      NEW i \in DOMAIN loc[c].sql
               PROVE  /\ ~Ignoring(loc[c].sql[i]) => Stored(loc[c].sql[i])
                      /\ outcome[c] = "poured" /\ loc[c].sql[i].table = "cells" =>
                           HasFrame(loc[c].sql[i])
    BY DEF PourWhole, Success, HasFrame
  <2> DEFINE s == loc[c].sql
             k == Command(c)
  <2>1. InProgress(c)
    BY DEF InProgress
  <2>2. /\ k \in Pours /\ s \in Scripts(k)
        /\ DOMAIN s = 1..Len(s) /\ Len(s) \in Nat /\ loc[c].at \in Nat
    BY <2>1, Pours1, ScriptLength
  <2>3. /\ loc[c].at > Len(s)
        /\ outcome[c] = "answered" => s \in AnswersTo(k)
    BY DEF Base, Control, CtlOf, Command
  <2>4. \A j \in 1..Len(s) : Landed(s[j])
    BY <2>1, <2>2, <2>3 DEF WholeOf
  <2>5. ASSUME ~Ignoring(s[i]) PROVE Stored(s[i])
    BY <2>2, <2>4, <2>5 DEF Landed, Stored, Same
  <2>6. ASSUME outcome[c] = "poured", s[i].table = "cells" PROVE HasFrame(s[i])
    BY <2>1, <2>2, <2>6 DEF WholeOf
  <2> QED BY <2>5, <2>6
<1> HIDE DEF Whole
<1> QED BY <1>1, <1>2, <1>3, AlwaysBase, PTL DEF Spec

-----------------------------------------------------------------------------
(* At most one of two pours of one file under one name reports success.    *)

\* Row i of a script and row j of another are one row, and not a frame.
Twins(r, q) == ~Ignoring(r) /\ r.table = q.table /\ r.id = q.id

\* Two pours in progress have not both written one row.
ApartAt(c, d) ==
  /\ c # d /\ InProgress(c) /\ InProgress(d) /\ Command(c) = Command(d)
  /\ "delete" \notin touched[c] \cup touched[d]
  => \A i \in 1..Len(loc[c].sql), j \in 1..Len(loc[d].sql) :
       i < loc[c].at /\ j < loc[d].at => ~Twins(loc[c].sql[i], loc[d].sql[j])

\* A step of the first of them.
LEMMA ApartOwn ==
  ASSUME Base, Base', NEW c \in Clients, ClientStep(c) \/ Crash(c), OthersStay(c),
         NEW d \in Clients, WholeOf(d), ApartAt(c, d)
  PROVE  ApartAt(c, d)'
<1> SUFFICES ASSUME c # d, InProgress(c)', InProgress(d)', Command(c)' = Command(d)',
                    "delete" \notin touched'[c] \cup touched'[d]
             PROVE  ApartAt(c, d)'
  BY DEF ApartAt
<1>0. PICK s, t, m, n : s = loc[c].sql /\ t = loc[d].sql /\ m = loc[c].at /\ n = loc[d].at
  OBVIOUS
<1>1. /\ todo'[d] = todo[d] /\ pc'[d] = pc[d] /\ loc'[d] = loc[d] /\ outcome'[d] = outcome[d]
  BY DEF OthersStay
<1>2. InProgress(d) /\ "delete" \notin touched[d]
  <2>1. Effect(c)
    BY ClientEffect DEF Base
  <2> QED BY <1>1, <2>1, EffectNotes DEF Base, InProgress
<1>3. CASE Opens(c)
  <2>1. \A i \in Nat \ {0} : ~(i < loc'[c].at)
    BY <1>3 DEF Opens
  <2> QED BY <2>1 DEF ApartAt
<1>4. ASSUME Writes(c) \/ GoesOn(c)
      PROVE  /\ loc'[c].sql = s /\ m \in Nat \ {0} /\ n \in Nat \ {0}
             /\ Len(s) \in Nat /\ Len(t) \in Nat
             /\ \A i \in 1..Len(s), j \in 1..Len(t) : i < m /\ j < n => ~Twins(s[i], t[j])
  <2>1. InProgress(c) /\ "delete" \notin touched[c] /\ loc'[c].sql = s /\ todo'[c] = todo[c]
    BY <1>0, <1>4 DEF Writes, GoesOn, Stays, InProgress
  <2>2. /\ m \in Nat \ {0} /\ n \in Nat \ {0} /\ Len(s) \in Nat /\ Len(t) \in Nat
    BY <1>0, <1>2, <2>1, Pours1
  <2>3. Command(c) = Command(d)
    BY <1>1, <2>1 DEF Command
  <2> QED BY <1>0, <1>2, <2>1, <2>2, <2>3 DEF ApartAt
<1>5. CASE GoesOn(c)
  BY <1>0, <1>1, <1>4, <1>5 DEF GoesOn, ApartAt
<1>6. CASE Writes(c)
  <2>1. /\ m \in 1..Len(s) /\ Insert(s[m]) /\ ~Fails(s[m]) /\ loc'[c].at = m + 1
    BY <1>0, <1>6 DEF Writes
  <2>2. ASSUME NEW j \in 1..Len(t), j < n PROVE ~Twins(s[m], t[j])
    <3> SUFFICES ASSUME Twins(s[m], t[j]) PROVE FALSE
      OBVIOUS
    <3>1. Accepts(s[m]) /\ ~Ignoring(t[j])
      BY <2>1 DEF Fails, Twins, Ignoring
    <3>2. PICK q \in rows : Same(t[j], q)
      BY <1>0, <1>2, <2>2, <3>1 DEF WholeOf, Landed
    <3>3. q.table = s[m].table /\ q.id = s[m].id
      BY <3>2 DEF Same, Twins
    <3>4. <<q.table, q.id>> \in Keys(q) /\ <<q.table, q.id>> \in Keys(s[m])
      BY <3>3 DEF Keys
    <3> QED BY <3>1, <3>4 DEF Accepts
  <2>3. ASSUME NEW i \in 1..Len(s), NEW j \in 1..Len(t), i < m + 1, j < n
        PROVE  ~Twins(s[i], t[j])
    <3>1. i < m \/ i = m
      BY <1>4, <1>6, <2>1, <2>3
    <3> QED BY <1>4, <1>6, <2>2, <2>3, <3>1
  <2> QED BY <1>0, <1>1, <1>4, <1>6, <2>1, <2>3 DEF ApartAt
<1> QED BY <1>3, <1>5, <1>6, Course

\* A step of anybody, for every two pours.
LEMMA ApartStep ==
  ASSUME Base, \A c \in Clients : WholeOf(c), \A c, d \in Clients : ApartAt(c, d), [Next]_vars
  PROVE  \A c, d \in Clients : ApartAt(c, d)'
<1>1. CASE UNCHANGED vars
  BY <1>1 DEF vars, ApartAt, InProgress, Command
<1>2. CASE Next
  <2>1. PICK a : /\ Effect(a) /\ OthersStay(a)
                 /\ a \in Clients => ClientStep(a) \/ Crash(a)
    BY <1>2, StepOf
  <2>2. Base'
    BY <1>2, StepOf
  <2> SUFFICES ASSUME NEW c \in Clients, NEW d \in Clients PROVE ApartAt(c, d)'
    OBVIOUS
  <2>3. CASE c = a
    BY <2>1, <2>2, <2>3, ApartOwn
  <2>4. CASE d = a
    <3>1. ApartAt(d, c)'
      BY <2>1, <2>2, <2>4, ApartOwn
    <3> QED BY <3>1 DEF ApartAt, Twins, Ignoring
  <2>5. CASE c # a /\ d # a
    <3>1. /\ todo'[c] = todo[c] /\ pc'[c] = pc[c] /\ loc'[c] = loc[c]
          /\ outcome'[c] = outcome[c]
          /\ todo'[d] = todo[d] /\ pc'[d] = pc[d] /\ loc'[d] = loc[d]
          /\ outcome'[d] = outcome[d]
      BY <2>1, <2>5 DEF OthersStay
    <3>2. touched[c] \subseteq touched'[c] /\ touched[d] \subseteq touched'[d]
      BY <2>1, <2>5, EffectNotes DEF Base
    <3> QED BY <3>1, <3>2 DEF ApartAt, InProgress, Command
  <2> QED BY <2>3, <2>4, <2>5
<1> QED BY <1>1, <1>2

\* PouredOnce for any clients and files: of two pours of one file under one
\* name only one reports success, because the primary key lets only one of them
\* write the row their scripts share (cmdPour stops at the first failure).
THEOREM OnePour == Spec => []PouredOnce
<1> DEFINE Whole == \A c \in Clients : WholeOf(c)
           Apart == \A c, d \in Clients : ApartAt(c, d)
<1>1. Init => Whole /\ Apart
  BY DEF Init, WholeOf, ApartAt, InProgress
<1>2. Base /\ Whole /\ Apart /\ [Next]_vars => Whole' /\ Apart'
  BY WholeStep, ApartStep
<1>3. Base /\ Apart => PouredOnce
  <2> SUFFICES ASSUME Base, Apart, NEW c \in Clients, NEW d \in Clients, c # d,
                      pc[c] = "ended", pc[d] = "ended",
                      outcome[c] \in Success, outcome[d] \in Success,
                      Command(c) = Command(d), loc[c].sql # <<>>,
                      "delete" \notin touched[c] \cup touched[d]
               PROVE  FALSE
    BY DEF PouredOnce, Success
  <2> DEFINE s == loc[c].sql
             t == loc[d].sql
             k == Command(c)
  <2>1. InProgress(c) /\ InProgress(d)
    BY DEF InProgress
  <2>2. /\ k \in Pours /\ s \in Scripts(k) /\ t \in Scripts(k)
        /\ DOMAIN s = 1..Len(s) /\ Len(s) \in Nat /\ loc[c].at \in Nat
        /\ DOMAIN t = 1..Len(t) /\ Len(t) \in Nat /\ loc[d].at \in Nat
    BY <2>1, Pours1, ScriptLength
  <2>3. loc[c].at > Len(s) /\ loc[d].at > Len(t)
    BY DEF Base, Control, CtlOf
  <2>4. PICK i \in DOMAIN s, j \in DOMAIN t : Twins(s[i], t[j])
    BY <2>2, OneReadingAssumption DEF Twins
  <2>5. i < loc[c].at /\ j < loc[d].at
    BY <2>2, <2>3
  <2> QED BY <2>1, <2>2, <2>4, <2>5 DEF ApartAt
<1> HIDE DEF Whole, Apart
<1> QED BY <1>1, <1>2, <1>3, AlwaysBase, PTL DEF Spec

-----------------------------------------------------------------------------
(* A reset that nobody disturbed has emptied every table.                  *)

\* What is left for statement i and those after it, of the reset of program P.
LeftAt(P, i, before) ==
  \A r \in rows :
    /\ r.table = "claims" /\ Begins(P, r.cell) => before \/ (i = 1 /\ HasCell(r))
    /\ r.table = "oracles" /\ CellOf(r.cell, P) => i <= 2
    /\ r.table = "yields" /\ CellOf(r.cell, P) => i <= 3
    /\ r.table = "givens" /\ CellOf(r.cell, P) => i <= 4
    /\ r.table = "cells" /\ r.program = P => i <= 5
    /\ r.table = "frames" /\ r.program = P => i <= 6

Resetting(c) == pc[c] = "delete" \/ (pc[c] = "ended" /\ outcome[c] = "reset")

CleanOf(c) ==
  Resetting(c) /\ touched[c] = {} =>
    LeftAt(Command(c).program, loc[c].at, loc[c].before)

\* A client that resets.
LEMMA Resetter ==
  ASSUME Base, NEW c \in Clients, Resetting(c)
  PROVE  /\ Command(c) \in Commands /\ Command(c).op = "reset" /\ todo[c] # <<>>
         /\ Programs(c) = {Command(c).program}
         /\ loc[c].at \in 1..7
         /\ pc[c] = "ended" => loc[c].at = 7
<1>1. /\ CtlOf(todo[c], pc[c], loc[c], outcome[c]) /\ loc[c] \in Locals
      /\ todo[c] # <<>> => Head(todo[c]) \in Commands
  BY AtWork DEF Base
<1>2. Command(c).op = "reset" /\ todo[c] # <<>>
  BY <1>1 DEF CtlOf, Resetting, Command
<1>3. loc[c].at \in 1..7 /\ (pc[c] = "ended" => loc[c].at = 7)
  BY <1>1 DEF CtlOf, Resetting, Locals
<1>4. Programs(c) = {Command(c).program}
  BY <1>2 DEF Programs
<1> QED BY <1>1, <1>2, <1>3, <1>4 DEF Command

\* A row whose cell id begins with the name of a program that is reset is of
\* that program.
LEMMA BeginsWith ==
  ASSUME NEW k \in Commands, k.op = "reset", NEW r, NEW Q, CellOf(r.cell, Q),
         Begins(k.program, r.cell)
  PROVE  Q = k.program
BY NamesAssumption DEF CellOf

\* What others do leaves what is left as it was, unless it is noted.
LEMMA LeftStays ==
  ASSUME Base, NEW a, Effect(a), NEW c \in Clients \ {a}, Resetting(c), touched'[c] = {},
         NEW P, P = Command(c).program, NEW i, NEW b, LeftAt(P, i, b)
  PROVE  LeftAt(P, i, b)'
<1>1. /\ Command(c) \in Commands /\ Command(c).op = "reset" /\ todo[c] # <<>>
      /\ P \in Programs(c)
  BY Resetter
<1>2. /\ \A Q : Adds(a, Q) => Q # P
      /\ Deletes(a) => Command(a).program # P
  BY <1>1, EffectNotes DEF Base
<1>3. ASSUME rows' \subseteq rows,
             \A r \in rows : r.table = "claims" /\ Begins(P, r.cell) /\ HasCell(r) => HasCell(r)'
      PROVE  LeftAt(P, i, b)'
  BY <1>3 DEF LeftAt
<1>4. CASE Quiet(a)
  BY <1>3, <1>4 DEF Quiet, HasCell
<1>5. CASE Unclaims
  BY <1>3, <1>5 DEF Unclaims, HasCell
<1>6. CASE Marks
  <2> SUFFICES ASSUME NEW s \in rows'
               PROVE  /\ s.table = "claims" /\ Begins(P, s.cell) => b \/ (i = 1 /\ HasCell(s)')
                      /\ s.table = "oracles" /\ CellOf(s.cell, P) => i <= 2
                      /\ s.table = "yields" /\ CellOf(s.cell, P) => i <= 3
                      /\ s.table = "givens" /\ CellOf(s.cell, P) => i <= 4
                      /\ s.table = "cells" /\ s.program = P => i <= 5
                      /\ s.table = "frames" /\ s.program = P => i <= 6
    BY DEF LeftAt
  <2>1. PICK r \in rows : Same(r, s)
    BY <1>6 DEF Marks
  <2>2. ASSUME HasCell(r), s.cell = r.cell PROVE HasCell(s)'
    <3>1. PICK q \in rows : q.table = "cells" /\ q.id = s.cell
      BY <2>2 DEF HasCell
    <3>2. PICK t \in rows' : Same(q, t)
      BY <1>6 DEF Marks
    <3> QED BY <3>1, <3>2 DEF Same, HasCell
  <2>3. /\ s.table = r.table
        /\ r.table \in {"claims", "oracles", "yields", "givens"} => s.cell = r.cell
        /\ r.table \in {"cells", "frames"} => s.program = r.program
    BY <2>1 DEF Same, Owned
  <2> QED BY <2>2, <2>3 DEF LeftAt
<1>7. CASE Deletes(a)
  <2> DEFINE Q == Command(a).program
             t == DeletionOrder[loc[a].at]
  <2>1. rows' = IF Refused(t, Q) THEN rows ELSE rows \ Doomed(t, Q)
    BY <1>7 DEF Deletes
  <2>2. Q # P
    BY <1>2, <1>7
  <2> HIDE DEF Q, t
  <2>3. ASSUME NEW r \in rows, Begins(P, r.cell), HasCell(r) PROVE HasCell(r)'
    <3>1. PICK q \in rows : q.table = "cells" /\ q.id = r.cell
      BY <2>3 DEF HasCell
    <3>2. CellOf(r.cell, q.program)
      BY <3>1 DEF Base, RowsOK, RowFor, IsCell, CellOf
    <3>3. q.program = P
      BY <1>1, <2>3, <3>2, BeginsWith
    <3>4. q \in rows'
      BY <2>1, <2>2, <3>1, <3>3 DEF Doomed
    <3> QED BY <3>1, <3>4 DEF HasCell
  <2> QED BY <1>3, <2>1, <2>3
<1>8. CASE \E Q : Adds(a, Q)
  <2>1. PICK Q : Adds(a, Q)
    BY <1>8
  <2>2. CASE rows' = rows
    BY <1>3, <2>2 DEF HasCell
  <2>3. CASE rows' # rows
    <3>1. PICK r : RowFor(Q, r) /\ rows' = rows \cup {r}
      BY <2>1, <2>3 DEF Adds
    <3>2. Q # P
      BY <1>2, <2>1
    <3>3. ~(r.table = "claims" /\ Begins(P, r.cell))
      BY <1>1, <3>1, <3>2, BeginsWith DEF RowFor
    <3>4. r.table \in Owned => ~CellOf(r.cell, P)
      BY <3>1, <3>2, OneCell DEF RowFor
    <3>5. r.table \in {"cells", "frames"} => r.program # P
      BY <3>1, <3>2 DEF RowFor
    <3>6. \A q \in rows : HasCell(q) => HasCell(q)'
      BY <3>1 DEF HasCell
    <3> QED BY <3>1, <3>3, <3>4, <3>5, <3>6 DEF LeftAt, Owned
  <2> QED BY <2>2, <2>3
<1> QED BY <1>4, <1>5, <1>6, <1>7, <1>8 DEF Effect

\* A statement of the reset empties its table.
LEMMA DeleteEmpties ==
  ASSUME Base, NEW c \in Clients, Delete(c), NEW P, P = Command(c).program,
         NEW i, i = loc[c].at, NEW b, LeftAt(P, i, b)
  PROVE  LeftAt(P, i + 1, b)'
<1> DEFINE t == DeletionOrder[i]
<1>1. Command(c) \in Commands /\ Command(c).op = "reset" /\ i \in 1..7 /\ i <= 6
  BY Resetter DEF Delete, Resetting, DeletionOrder
<1>2. rows' = IF Refused(t, P) THEN rows ELSE rows \ Doomed(t, P)
  BY DEF Delete
<1>3. /\ i = 1 => t = "claims"
      /\ i = 2 => t = "oracles"
      /\ i = 3 => t = "yields"
      /\ i = 4 => t = "givens"
      /\ i = 5 => t = "cells"
      /\ i = 6 => t = "frames"
  BY DEF DeletionOrder
<1> HIDE DEF t
<1>4. \A q \in rows : q.table = "cells" => CellOf(q.id, q.program)
  BY DEF Base, RowsOK, RowFor, IsCell, CellOf
<1>5. ASSUME NEW r \in rows, HasCell(r), r.table = t, t \in {"claims", "oracles", "yields", "givens"},
             Begins(P, r.cell) \/ CellOf(r.cell, P)
      PROVE  r \notin rows'
  <2>1. PICK q \in rows : q.table = "cells" /\ q.id = r.cell
    BY <1>5 DEF HasCell
  <2>2. q.program = P
    BY <1>1, <1>4, <1>5, <2>1, BeginsWith, OneCell
  <2> QED BY <1>2, <1>5, <2>1, <2>2 DEF Refused, Doomed, CellsOf
<1>6. \A r \in rows : r.table \in Owned => HasCell(r)
  BY DEF Base, RowsOK
<1>7. rows' \subseteq rows
  BY <1>2
<1>8. ASSUME i >= 5 PROVE ~Refused(t, P)
  <2> SUFFICES ASSUME NEW r \in rows, r.table \in Owned, NEW q \in CellsOf(P), q.id = r.cell
               PROVE  FALSE
    BY DEF Refused
  <2>1. CellOf(r.cell, P)
    BY <1>4 DEF CellsOf
  <2> QED BY <1>1, <1>8, <2>1 DEF LeftAt, Owned
<1>9. ASSUME NEW r \in rows', r.table = "claims", Begins(P, r.cell), ~b PROVE FALSE
  BY <1>1, <1>3, <1>5, <1>7, <1>9 DEF LeftAt
<1>10. ASSUME NEW r \in rows', r.table \in Owned, CellOf(r.cell, P)
       PROVE  /\ r.table = "oracles" => i + 1 <= 2
              /\ r.table = "yields" => i + 1 <= 3
              /\ r.table = "givens" => i + 1 <= 4
  <2>1. r \in rows /\ HasCell(r)
    BY <1>6, <1>7, <1>10
  <2>2. /\ r.table = "oracles" => i <= 2
        /\ r.table = "yields" => i <= 3
        /\ r.table = "givens" => i <= 4
    BY <1>10, <2>1 DEF LeftAt
  <2>3. r.table # t
    BY <1>5, <1>10, <2>1 DEF Owned
  <2> QED BY <1>1, <1>3, <2>2, <2>3
<1>11. ASSUME NEW r \in rows', r.program = P
       PROVE  /\ r.table = "cells" => i + 1 <= 5
              /\ r.table = "frames" => i + 1 <= 6
  <2>1. /\ r.table = "cells" => i <= 5
        /\ r.table = "frames" => i <= 6
    BY <1>7, <1>11 DEF LeftAt
  <2>2. ASSUME i >= 5 PROVE r.table # t \/ t \notin {"cells", "frames"}
    BY <1>2, <1>7, <1>8, <1>11, <2>2 DEF Doomed
  <2> QED BY <1>1, <1>3, <2>1, <2>2
<1> QED BY <1>9, <1>10, <1>11 DEF LeftAt, Owned

\* A step of the client that resets.
LEMMA CleanOwn ==
  ASSUME Base, NEW c \in Clients, ClientStep(c) \/ Crash(c), CleanOf(c)
  PROVE  CleanOf(c)'
<1> DEFINE r == loc[c]
<1>a. Control /\ touched \in [Clients -> SUBSET {"insert", "delete"}] /\ r \in Locals
  BY AtWork DEF Base, Noted
<1>1. CASE ResetCount(c)
  <2> DEFINE P == Command(c).program
             b == \E q \in rows : Stray(q) /\ Begins(P, q.cell)
             s == [NoLocals EXCEPT !.before = b]
  <2>1. CASE CellsOf(P) = {}
    <3>1. pc'[c] = "ended" /\ outcome'[c] = "nothing"
      BY <1>1, <1>a, <2>1 DEF ResetCount, End, Goto, Control
    <3> QED BY <3>1 DEF CleanOf, Resetting
  <2>2. CASE CellsOf(P) # {}
    <3>1. loc' = [loc EXCEPT ![c] = s] /\ UNCHANGED <<rows, todo>>
      BY <1>1, <2>2 DEF ResetCount, Starts
    <3>2. s.at = 1 /\ s.before = b
      BY DEF NoLocals
    <3>3. LeftAt(P, 1, b)
      BY DEF LeftAt, Stray, HasCell
    <3> HIDE DEF s, b
    <3>4. loc'[c].at = 1 /\ loc'[c].before = b
      BY <1>a, <3>1, <3>2 DEF Control
    <3>5. PICK B, R : B = b /\ R = P
      OBVIOUS
    <3>6. LeftAt(R, 1, B)'
      BY <3>1, <3>3, <3>5 DEF LeftAt, HasCell
    <3>7. Command(c)' = Command(c)
      BY <3>1 DEF Command
    <3> QED BY <3>4, <3>5, <3>6, <3>7 DEF CleanOf
  <2> QED BY <2>1, <2>2
<1>2. CASE Delete(c)
  <2> SUFFICES ASSUME touched'[c] = {} PROVE CleanOf(c)'
    BY DEF CleanOf
  <2>1. /\ pc[c] = "delete" /\ todo' = todo /\ touched'[c] = touched[c]
        /\ loc'[c].at = r.at + 1 /\ loc'[c].before = r.before
    BY <1>2, <1>a DEF Delete, At, Touch, Control, Locals
  <2>2. PICK P, i, b : P = Command(c).program /\ i = r.at /\ b = r.before
    OBVIOUS
  <2>3. LeftAt(P, i, b)
    BY <2>1, <2>2 DEF CleanOf, Resetting
  <2>4. LeftAt(P, i + 1, b)'
    BY <1>2, <2>2, <2>3, DeleteEmpties
  <2> QED BY <2>1, <2>2, <2>4 DEF CleanOf, Command
<1>3. CASE ResetEnds(c)
  BY <1>3, <1>a DEF ResetEnds, End, CleanOf, Resetting, Command, LeftAt, HasCell
<1>4. CASE ~(ResetCount(c) \/ Delete(c) \/ ResetEnds(c))
  <2>1. pc'[c] # "delete" /\ (pc'[c] = "ended" => outcome'[c] # "reset")
    <3>1. CASE PourCount(c)
      <4>1. CASE CellsOf(Command(c).program) # {} \/ Command(c).file.reading = "error"
        BY <1>a, <3>1, <4>1 DEF PourCount, End, Goto, Control
      <4>2. CASE ~(CellsOf(Command(c).program) # {} \/ Command(c).file.reading = "error")
        <5>1. Command(c).file.reading \in {"cells", "nil"}
          <6>1. Command(c) \in Pours
            BY <3>1, <1>a DEF PourCount, Starts, Pours, Command, Control
          <6> QED BY <4>2, <6>1, Bounds
        <5> QED BY <1>a, <3>1, <4>2, <5>1 DEF PourCount, Goto, Control
      <4> QED BY <4>1, <4>2
    <3>2. CASE ~PourCount(c)
      BY <1>4, <1>a, <3>2 DEF ClientStep, Pour, Eval, Reset, Crash, PourInsert, ReadCells,
        EnsureFrame, PourEnds, CheckCache, CheckExists, CreateSource, Creates, FreezeSource,
        CreateParse, Poll, LooksForAnswer, TimesOut, Sandbox, ExecAnswer, ExecEnds, EvalCount,
        RequestCount, EvalInsert, NextCommand, Goto, End, At, Control
    <3> QED BY <3>1, <3>2
  <2> QED BY <2>1 DEF CleanOf, Resetting
<1> QED BY <1>1, <1>2, <1>3, <1>4

\* A step of anybody, for all resets.
LEMMA CleanStep ==
  ASSUME Base, \A c \in Clients : CleanOf(c), [Next]_vars
  PROVE  \A c \in Clients : CleanOf(c)'
<1>1. CASE UNCHANGED vars
  BY <1>1 DEF vars, CleanOf, Resetting, LeftAt, HasCell, Command
<1>2. CASE Next
  <2>1. PICK a : /\ Effect(a) /\ OthersStay(a)
                 /\ a \in Clients => ClientStep(a) \/ Crash(a)
    BY <1>2, StepOf
  <2> SUFFICES ASSUME NEW c \in Clients PROVE CleanOf(c)'
    OBVIOUS
  <2>2. CASE c = a
    BY <2>1, <2>2, CleanOwn
  <2>3. CASE c # a
    <3> SUFFICES ASSUME Resetting(c)', touched'[c] = {} PROVE CleanOf(c)'
      BY DEF CleanOf
    <3>1. /\ todo'[c] = todo[c] /\ pc'[c] = pc[c] /\ loc'[c] = loc[c]
          /\ outcome'[c] = outcome[c]
      BY <2>1, <2>3 DEF OthersStay
    <3>2. Resetting(c) /\ touched[c] = {}
      BY <2>1, <2>3, <3>1, EffectNotes DEF Base, Resetting
    <3>3. PICK P, i, b : P = Command(c).program /\ i = loc[c].at /\ b = loc[c].before
      OBVIOUS
    <3>4. LeftAt(P, i, b)
      BY <3>2, <3>3 DEF CleanOf
    <3>5. LeftAt(P, i, b)'
      BY <2>1, <2>3, <3>2, <3>3, <3>4, LeftStays
    <3> QED BY <3>1, <3>3, <3>5 DEF CleanOf, Command
  <2> QED BY <2>2, <2>3
<1> QED BY <1>1, <1>2

\* ResetComplete for any clients, files and pistons: when no INSERT came
\* between, cmdReset (resetProgram's six DELETEs, which find their rows through
\* cells) has left no row of the program, but for claims that had lost their
\* cell before it began.
THEOREM ResetClean == Spec => []ResetComplete
<1> DEFINE Clean == \A c \in Clients : CleanOf(c)
<1>1. Init => Clean
  BY DEF Init, CleanOf, Resetting
<1>2. Base /\ Clean /\ [Next]_vars => Clean'
  BY CleanStep
<1>3. Base /\ Clean => ResetComplete
  <2> SUFFICES ASSUME Base, Clean, NEW c \in Clients,
                      pc[c] = "ended", outcome[c] = "reset", touched[c] = {},
                      NEW r \in rows, ~(r.table = "claims" /\ loc[c].before)
               PROVE  IF r.table \in {"cells", "frames"} THEN r.program # Command(c).program
                      ELSE ~Begins(Command(c).program, r.cell)
    BY DEF ResetComplete
  <2> DEFINE P == Command(c).program
  <2>1. /\ Command(c) \in Commands /\ Command(c).op = "reset" /\ loc[c].at = 7
        /\ LeftAt(P, 7, loc[c].before)
    BY Resetter DEF Resetting, CleanOf
  <2>2. PICK Q : RowFor(Q, r)
    BY DEF Base, RowsOK
  <2>3. CASE r.table \in {"cells", "frames"}
    BY <2>1, <2>3 DEF LeftAt
  <2>4. CASE r.table = "claims"
    BY <2>1, <2>4 DEF LeftAt
  <2>5. CASE r.table \in Owned
    <3> SUFFICES ASSUME Begins(P, r.cell) PROVE FALSE
      BY <2>5 DEF Owned
    <3>1. CellOf(r.cell, P)
      BY <2>1, <2>2, <2>5, BeginsWith DEF RowFor
    <3> QED BY <2>1, <2>5, <3>1 DEF LeftAt, Owned
  <2> QED BY <2>2, <2>3, <2>4, <2>5 DEF RowFor, Allowed, Owned
<1> HIDE DEF Clean
<1> QED BY <1>1, <1>2, <1>3, AlwaysBase, PTL DEF Spec
=============================================================================
