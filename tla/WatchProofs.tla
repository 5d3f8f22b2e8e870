---------------------------- MODULE WatchProofs ----------------------------
(***************************************************************************)
(* What ct watch keeps to for every set of programs and cells, every       *)
(* filter, every answer of the database and any order of keys, ticks and   *)
(* answers: there is one refresh timer, the detail pane neither shows a    *)
(* cell it does not wait for nor, once a move made it wait, loses the      *)
(* answer, and a move of the cursor leaves it on screen but for the lines  *)
(* that cursorLine does not count.                                         *)
(***************************************************************************)
EXTENDS Watch, ListFacts

\* The types the argument needs.
Typed ==
  /\ shown \in Snapshots \cup {<<>>}
  /\ ticks \in Nat /\ fetches \in Nat
  /\ asked \in [Cells -> Nat]
  /\ detail \in Cells \cup {NoCell} /\ detailCell \in Cells \cup {NoCell}

IInv == Typed /\ OneTimer /\ DetailMatches /\ MoveLoads


-----------------------------------------------------------------------------
\* The cells of an answer are cells of the database.
LEMMA ShownCells ==
  ASSUME shown \in Snapshots \cup {<<>>}
  PROVE  DOMAIN shown \subseteq Cells
<1>1. CASE shown \in Snapshots
  BY <1>1, WatchAssumption
<1>2. CASE shown = <<>>
  BY <1>2
<1> QED BY <1>1, <1>2

\* What the cursor points to is a cell or nothing.
LEMMA CellAtType ==
  ASSUME shown \in Snapshots \cup {<<>>}, NEW n
  PROVE  CellAt(n) \in Cells \cup {NoCell}
<1> DEFINE there == {c \in DOMAIN shown : /\ n \in 0..(Len(NavItems) - 1)
                                         /\ NavItems[n + 1].kind = "cell"
                                         /\ NavItems[n + 1].of = c}
<1>1. CellAt(n) = IF there = {} THEN NoCell ELSE CHOOSE c \in there : TRUE
  BY DEF CellAt
<1>2. there \subseteq Cells
  BY ShownCells
<1> HIDE DEF there
<1> QED BY <1>1, <1>2

\* Asking adds a query for the cell at n and leaves the others alone.
LEMMA AskAsks ==
  ASSUME Typed, NEW n, Ask(n)
  PROVE  /\ asked' \in [Cells -> Nat]
         /\ CellAt(n) # NoCell => asked'[CellAt(n)] > 0
         /\ \A c \in Cells : asked'[c] >= asked[c]
<1>1. CellAt(n) \in Cells \cup {NoCell}
  BY CellAtType DEF Typed
<1>2. CASE CellAt(n) = NoCell
  BY <1>2 DEF Ask, Typed
<1>3. CASE CellAt(n) # NoCell
  <2>1. asked' = [asked EXCEPT ![CellAt(n)] = @ + 1]
    BY <1>3 DEF Ask
  <2>2. CellAt(n) \in Cells
    BY <1>1, <1>3
  <2> QED BY <2>1, <2>2 DEF Typed
<1> QED BY <1>2, <1>3

-----------------------------------------------------------------------------
\* Steps of the event loop, by what they do to the timer and the pane.

\* Most keys leave both alone.
LEMMA QuietKeeps ==
  ASSUME IInv,
         UNCHANGED <<shown, ticks, fetches>>,
         UNCHANGED <<asked, detail, detailCell>>
  PROVE  IInv'
BY DEF IInv, Typed, OneTimer, DetailMatches, MoveLoads

\* A move lets go of the cell shown and asks for the new one in one step.
LEMMA MoveKeeps ==
  ASSUME IInv, NEW n, MoveTo(n)
  PROVE  IInv'
<1> USE DEF IInv
<1>1. UNCHANGED <<shown, ticks, fetches>>
  BY DEF MoveTo, fetchVars
<1>2. CASE showDetail /\ CellAt(n) # detailCell
  <2>1. detailCell' = CellAt(n) /\ detail' = NoCell /\ Ask(n)
    BY <1>2 DEF MoveTo
  <2>2. CellAt(n) \in Cells \cup {NoCell}
    BY CellAtType DEF Typed
  <2>3. /\ asked' \in [Cells -> Nat]
        /\ CellAt(n) # NoCell => asked'[CellAt(n)] > 0
    BY <2>1, AskAsks
  <2>4. Typed'
    BY <1>1, <2>1, <2>2, <2>3 DEF Typed
  <2>5. OneTimer'
    BY <1>1 DEF OneTimer
  <2>6. DetailMatches' /\ MoveLoads'
    BY <2>1, <2>3 DEF DetailMatches, MoveLoads
  <2> QED BY <2>4, <2>5, <2>6
<1>3. CASE ~(showDetail /\ CellAt(n) # detailCell)
  <2>1. UNCHANGED <<asked, detail, detailCell>>
    BY <1>3 DEF MoveTo
  <2> QED BY <1>1, <2>1, QuietKeeps
<1> QED BY <1>2, <1>3

\* j and k move, or end the program.
LEMMA StepKeeps ==
  ASSUME IInv, NEW n, Step(n)
  PROVE  IInv'
<1>1. MoveTo(n) \/ UNCHANGED <<fetchVars, listVars, detailVars, viewVars, showHelp>>
  BY DEF Step
<1>2. CASE UNCHANGED <<fetchVars, listVars, detailVars, viewVars, showHelp>>
  BY <1>2, QuietKeeps DEF fetchVars, detailVars
<1> QED BY <1>1, <1>2, MoveKeeps

\* Every key that moves the cursor.
LEMMA MovesKeep ==
  ASSUME IInv, Move
  PROVE  IInv'
<1>1. CASE Down
  BY <1>1, StepKeeps DEF Down
<1>2. CASE Up
  BY <1>2, StepKeeps DEF Up
<1>3. CASE JumpToBottom
  BY <1>3, MoveKeeps DEF JumpToBottom
<1>4. CASE JumpToTop
  BY <1>4, MoveKeeps DEF JumpToTop
<1>5. CASE NextProgram
  BY <1>5, MoveKeeps DEF NextProgram
<1>6. CASE PreviousProgram
  BY <1>6, MoveKeeps DEF PreviousProgram
<1> QED BY <1>1, <1>2, <1>3, <1>4, <1>5, <1>6 DEF Move

\* Opening the pane only asks; closing it does not even that.
LEMMA ToggleKeeps ==
  ASSUME IInv, ToggleDetail
  PROVE  IInv'
<1> USE DEF IInv
<1>1. UNCHANGED <<shown, ticks, fetches, detail, detailCell>>
  BY DEF ToggleDetail, fetchVars
<1>2. CASE showDetail
  BY <1>1, <1>2, QuietKeeps DEF ToggleDetail
<1>3. CASE ~showDetail
  <2>1. Ask(cursor)
    BY <1>3 DEF ToggleDetail
  <2>2. asked' \in [Cells -> Nat] /\ \A c \in Cells : asked'[c] >= asked[c]
    BY <2>1, AskAsks
  <2>3. Typed' /\ OneTimer' /\ DetailMatches'
    BY <1>1, <2>2 DEF Typed, OneTimer, DetailMatches
  <2>4. MoveLoads'
    BY <1>1, <2>2 DEF MoveLoads, Typed
  <2> QED BY <2>3, <2>4
<1> QED BY <1>2, <1>3

\* The other keys have nothing to do with the timer or the pane's cell.
LEMMA OtherKeysKeep ==
  ASSUME IInv,
         \/ Enter \/ ExpandAll \/ CollapseAll \/ ToggleActive \/ Search \/ Escape
         \/ FilterType \/ FilterBackspace \/ FilterEscape \/ FilterEnter \/ Help
  PROVE  IInv'
<1>1. UNCHANGED <<shown, ticks, fetches, asked, detail, detailCell>>
  <2>1. CASE Enter
    BY <2>1 DEF Enter, fetchVars, detailVars
  <2>2. CASE ExpandAll \/ CollapseAll
    BY <2>2 DEF ExpandAll, CollapseAll, fetchVars, detailVars
  <2>3. CASE ToggleActive \/ Search \/ Help
    BY <2>3 DEF ToggleActive, Search, Help, fetchVars, detailVars
  <2>4. CASE Escape
    BY <2>4 DEF Escape, FilterKey, fetchVars, detailVars
  <2>5. CASE FilterType \/ FilterBackspace \/ FilterEscape
    BY <2>5 DEF FilterType, FilterBackspace, FilterEscape, FilterKey, fetchVars, detailVars
  <2>6. CASE FilterEnter
    BY <2>6 DEF FilterEnter, fetchVars, detailVars
  <2> QED BY <2>1, <2>2, <2>3, <2>4, <2>5, <2>6
<1> QED BY <1>1, QuietKeeps

\* A query that ends starts the timer, a timer that fires the query.
LEMMA TimerKeeps ==
  ASSUME IInv, DataArrives \/ TickRefresh
  PROVE  IInv'
<1> USE DEF IInv
<1>1. UNCHANGED <<asked, detail, detailCell>>
  BY DEF DataArrives, DataFetched, DataFailed, Listed, TickRefresh, TickWaits, TickFetches,
         detailVars
<1>2. DetailMatches' /\ MoveLoads'
  BY <1>1 DEF DetailMatches, MoveLoads
<1>3. CASE DataArrives
  <2>1. shown' \in Snapshots \cup {<<>>}
    BY <1>3 DEF DataArrives, DataFetched, DataFailed, Typed
  <2>2. fetches > 0 /\ fetches' = fetches - 1 /\ ticks' = ticks + 1
    BY <1>3 DEF DataArrives, DataFetched, DataFailed, Listed
  <2>3. Typed' /\ OneTimer'
    BY <1>1, <2>1, <2>2 DEF Typed, OneTimer
  <2> QED BY <1>2, <2>3
<1>4. CASE TickWaits
  <2>1. UNCHANGED <<shown, ticks, fetches>>
    BY <1>4 DEF TickWaits
  <2> QED BY <1>1, <2>1, QuietKeeps
<1>5. CASE TickFetches
  <2>1. ticks > 0 /\ ticks' = ticks - 1 /\ fetches' = fetches + 1 /\ shown' = shown
    BY <1>5 DEF TickFetches
  <2>2. Typed' /\ OneTimer'
    BY <1>1, <2>1 DEF Typed, OneTimer
  <2> QED BY <1>2, <2>2
<1> QED BY <1>3, <1>4, <1>5 DEF TickRefresh

\* An answer is taken off the queries of its cell; if the pane waits for that
\* cell it waits no longer, and if not, its own query is still counted.
LEMMA AnswerKeeps ==
  ASSUME IInv, NEW c \in Cells, DetailData(c)
  PROVE  IInv'
<1> USE DEF IInv
<1>1. UNCHANGED <<shown, ticks, fetches, detailCell>>
  BY DEF DetailData, fetchVars
<1>2. asked[c] > 0 /\ asked' = [asked EXCEPT ![c] = @ - 1]
  BY DEF DetailData
<1>3. detail' = IF c = detailCell THEN c ELSE detail
  BY DEF DetailData
<1>4. Typed' /\ OneTimer'
  BY <1>1, <1>2, <1>3 DEF Typed, OneTimer
<1>5. DetailMatches'
  BY <1>1, <1>3 DEF DetailMatches
<1>6. MoveLoads'
  <2>1. CASE c = detailCell
    BY <1>3, <2>1, WatchAssumption DEF MoveLoads
  <2>2. CASE c # detailCell
    BY <1>1, <1>2, <1>3, <2>2 DEF MoveLoads, Typed
  <2> QED BY <2>1, <2>2
<1> QED BY <1>4, <1>5, <1>6

-----------------------------------------------------------------------------
\* The display starts with one query under way and an empty pane.
LEMMA InitHolds == Init => IInv
BY DEF Init, IInv, Typed, OneTimer, DetailMatches, MoveLoads

\* Every step of the display keeps the types and the three properties.
LEMMA NextKeeps == IInv /\ [Next]_vars => IInv'
<1> SUFFICES ASSUME IInv, [Next]_vars PROVE IInv'
  OBVIOUS
<1>1. CASE Key
  <2>1. CASE Move
    BY <2>1, MovesKeep
  <2>2. CASE ToggleDetail
    BY <2>2, ToggleKeeps
  <2>3. CASE \/ Enter \/ ExpandAll \/ CollapseAll \/ ToggleActive \/ Search \/ Escape
             \/ FilterType \/ FilterBackspace \/ FilterEscape \/ FilterEnter \/ Help
    BY <2>3, OtherKeysKeep
  <2> QED BY <1>1, <2>1, <2>2, <2>3 DEF Key
<1>2. CASE Message
  <2>1. CASE WindowSize
    BY <2>1, QuietKeeps DEF WindowSize, fetchVars, detailVars
  <2>2. CASE DataArrives \/ TickRefresh
    BY <2>2, TimerKeeps
  <2>3. CASE \E c \in Cells : DetailData(c)
    BY <2>3, AnswerKeeps
  <2> QED BY <1>2, <2>1, <2>2, <2>3 DEF Message
<1>3. CASE UNCHANGED vars
  BY <1>3, QuietKeeps DEF vars, fetchVars, detailVars
<1> QED BY <1>1, <1>2, <1>3 DEF Next

\* The refresh neither stops nor doubles, whatever fails and whoever types.
THEOREM OneTimerAlways == Spec => []OneTimer
<1>1. Spec => []IInv
  BY InitHolds, NextKeeps, PTL DEF Spec
<1>2. IInv => OneTimer
  BY DEF IInv
<1> QED BY <1>1, <1>2, PTL

\* The pane never shows a cell other than the one it waits for, however late
\* and in whatever order the answers to its queries come.
THEOREM DetailMatchesAlways == Spec => []DetailMatches
<1>1. Spec => []IInv
  BY InitHolds, NextKeeps, PTL DEF Spec
<1>2. IInv => DetailMatches
  BY DEF IInv
<1> QED BY <1>1, <1>2, PTL

\* While the pane waits for a cell that a move made it wait for, a query for
\* that cell is under way.
THEOREM MoveLoadsAlways == Spec => []MoveLoads
<1>1. Spec => []IInv
  BY InitHolds, NextKeeps, PTL DEF Spec
<1>2. IInv => MoveLoads
  BY DEF IInv
<1> QED BY <1>1, <1>2, PTL

-----------------------------------------------------------------------------
(* Types.  What is listed is a list of items, and what is drawn takes a    *)
(* number of lines, however long the list.                                 *)

Items ==
  [kind : {"program"}, of : ToSet(Programs), state : {"none"}]
  \cup [kind : {"cell"}, of : Cells, state : States]

\* Where returns a list of what it was given.
LEMMA CellsOfType ==
  ASSUME NEW p
  PROVE  CellsOf(p) \in Seq(Cells)
<1> DEFINE T == {i \in 1..Len(Order) : ProgOf[Order[i]] = p}
           Def(f) == f = [i \in 0..Len(Order) |->
                            IF i = 0 THEN <<>>
                            ELSE IF ProgOf[Order[i]] = p THEN Append(f[i - 1], Order[i])
                                 ELSE f[i - 1]]
           g == CHOOSE f : Def(f)
<1> SUFFICES g[Len(Order)] \in Seq(Cells)
  BY DEF CellsOf, Where
<1>1. Order \in Seq(Cells) /\ Len(Order) \in Nat
  BY WatchAssumption
<1>2. \A i \in 0..Len(Order) : i # 0 => (i \in T <=> ProgOf[Order[i]] = p)
  BY <1>1
<1>3. ASSUME NEW f PROVE Def(f) <=> Chooses(f, Order, T)
  BY <1>2 DEF Chooses
<1>4. \E f : Def(f)
  BY <1>1, <1>3, ChoosesExists
<1>5. Def(g)
  BY <1>4
<1> HIDE DEF g, Def, T
<1>6. Chooses(g, Order, T)
  BY <1>3, <1>5
<1> QED BY <1>1, <1>6, ChoosesType

\* The rows of a program are items, and so are all rows.
LEMMA RowsType ==
  ASSUME NEW p \in ToSet(Programs)
  PROVE  Rows(p) \in Seq(Items)
<1> DEFINE cells == CellsOf(p)
           row(r, i) == [kind |-> "cell", of |-> cells[i], state |-> Ranked[r]]
           rank(r) == [i \in DOMAIN cells |-> row(r, i)]
           head == [kind |-> "program", of |-> p, state |-> "none"]
           ranks == [r \in 1..4 |-> rank(r)]
<1>1. cells \in Seq(Cells)
  BY CellsOfType
<1>2. Rows(p) = <<head>> \o FlattenSeq(ranks)
  BY DEF Rows
<1> HIDE DEF cells
<1>3. ASSUME NEW r \in 1..4 PROVE rank(r) \in Seq(Items)
  <2>1. Ranked[r] \in States
    BY DEF Ranked, States
  <2>2. Len(cells) \in Nat /\ DOMAIN cells = 1..Len(cells)
    BY <1>1
  <2>3. ASSUME NEW i \in 1..Len(cells) PROVE row(r, i) \in Items
    <3>1. cells[i] \in Cells
      BY <1>1
    <3> QED BY <2>1, <3>1 DEF Items
  <2> HIDE DEF row
  <2>4. rank(r) = [i \in 1..Len(cells) |-> row(r, i)]
    BY <2>2
  <2> QED BY <2>2, <2>3, <2>4, IsASeq
<1> HIDE DEF rank
<1>4. ranks \in Seq(Seq(Items))
  BY <1>3, IsASeq
<1>5. FlattenSeq(ranks) \in Seq(Items)
  BY <1>4, FlattenType
<1>6. head \in Items
  BY DEF Items
<1> HIDE DEF head, ranks
<1>7. <<head>> \in Seq(Items)
  BY <1>6
<1> QED BY <1>2, <1>5, <1>7, ConcatProperties

LEMMA CandidatesType == Candidates \in Seq(Items)
<1> DEFINE all == [i \in DOMAIN Programs |-> Rows(Programs[i])]
           n == Len(Programs)
<1>1. n \in Nat /\ DOMAIN Programs = 1..n /\ \A i \in 1..n : Programs[i] \in ToSet(Programs)
  BY WatchAssumption DEF ToSet
<1>2. ASSUME NEW i \in 1..n PROVE Rows(Programs[i]) \in Seq(Items)
  BY <1>1, RowsType
<1>3. all = [i \in 1..n |-> Rows(Programs[i])]
  BY <1>1
<1> HIDE DEF n
<1>4. all \in Seq(Seq(Items))
  BY <1>1, <1>2, <1>3, IsASeq
<1> QED BY <1>4, FlattenType DEF Candidates

\* The list is made of items, whatever is shown.
LEMMA NavItemsType == NavItems \in Seq(Items)
<1> DEFINE s == Candidates
           T == {i \in 1..Len(s) : Lists(s[i])}
           Def(f) == f = [i \in 0..Len(s) |->
                            IF i = 0 THEN <<>>
                            ELSE IF Lists(s[i]) THEN Append(f[i - 1], s[i]) ELSE f[i - 1]]
           g == CHOOSE f : Def(f)
<1>1. s \in Seq(Items) /\ Len(s) \in Nat
  BY CandidatesType
<1>2. NavItems = g[Len(s)]
  BY DEF Where, NavItems
<1> HIDE DEF s
<1>3. \A i \in 0..Len(s) : i # 0 => (i \in T <=> Lists(s[i]))
  BY <1>1
<1>4. ASSUME NEW f PROVE Def(f) <=> Chooses(f, s, T)
  BY <1>3 DEF Chooses
<1>5. \E f : Def(f)
  BY <1>1, <1>4, ChoosesExists
<1>6. Def(g)
  BY <1>5
<1> HIDE DEF g, Def, T
<1>7. Chooses(g, s, T)
  BY <1>4, <1>6
<1> QED BY <1>1, <1>2, <1>7, ChoosesType

\* So it is in the next state.
LEMMA NavItemsTypeNext == (NavItems \in Seq(Items))'
BY NavItemsType, PTL

\* Greatest and least of two numbers.
LEMMA MaxOfTwo ==
  ASSUME NEW a \in Int, NEW b \in Int
  PROVE  Max({a, b}) = IF a >= b THEN a ELSE b
BY DEF Max

LEMMA MinOfTwo ==
  ASSUME NEW a \in Int, NEW b \in Int
  PROVE  Min({a, b}) = IF a <= b THEN a ELSE b
BY DEF Min

\* What each item adds to the lines drawn.
Extra(item, more) ==
  IF IsOpen(item) THEN more[item.of] ELSE IF ShownInline(item) THEN more[item.of] - 1 ELSE 0
Heights(items, more) == [j \in 1..Len(items) |-> 1 + Extra(items[j], more)]

\* A yield takes a line or more.
AtLeastYields(more) == \A c \in Cells : more[c] \in Nat /\ more[c] >= Yields[c]

\* A value may take several lines, and cursorLine counts one.
LEMMA LinesAreEnough ==
  AtLeastYields(Lines) /\ AtLeastYields(Yields) /\ \A c \in Cells : Yields[c] \in Nat
BY WatchAssumption DEF AtLeastYields

\* An item takes a line or more.
LEMMA HeightsType ==
  ASSUME NEW items \in Seq(Items), NEW more, AtLeastYields(more)
  PROVE  \A j \in 1..Len(items) : Heights(items, more)[j] \in Nat \ {0}
<1> SUFFICES ASSUME NEW j \in 1..Len(items)
             PROVE  Heights(items, more)[j] \in Nat \ {0}
  OBVIOUS
<1>1. items[j] \in Items
  OBVIOUS
<1>2. IsOpen(items[j]) \/ ShownInline(items[j]) => items[j].of \in Cells
  BY <1>1 DEF IsOpen, ShownInline, Items
<1>3. ShownInline(items[j]) => Yields[items[j].of] = 1
  BY DEF ShownInline
<1>4. Extra(items[j], more) \in Nat
  BY <1>2, <1>3 DEF Extra, AtLeastYields
<1>5. Heights(items, more)[j] = 1 + Extra(items[j], more)
  BY DEF Heights
<1> QED BY <1>4, <1>5

\* LinesAbove is a sum over the items above.
LEMMA LinesAboveTotal ==
  ASSUME NEW items \in Seq(Items), NEW more, AtLeastYields(more),
         NEW i \in 1..(Len(items) + 1)
  PROVE  /\ LinesAbove(items, i, more) = ErrorLines + Total(Heights(items, more), 1..(i - 1))
         /\ LinesAbove(items, i, more) \in Nat
<1> DEFINE S == 1..(i - 1)
           h == Heights(items, more)
           Sums(g) == [s \in SUBSET S |->
             IF s = {} THEN 0
             ELSE 1 + Extra(items[CHOOSE x \in s : TRUE], more)
                    + g[s \ {CHOOSE x \in s : TRUE}]]
           Def(g) == g = Sums(g)
           f == CHOOSE g : Def(g)
<1>1. /\ Len(items) \in Nat /\ i - 1 \in Nat /\ IsFiniteSet(S)
      /\ \A j \in S : j \in 1..Len(items)
  <2>1. Len(items) \in Nat /\ i \in Int /\ 1 <= i /\ i <= Len(items) + 1
    OBVIOUS
  <2>2. IsFiniteSet(S)
    BY <2>1, FS_Interval
  <2> QED BY <2>1, <2>2
<1>2. \A j \in S : h[j] \in Nat /\ h[j] = 1 + Extra(items[j], more)
  <2>1. \A j \in S : h[j] \in Nat
    BY <1>1, HeightsType
  <2> QED BY <1>1, <2>1 DEF Heights
<1>3. LinesAbove(items, i, more) = ErrorLines + f[S]
  BY DEF LinesAbove, MapThenSumSet, MapThenFoldSet, Extra
<1> HIDE DEF S, h
<1>4. ASSUME NEW g PROVE Def(g) <=> AddsUp(g, S, h)
  <2>1. ASSUME NEW s \in SUBSET S, s # {}
        PROVE  /\ Pick(s) = CHOOSE x \in s : TRUE
               /\ h[Pick(s)] = 1 + Extra(items[Pick(s)], more)
    BY <1>2, <2>1 DEF Pick
  <2>2. ASSUME NEW s \in SUBSET S
        PROVE  Sums(g)[s] = IF s = {} THEN 0 ELSE h[Pick(s)] + g[s \ {Pick(s)}]
    BY <2>1 DEF Pick
  <2>3. Sums(g) = [s \in SUBSET S |-> Sums(g)[s]]
    OBVIOUS
  <2> HIDE DEF Sums
  <2>4. Sums(g) = [s \in SUBSET S |-> IF s = {} THEN 0 ELSE h[Pick(s)] + g[s \ {Pick(s)}]]
    BY <2>2, <2>3
  <2> QED BY <2>4 DEF AddsUp
<1> HIDE DEF Sums, Def
<1>5. \E g : Def(g)
  <2>1. PICK g : AddsUp(g, S, h)
    BY <1>1, <1>2, AddsExists
  <2> QED BY <1>4, <2>1
<1>6. Def(f)
  BY <1>5
<1> HIDE DEF f
<1>7. AddsUp(f, S, h)
  BY <1>4, <1>6
<1>8. f[S] = Total(h, S) /\ Total(h, S) \in Nat
  BY <1>1, <1>2, <1>7, TotalAdds, TotalPicked
<1>9. ErrorLines \in Nat
  BY DEF ErrorLines
<1> QED BY <1>3, <1>8, <1>9 DEF S, h

\* An item further down takes at least a line more.
LEMMA LinesAboveGrow ==
  ASSUME NEW items \in Seq(Items), NEW more, AtLeastYields(more),
         NEW i \in 1..Len(items)
  PROVE  LinesAbove(items, i, more) + 1 <= LinesAbove(items, Len(items) + 1, more)
<1> DEFINE h == Heights(items, more)  n == Len(items)
<1>1. n \in Nat /\ i - 1 \in Nat /\ i - 1 < n
  OBVIOUS
<1>2. \A j \in 1..n : h[j] \in Nat \ {0}
  BY HeightsType
<1>3. Total(h, 1..(i - 1)) + 1 <= Total(h, 1..n)
  <2> HIDE DEF h, n
  <2> QED BY <1>1, <1>2, TotalGrows
<1>4. /\ LinesAbove(items, i, more) = ErrorLines + Total(h, 1..(i - 1))
      /\ LinesAbove(items, i, more) \in Nat
  <2>1. i \in 1..(n + 1)
    BY <1>1
  <2> QED BY <2>1, LinesAboveTotal
<1>5. /\ LinesAbove(items, n + 1, more) = ErrorLines + Total(h, 1..n)
      /\ LinesAbove(items, n + 1, more) \in Nat
  <2>1. n + 1 \in 1..(n + 1) /\ (n + 1) - 1 = n
    BY <1>1
  <2> QED BY <2>1, LinesAboveTotal
<1>6. ErrorLines \in Nat
  BY DEF ErrorLines
<1>7. Total(h, 1..(i - 1)) \in Nat /\ Total(h, 1..n) \in Nat
  <2>1. \A m \in Nat : IsFiniteSet(1..m)
    BY FS_Interval
  <2>2. \A j \in 1..(i - 1) : h[j] \in Nat
    BY <1>1, <1>2
  <2>3. \A j \in 1..n : h[j] \in Nat
    BY <1>2
  <2> HIDE DEF h, n
  <2> QED BY <1>1, <2>1, <2>2, <2>3, TotalPicked
<1> HIDE DEF h, n
<1> QED BY <1>3, <1>4, <1>5, <1>6, <1>7 DEF n

\* The cursor is on some line, and some number of lines is drawn.
LEMMA CursorLineType == CursorLine \in Nat
<1> DEFINE items == NavItems
           place == IF cursor \in 0..(Len(items) - 1) THEN cursor + 1 ELSE Len(items) + 1
<1>1. items \in Seq(Items) /\ Len(items) \in Nat
  BY NavItemsType
<1>2. AtLeastYields(Yields)
  BY LinesAreEnough
<1> HIDE DEF items
<1>3. place \in 1..(Len(items) + 1)
  BY <1>1
<1>4. CursorLine = LinesAbove(items, place, Yields)
  BY DEF CursorLine, items
<1> HIDE DEF place
<1> QED BY <1>1, <1>2, <1>3, <1>4, LinesAboveTotal

LEMMA RenderType == RenderContent.lines \in Nat
<1> DEFINE items == NavItems
           all == LinesAbove(items, Len(items) + 1, Lines)
           none == IF DOMAIN shown = {} /\ ~err THEN 3 ELSE 0
<1>1. items \in Seq(Items) /\ Len(items) \in Nat
  BY NavItemsType
<1>2. AtLeastYields(Lines)
  BY LinesAreEnough
<1>3. RenderContent.lines = all + 1 + none
  BY DEF RenderContent
<1> HIDE DEF items
<1>4. all \in Nat
  <2>1. Len(items) + 1 \in 1..(Len(items) + 1)
    BY <1>1
  <2> QED BY <1>1, <1>2, <2>1, LinesAboveTotal
<1> HIDE DEF all
<1> QED BY <1>3, <1>4

\* The lines cursorLine does not count are a sum over the items above, too.
LEMMA SurplusTotal ==
  InItems(cursor) =>
    /\ SurplusAbove = Total([j \in 1..cursor |-> Surplus(NavItems[j])], 1..cursor)
    /\ \A j \in 1..cursor : Surplus(NavItems[j]) \in Nat
<1> SUFFICES ASSUME InItems(cursor)
             PROVE  /\ SurplusAbove = Total([j \in 1..cursor |-> Surplus(NavItems[j])], 1..cursor)
                    /\ \A j \in 1..cursor : Surplus(NavItems[j]) \in Nat
  OBVIOUS
<1> DEFINE S == 1..cursor
           h == [j \in 1..cursor |-> Surplus(NavItems[j])]
           Sums(g) == [s \in SUBSET S |->
             IF s = {} THEN 0
             ELSE Surplus(NavItems[CHOOSE x \in s : TRUE]) + g[s \ {CHOOSE x \in s : TRUE}]]
           Def(g) == g = Sums(g)
           f == CHOOSE g : Def(g)
<1>1. /\ NavItems \in Seq(Items) /\ cursor \in Nat /\ IsFiniteSet(S)
      /\ \A j \in S : j \in 1..Len(NavItems)
  <2>1. NavItems \in Seq(Items) /\ Len(NavItems) \in Nat
    BY NavItemsType
  <2>2. cursor \in Nat /\ cursor < Len(NavItems)
    BY <2>1 DEF InItems
  <2> QED BY <2>1, <2>2, FS_Interval
<1>2. \A j \in S : h[j] \in Nat /\ h[j] = Surplus(NavItems[j])
  <2> SUFFICES ASSUME NEW j \in S PROVE Surplus(NavItems[j]) \in Nat
    OBVIOUS
  <2>1. NavItems[j] \in Items
    BY <1>1
  <2>2. IsOpen(NavItems[j]) \/ ShownInline(NavItems[j]) => NavItems[j].of \in Cells
    BY <2>1 DEF IsOpen, ShownInline, Items
  <2> QED BY <2>2, LinesAreEnough DEF Surplus, AtLeastYields
<1>3. SurplusAbove = f[S]
  BY DEF SurplusAbove, MapThenSumSet, MapThenFoldSet
<1> HIDE DEF S, h
<1>4. ASSUME NEW g PROVE Def(g) <=> AddsUp(g, S, h)
  <2>1. ASSUME NEW s \in SUBSET S, s # {}
        PROVE  Pick(s) = (CHOOSE x \in s : TRUE) /\ h[Pick(s)] = Surplus(NavItems[Pick(s)])
    BY <1>2, <2>1 DEF Pick
  <2>2. ASSUME NEW s \in SUBSET S
        PROVE  Sums(g)[s] = IF s = {} THEN 0 ELSE h[Pick(s)] + g[s \ {Pick(s)}]
    BY <2>1 DEF Pick
  <2>3. Sums(g) = [s \in SUBSET S |-> Sums(g)[s]]
    OBVIOUS
  <2> HIDE DEF Sums
  <2>4. Sums(g) = [s \in SUBSET S |-> IF s = {} THEN 0 ELSE h[Pick(s)] + g[s \ {Pick(s)}]]
    BY <2>2, <2>3
  <2> QED BY <2>4 DEF AddsUp
<1> HIDE DEF Sums, Def
<1>5. \E g : Def(g)
  <2>1. PICK g : AddsUp(g, S, h)
    BY <1>1, <1>2, AddsExists
  <2> QED BY <1>4, <2>1
<1>6. Def(f)
  BY <1>5
<1> HIDE DEF f
<1>7. AddsUp(f, S, h)
  BY <1>4, <1>6
<1>8. f[S] = Total(h, S)
  BY <1>1, <1>2, <1>7, TotalAdds
<1>9. \A j \in S : Surplus(NavItems[j]) \in Nat
  BY <1>2
<1> QED BY <1>3, <1>8, <1>9 DEF S, h

\* renderContent draws the cursor where cursorLine says, or lower by the lines
\* it does not count, and a line follows.
LEMMA CursorLineDrawn ==
  InItems(cursor) => /\ RenderContent.mark = CursorLine + SurplusAbove
                     /\ SurplusAbove \in Nat
                     /\ CursorLine + 2 <= RenderContent.lines
<1> SUFFICES ASSUME InItems(cursor)
             PROVE  /\ RenderContent.mark = CursorLine + SurplusAbove
                    /\ SurplusAbove \in Nat
                    /\ CursorLine + 2 <= RenderContent.lines
  OBVIOUS
<1> DEFINE items == NavItems
           all == LinesAbove(items, Len(items) + 1, Lines)
           none == IF DOMAIN shown = {} /\ ~err THEN 3 ELSE 0
           here == LinesAbove(items, cursor + 1, Lines)
           there == LinesAbove(items, cursor + 1, Yields)
           S == 1..cursor
           h == Heights(items, Lines)
           a == Heights(items, Yields)
           b == [j \in 1..cursor |-> Surplus(items[j])]
<1>1. items \in Seq(Items) /\ Len(items) \in Nat
  BY NavItemsType
<1>2. AtLeastYields(Lines) /\ AtLeastYields(Yields)
  BY LinesAreEnough
<1>3. RenderContent.lines = all + 1 + none
  BY DEF RenderContent
<1>4. cursor \in 0..(Len(items) - 1)
  BY DEF InItems
<1>5. RenderContent.mark = here /\ CursorLine = there
  BY <1>4 DEF RenderContent, CursorLine
<1>6. SurplusAbove = Total(b, S) /\ \A j \in S : Surplus(items[j]) \in Nat
  BY SurplusTotal
<1> HIDE DEF items
<1>7. /\ cursor + 1 \in 1..Len(items) /\ cursor + 1 \in 1..(Len(items) + 1)
      /\ cursor \in Nat /\ (cursor + 1) - 1 = cursor
      /\ \A j \in S : j \in 1..Len(items)
  BY <1>1, <1>4
<1>8. here + 1 <= all
  BY <1>1, <1>2, <1>7, LinesAboveGrow
<1>9. all \in Nat /\ here \in Nat
  <2>1. Len(items) + 1 \in 1..(Len(items) + 1)
    BY <1>1
  <2> QED BY <1>1, <1>2, <1>7, <2>1, LinesAboveTotal
<1>10. /\ here = ErrorLines + Total(h, S)
       /\ there = ErrorLines + Total(a, S) /\ there \in Nat
  BY <1>1, <1>2, <1>7, LinesAboveTotal
<1>11. \A j \in S : a[j] \in Nat /\ b[j] \in Nat /\ h[j] = a[j] + b[j]
  <2> SUFFICES ASSUME NEW j \in S PROVE a[j] \in Nat /\ b[j] \in Nat /\ h[j] = a[j] + b[j]
    OBVIOUS
  <2>1. j \in 1..Len(items) /\ items[j] \in Items
    BY <1>1, <1>7
  <2>2. a[j] \in Nat /\ b[j] = Surplus(items[j]) /\ b[j] \in Nat
    BY <1>1, <1>2, <1>6, <2>1, HeightsType
  <2>3. h[j] = 1 + Extra(items[j], Lines) /\ a[j] = 1 + Extra(items[j], Yields)
    BY <2>1 DEF Heights
  <2>4. IsOpen(items[j]) \/ ShownInline(items[j]) => items[j].of \in Cells
    BY <2>1 DEF IsOpen, ShownInline, Items
  <2>5. ShownInline(items[j]) => Yields[items[j].of] = 1
    BY DEF ShownInline
  <2>6. Extra(items[j], Lines) = Extra(items[j], Yields) + Surplus(items[j])
    BY <1>2, <2>4, <2>5 DEF Extra, Surplus, AtLeastYields
  <2>7. Extra(items[j], Yields) \in Nat /\ Surplus(items[j]) \in Nat
    BY <1>2, <1>6, <2>4, <2>5 DEF Extra, AtLeastYields
  <2> QED BY <2>2, <2>3, <2>6, <2>7
<1>12. IsFiniteSet(S)
  BY <1>7, FS_Interval
<1> HIDE DEF all, here, there, S, h, a, b
<1>13. /\ Total(h, S) = Total(a, S) + Total(b, S)
       /\ Total(a, S) \in Nat /\ Total(b, S) \in Nat
  <2>1. Total(h, S) = Total(a, S) + Total(b, S)
    BY <1>11, <1>12, TotalSplits
  <2>2. (\A j \in S : a[j] \in Nat) /\ (\A j \in S : b[j] \in Nat)
    BY <1>11
  <2> QED BY <1>12, <2>1, <2>2, TotalPicked
<1>14. ErrorLines \in Nat
  BY DEF ErrorLines
<1>15. here = there + SurplusAbove /\ SurplusAbove \in Nat
  BY <1>6, <1>10, <1>13, <1>14
<1> HIDE DEF none
<1>16. none \in Nat
  BY DEF none
<1> QED BY <1>3, <1>5, <1>8, <1>9, <1>10, <1>15, <1>16

\* The same of the next state.
LEMMA CursorLineTypeNext == (CursorLine \in Nat)'
BY CursorLineType, PTL

LEMMA RenderTypeNext == (RenderContent.lines \in Nat)'
BY RenderType, PTL

LEMMA CursorLineDrawnNext ==
  (InItems(cursor) => /\ RenderContent.mark = CursorLine + SurplusAbove
                      /\ SurplusAbove \in Nat
                      /\ CursorLine + 2 <= RenderContent.lines)'
BY CursorLineDrawn, PTL

-----------------------------------------------------------------------------
(* The viewport.                                                           *)

\* An offset is kept within what is drawn.
LEMMA BoundedType ==
  ASSUME NEW n \in Int, NEW drawn, drawn.lines \in Nat, NEW height \in Int
  PROVE  /\ Bounded(n, drawn, height) \in Nat
         /\ n >= 0 => /\ Bounded(n, drawn, height) <= n
                      /\ \/ Bounded(n, drawn, height) = n
                         \/ Bounded(n, drawn, height) >= drawn.lines - height
<1> DEFINE last == Max({0, drawn.lines - height})
           least == Min({n, last})
<1>1. last = (IF 0 >= drawn.lines - height THEN 0 ELSE drawn.lines - height)
  BY MaxOfTwo
<1> HIDE DEF last
<1>2. last \in Nat /\ last >= drawn.lines - height
  BY <1>1
<1>3. least = IF n <= last THEN n ELSE last
  BY <1>2, MinOfTwo
<1>4. Bounded(n, drawn, height) = Max({0, least})
  BY DEF Bounded, last
<1> HIDE DEF least
<1>5. least \in Int
  BY <1>2, <1>3
<1>6. Max({0, least}) = IF 0 >= least THEN 0 ELSE least
  BY <1>5, MaxOfTwo
<1> QED BY <1>2, <1>3, <1>4, <1>5, <1>6

\* Scrolled to the cursor, the viewport shows its line.
LEMMA RevealShows ==
  ASSUME SetContentAndReveal, offset \in Nat, vpHeight \in Nat
  PROVE  /\ offset' \in Nat
         /\ vpHeight > 0 /\ CursorLine' + 2 <= RenderContent'.lines =>
              offset' <= CursorLine' /\ CursorLine' <= offset' + vpHeight - 1
<1> DEFINE start == Bounded(offset, content', vpHeight)
           line == CursorLine'
           lower == Max({start, line - vpHeight + 1})
           first == IF line < start THEN line ELSE lower
<1>1. content' = RenderContent' /\ content'.lines \in Nat /\ line \in Nat
  BY RenderTypeNext, CursorLineTypeNext DEF SetContentAndReveal
<1>2. start \in Nat
  <2>1. offset \in Int /\ vpHeight \in Int /\ content'.lines \in Nat
    BY <1>1
  <2> QED BY <2>1, BoundedType
<1>3. offset' = IF vpHeight <= 0 THEN start ELSE Bounded(first, content', vpHeight)
  BY DEF SetContentAndReveal
<1> HIDE DEF start, line
<1>4. lower = IF start >= line - vpHeight + 1 THEN start ELSE line - vpHeight + 1
  BY <1>1, <1>2, MaxOfTwo
<1> HIDE DEF lower
<1>5. first \in Nat /\ (vpHeight > 0 => first <= line /\ line <= first + vpHeight - 1)
  BY <1>1, <1>2, <1>4
<1> HIDE DEF first
<1> DEFINE b == Bounded(first, content', vpHeight)
<1>6. b \in Nat /\ b <= first /\ (b = first \/ b >= content'.lines - vpHeight)
  BY <1>1, <1>5, BoundedType
<1> HIDE DEF b
<1>7. offset' = IF vpHeight <= 0 THEN start ELSE b
  BY <1>3 DEF b
<1>8. line + 2 <= content'.lines /\ vpHeight > 0 =>
        b <= line /\ line <= b + vpHeight - 1
  BY <1>1, <1>5, <1>6
<1> QED BY <1>1, <1>2, <1>6, <1>7, <1>8 DEF line

-----------------------------------------------------------------------------
(* Types of the whole display.                                             *)

FetchOK ==
  /\ shown \in Snapshots \cup {<<>>} /\ err \in BOOLEAN /\ fetched \in BOOLEAN
  /\ retryCountdown \in {0, 2, 4} /\ ticks \in Nat /\ fetches \in Nat
ListOK ==
  /\ collapsed \subseteq ToSet(Programs) /\ expanded \subseteq Cells
  /\ cursor \in Nat \cup {-1} /\ typed \in 0..Len(Matching)
  /\ filtering \in BOOLEAN /\ activeOnly \in BOOLEAN
PaneOK ==
  /\ showDetail \in BOOLEAN /\ asked \in [Cells -> 0..MaxAsked]
  /\ detail \in Cells \cup {NoCell} /\ detailCell \in Cells \cup {NoCell}
ViewOK ==
  /\ ready \in BOOLEAN /\ window \in Windows \cup {0}
  /\ vpHeight \in Nat /\ offset \in Nat
  /\ ready => vpHeight > 0
RestOK == showHelp \in BOOLEAN /\ status \in {"running", "panicked"} /\ pressed \in 0..MaxKeys

Types == FetchOK /\ ListOK /\ PaneOK /\ ViewOK /\ RestOK

\* The list always gets a line.
LEMMA ListHeightType ==
  ASSUME NEW h \in Nat, NEW pane \in BOOLEAN
  PROVE  ListHeight(h, pane) \in Nat /\ ListHeight(h, pane) > 0
<1> DEFINE third == Max({5, h \div 3})
           rest == h - 3 - (IF pane THEN third + 1 ELSE 0)
<1>1. h \div 3 \in Int
  OBVIOUS
<1>2. third \in Int
  BY <1>1, MaxOfTwo
<1> HIDE DEF third
<1>3. rest \in Int
  BY <1>2
<1>4. ListHeight(h, pane) = Max({3, rest})
  BY DEF ListHeight, third
<1> HIDE DEF rest
<1> QED BY <1>3, <1>4, MaxOfTwo

\* The length of the list is a number, before and after a step.
LEMMA LengthType ==
  /\ NavItems \in Seq(Items) /\ Len(NavItems) \in Nat
  /\ (NavItems \in Seq(Items))' /\ (Len(NavItems) \in Nat)'
<1>1. NavItems \in Seq(Items) /\ Len(NavItems) \in Nat
  BY NavItemsType
<1> QED BY <1>1, PTL

\* A clamped cursor is not negative.
LEMMA ClampedType ==
  ASSUME NEW n \in Nat \cup {-1}
  PROVE  Clamped(n) \in Nat
<1> DEFINE last == Len(NavItems') - 1
           bounded == IF n > last THEN last ELSE n
<1>1. last \in Int
  BY LengthType
<1>2. Clamped(n) = IF bounded < 0 THEN 0 ELSE bounded
  BY DEF Clamped
<1> HIDE DEF last
<1> QED BY <1>1, <1>2

\* Drawing keeps the offset a number.
LEMMA SetContentType ==
  ASSUME SetContent, offset \in Nat, vpHeight \in Nat
  PROVE  offset' \in Nat
<1>1. content'.lines \in Nat
  BY RenderTypeNext DEF SetContent
<1>2. offset \in Int /\ vpHeight \in Int
  OBVIOUS
<1>3. offset' = Bounded(offset, content', vpHeight)
  BY DEF SetContent
<1> QED BY <1>1, <1>2, <1>3, BoundedType

\* Nobody asks more often than the bound allows.
LEMMA AskType ==
  ASSUME asked \in [Cells -> 0..MaxAsked], shown \in Snapshots \cup {<<>>}, NEW n, Ask(n)
  PROVE  asked' \in [Cells -> 0..MaxAsked]
<1>1. CellAt(n) \in Cells \cup {NoCell}
  BY CellAtType
<1>2. MaxAsked \in Nat
  BY WatchAssumption
<1>3. CASE CellAt(n) = NoCell
  BY <1>3 DEF Ask
<1>4. CASE CellAt(n) # NoCell
  <2> DEFINE c == CellAt(n)
  <2>1. c \in Cells /\ asked[c] < MaxAsked /\ asked' = [asked EXCEPT ![c] = @ + 1]
    BY <1>1, <1>4 DEF Ask
  <2> HIDE DEF c
  <2>2. asked[c] + 1 \in 0..MaxAsked
    BY <1>2, <2>1
  <2> QED BY <2>1, <2>2
<1> QED BY <1>3, <1>4

\* A move puts the cursor on an item, or before the first of none.
LEMMA MoveMoves ==
  ASSUME Types, Move
  PROVE  \/ \E n \in Nat \cup {-1} : MoveTo(n)
         \/ /\ UNCHANGED <<fetchVars, listVars, detailVars, viewVars, showHelp>>
            /\ status' = "panicked" /\ cursor = -1
<1>1. cursor \in Nat \cup {-1} /\ Len(NavItems) \in Nat
  BY LengthType DEF Types, ListOK
<1>2. ASSUME NEW n \in Int, Step(n), n >= 0 \/ cursor = -1
      PROVE  \/ MoveTo(n) /\ n \in Nat
             \/ /\ UNCHANGED <<fetchVars, listVars, detailVars, viewVars, showHelp>>
                /\ status' = "panicked" /\ cursor = -1
  BY <1>2 DEF Step
<1>3. CASE Down
  <2> DEFINE n == IF cursor < Len(NavItems) - 1 THEN cursor + 1 ELSE cursor
  <2>1. n \in Int /\ (n >= 0 \/ cursor = -1)
    BY <1>1
  <2>2. Step(n)
    BY <1>3 DEF Down
  <2> HIDE DEF n
  <2> QED BY <1>2, <2>1, <2>2
<1>4. CASE Up
  <2> DEFINE n == IF cursor > 0 THEN cursor - 1 ELSE cursor
  <2>1. n \in Int /\ (n >= 0 \/ cursor = -1)
    BY <1>1
  <2>2. Step(n)
    BY <1>4 DEF Up
  <2> HIDE DEF n
  <2> QED BY <1>2, <2>1, <2>2
<1>5. CASE JumpToBottom
  <2>1. Len(NavItems) - 1 \in Nat \cup {-1}
    BY <1>1
  <2> QED BY <1>5, <2>1 DEF JumpToBottom
<1>6. CASE JumpToTop
  BY <1>6 DEF JumpToTop
<1>7. Headers \in SUBSET Nat /\ \A n \in Headers : n < Len(NavItems)
  BY <1>1 DEF Headers
<1>8. CASE NextProgram
  <2> DEFINE below == {n \in Headers : n > cursor}
  <2>1. below \in SUBSET Nat /\ below # {} /\ MoveTo(Min(below))
    BY <1>7, <1>8 DEF NextProgram
  <2> HIDE DEF below
  <2>2. Min(below) \in Nat
    BY <2>1, LeastNumber DEF Min
  <2> QED BY <2>1, <2>2
<1>9. CASE PreviousProgram
  <2> DEFINE above == {n \in Headers : n < cursor}
             limit == Len(NavItems)
             gaps == {limit - n : n \in above}
  <2>1. above \in SUBSET Nat /\ above # {} /\ MoveTo(Max(above))
    BY <1>7, <1>9 DEF PreviousProgram
  <2>2. \A n \in above : limit - n \in Nat
    BY <1>1, <1>7, <2>1
  <2> HIDE DEF above, limit
  <2>3. gaps \in SUBSET Nat /\ gaps # {}
    BY <2>1, <2>2
  <2>4. PICK g \in gaps : \A k \in gaps : g <= k
    BY <2>3, LeastNumber
  <2>5. PICK n \in above : g = limit - n
    BY <2>4
  <2>6. limit \in Nat
    BY <1>1 DEF limit
  <2>7. \A m \in above : n >= m
    <3> SUFFICES ASSUME NEW m \in above PROVE n >= m
      OBVIOUS
    <3>1. limit - n <= limit - m
      BY <2>4, <2>5
    <3> QED BY <2>1, <2>6, <3>1
  <2>8. Max(above) \in above
    BY <2>7 DEF Max
  <2> QED BY <2>1, <2>8
<1> QED BY <1>3, <1>4, <1>5, <1>6, <1>8, <1>9 DEF Move

\* A query that ends, or a tick, leaves the timer in one of its phases.
LEMMA FetchKeeps ==
  ASSUME Types, [Next]_vars
  PROVE  FetchOK'
<1> USE DEF Types, FetchOK
<1>1. CASE DataFetched
  <2>1. shown' \in Snapshots /\ err' = FALSE /\ fetched' = TRUE /\ retryCountdown' = 0
    BY <1>1 DEF DataFetched
  <2>2. fetches > 0 /\ fetches' = fetches - 1 /\ ticks' = ticks + 1
    BY <1>1 DEF DataFetched, Listed
  <2>3. ticks' \in Nat /\ fetches' \in Nat
    BY <2>2
  <2> QED BY <2>1, <2>3
<1>2. CASE DataFailed
  BY <1>2 DEF DataFailed, Listed
<1>3. CASE TickWaits
  BY <1>3 DEF TickWaits
<1>4. CASE TickFetches
  BY <1>4 DEF TickFetches
<1>5. CASE Key
  <2>1. UNCHANGED fetchVars
    <3>1. CASE Move
      BY <3>1, MoveMoves DEF MoveTo
    <3>2. CASE Enter \/ ExpandAll \/ CollapseAll \/ ToggleActive \/ Search
      BY <3>2 DEF Enter, ExpandAll, CollapseAll, ToggleActive, Search
    <3>3. CASE Escape \/ FilterType \/ FilterBackspace \/ FilterEscape \/ FilterEnter
      BY <3>3 DEF Escape, FilterType, FilterBackspace, FilterEscape, FilterEnter, FilterKey
    <3>4. CASE ToggleDetail \/ Help
      BY <3>4 DEF ToggleDetail, Help
    <3> QED BY <1>5, <3>1, <3>2, <3>3, <3>4 DEF Key
  <2> QED BY <2>1 DEF fetchVars
<1>6. CASE WindowSize \/ (\E c \in Cells : DetailData(c)) \/ UNCHANGED vars
  BY <1>6 DEF WindowSize, DetailData, vars, fetchVars
<1> QED
  BY <1>1, <1>2, <1>3, <1>4, <1>5, <1>6 DEF Next, Message, DataArrives, TickRefresh

\* The list is of programs and cells that exist, so is what a key toggles.
LEMMA ListKeeps ==
  ASSUME Types, [Next]_vars
  PROVE  ListOK'
<1> USE DEF Types, ListOK
<1>1. cursor \in Nat \cup {-1} /\ Clamped(cursor) \in Nat /\ 0 \in 0..Len(Matching)
  BY ClampedType
<1>2. ASSUME NEW length \in 0..Len(Matching), NEW mode \in BOOLEAN, FilterKey(length, mode)
      PROVE  ListOK'
  BY <1>1, <1>2 DEF FilterKey
<1>3. CASE Move
  BY <1>3, MoveMoves DEF MoveTo, listVars
<1>4. CASE Enter
  <2>1. ItemAt(cursor) \in Items
    BY <1>4, LengthType DEF Enter, InItems, ItemAt
  <2> DEFINE item == ItemAt(cursor)
  <2>2. CASE item.kind = "program"
    <3>1. item.of \in ToSet(Programs)
      BY <2>1, <2>2 DEF Items
    <3>2. /\ collapsed' = Toggle(collapsed, item.of)
          /\ UNCHANGED <<expanded, filtering, typed, activeOnly>> /\ cursor' = Clamped(cursor)
      BY <1>4, <2>2 DEF Enter
    <3> HIDE DEF item
    <3> QED BY <1>1, <3>1, <3>2 DEF Toggle
  <2>3. CASE item.kind = "cell"
    <3>1. item.of \in Cells
      BY <2>1, <2>3 DEF Items
    <3>2. /\ expanded' = Toggle(expanded, item.of)
          /\ UNCHANGED <<collapsed, cursor, filtering, typed, activeOnly>>
      BY <1>4, <2>3 DEF Enter
    <3> HIDE DEF item
    <3> QED BY <3>1, <3>2 DEF Toggle
  <2> QED BY <1>4, <2>2, <2>3 DEF Enter
<1>5. CASE ExpandAll
  <2>1. DOMAIN shown \subseteq Cells
    BY ShownCells DEF FetchOK
  <2> QED BY <1>5, <2>1 DEF ExpandAll
<1>6. CASE CollapseAll
  BY <1>6 DEF CollapseAll
<1>7. CASE ToggleActive
  BY <1>1, <1>7 DEF ToggleActive
<1>8. CASE Search
  BY <1>1, <1>8 DEF Search
<1>9. CASE Escape
  BY <1>1, <1>2, <1>9 DEF Escape, listVars
<1>10. CASE FilterType \/ FilterBackspace \/ FilterEscape
  <2>1. Len(Matching) \in Nat
    BY WatchAssumption
  <2>2. typed < Len(Matching) => typed + 1 \in 0..Len(Matching)
    BY <2>1
  <2>3. (IF typed > 0 THEN typed - 1 ELSE 0) \in 0..Len(Matching)
    BY <2>1
  <2> QED
    BY <1>1, <1>2, <1>10, <2>2, <2>3 DEF FilterType, FilterBackspace, FilterEscape
<1>11. CASE FilterEnter
  BY <1>11 DEF FilterEnter
<1>12. CASE ToggleDetail \/ Help
  BY <1>12 DEF ToggleDetail, Help, listVars
<1>13. CASE DataArrives
  BY <1>1, <1>13 DEF DataArrives, DataFetched, DataFailed, Listed
<1>14. CASE TickRefresh
  BY <1>14 DEF TickRefresh, TickWaits, TickFetches, listVars
<1>15. CASE WindowSize \/ (\E c \in Cells : DetailData(c)) \/ UNCHANGED vars
  BY <1>15 DEF WindowSize, DetailData, vars, listVars
<1> QED
  BY <1>3, <1>4, <1>5, <1>6, <1>7, <1>8, <1>9, <1>10, <1>11, <1>12, <1>13, <1>14, <1>15
     DEF Next, Key, Message

\* The pane is about a cell or about none; no cell is asked for too often.
LEMMA PaneKeeps ==
  ASSUME Types, [Next]_vars
  PROVE  PaneOK'
<1> USE DEF Types, PaneOK
<1>1. ASSUME NEW n, MoveTo(n) PROVE PaneOK'
  <2>1. CellAt(n) \in Cells \cup {NoCell}
    BY CellAtType DEF FetchOK
  <2>2. Ask(n) => asked' \in [Cells -> 0..MaxAsked]
    BY AskType DEF FetchOK
  <2> QED BY <1>1, <2>1, <2>2 DEF MoveTo
<1>2. CASE Move
  BY <1>1, <1>2, MoveMoves DEF detailVars
<1>3. CASE ToggleDetail
  <2>1. Ask(cursor) => asked' \in [Cells -> 0..MaxAsked]
    BY AskType DEF FetchOK
  <2> QED BY <1>3, <2>1 DEF ToggleDetail
<1>4. CASE Escape
  BY <1>4 DEF Escape, FilterKey, detailVars
<1>5. CASE Enter \/ ExpandAll \/ CollapseAll \/ ToggleActive \/ Search \/ Help
  BY <1>5 DEF Enter, ExpandAll, CollapseAll, ToggleActive, Search, Help, detailVars
<1>6. CASE FilterType \/ FilterBackspace \/ FilterEscape \/ FilterEnter
  BY <1>6 DEF FilterType, FilterBackspace, FilterEscape, FilterEnter, FilterKey, detailVars
<1>7. CASE DataArrives \/ TickRefresh
  BY <1>7 DEF DataArrives, DataFetched, DataFailed, Listed, TickRefresh, TickWaits, TickFetches,
              detailVars
<1>8. ASSUME NEW c \in Cells, DetailData(c) PROVE PaneOK'
  <2>1. asked[c] > 0 /\ asked[c] \in 0..MaxAsked /\ MaxAsked \in Nat
    BY <1>8, WatchAssumption DEF DetailData
  <2>2. asked[c] - 1 \in 0..MaxAsked
    BY <2>1
  <2> QED BY <1>8, <2>2 DEF DetailData
<1>9. CASE WindowSize \/ UNCHANGED vars
  BY <1>9 DEF WindowSize, vars, detailVars
<1> QED BY <1>2, <1>3, <1>4, <1>5, <1>6, <1>7, <1>8, <1>9 DEF Next, Key, Message

\* A terminal that is ready shows at least a line, from an offset within the list.
LEMMA ViewKeeps ==
  ASSUME Types, [Next]_vars
  PROVE  ViewOK'
<1> USE DEF Types, ViewOK
<1>1. window \in Nat /\ offset \in Nat /\ vpHeight \in Nat
  <2>1. Windows \subseteq Nat
    BY WatchAssumption
  <2> QED BY <2>1
<1>2. SetContent => offset' \in Nat
  BY <1>1, SetContentType
<1>3. SetContentAndReveal => offset' \in Nat
  BY <1>1, RevealShows
<1>4. \A pane \in BOOLEAN : ListHeight(window, pane) \in Nat /\ ListHeight(window, pane) > 0
  BY <1>1, ListHeightType
<1>5. showDetail \in BOOLEAN /\ (~showDetail) \in BOOLEAN
  BY DEF PaneOK
<1>6. CASE Move
  BY <1>3, <1>6, MoveMoves DEF MoveTo, viewVars
<1>7. CASE Enter \/ ExpandAll \/ CollapseAll \/ ToggleActive
  BY <1>2, <1>3, <1>7 DEF Enter, ExpandAll, CollapseAll, ToggleActive
<1>8. CASE FilterType \/ FilterBackspace \/ FilterEscape \/ FilterEnter
  BY <1>2, <1>8 DEF FilterType, FilterBackspace, FilterEscape, FilterEnter, FilterKey
<1>9. CASE Escape
  <2>1. CASE showDetail
    <3>1. /\ vpHeight' = ListHeight(window, FALSE)
          /\ UNCHANGED <<offset, ready, window>>
      BY <1>9, <2>1 DEF Escape
    <3> QED BY <1>4, <3>1
  <2>2. CASE ~showDetail
    <3>1. SetContent /\ UNCHANGED <<vpHeight, ready, window>>
      BY <1>9, <2>2 DEF Escape, FilterKey
    <3> QED BY <1>2, <3>1
  <2> QED BY <2>1, <2>2
<1>10. CASE ToggleDetail
  BY <1>4, <1>5, <1>10 DEF ToggleDetail
<1>11. CASE Search \/ Help
  BY <1>11 DEF Search, Help, viewVars
<1>12. CASE DataArrives
  BY <1>2, <1>12 DEF DataArrives, DataFetched, DataFailed, Listed
<1>13. CASE TickRefresh
  BY <1>2, <1>13 DEF TickRefresh, TickWaits, TickFetches, viewVars
<1>14. CASE WindowSize
  <2>1. PICK h \in Windows : /\ window' = h /\ vpHeight' = ListHeight(h, showDetail)
                             /\ ready' = TRUE
                             /\ offset' \in {offset, 0}
    BY <1>14 DEF WindowSize
  <2>2. h \in Nat
    BY WatchAssumption
  <2>3. ListHeight(h, showDetail) \in Nat /\ ListHeight(h, showDetail) > 0
    BY <1>5, <2>2, ListHeightType
  <2> QED BY <2>1, <2>3
<1>15. CASE (\E c \in Cells : DetailData(c)) \/ UNCHANGED vars
  BY <1>15 DEF DetailData, vars, viewVars
<1> QED
  BY <1>6, <1>7, <1>8, <1>9, <1>10, <1>11, <1>12, <1>13, <1>14, <1>15
     DEF Next, Key, Message

\* Keys are counted up to the bound.
LEMMA RestKeeps ==
  ASSUME Types, [Next]_vars
  PROVE  RestOK'
<1> USE DEF Types, RestOK
<1>1. showHelp' \in BOOLEAN /\ status' \in {"running", "panicked"}
  <2>1. CASE Move
    BY <2>1, MoveMoves DEF MoveTo
  <2>2. CASE Enter \/ ExpandAll \/ CollapseAll \/ ToggleActive \/ Search \/ Help \/ ToggleDetail
    BY <2>2 DEF Enter, ExpandAll, CollapseAll, ToggleActive, Search, Help, ToggleDetail
  <2>3. CASE Escape \/ FilterType \/ FilterBackspace \/ FilterEscape \/ FilterEnter
    BY <2>3 DEF Escape, FilterType, FilterBackspace, FilterEscape, FilterEnter, FilterKey
  <2>4. CASE Message
    BY <2>4 DEF Message, WindowSize, DataArrives, DataFetched, DataFailed, Listed, TickRefresh,
                TickWaits, TickFetches, DetailData
  <2>5. CASE UNCHANGED vars
    BY <2>5 DEF vars
  <2> QED BY <2>1, <2>2, <2>3, <2>4, <2>5 DEF Next, Key
<1>2. pressed' \in 0..MaxKeys
  <2>1. MaxKeys \in Nat
    BY WatchAssumption
  <2>2. (pressed < MaxKeys /\ pressed' = pressed + 1) \/ pressed' = pressed
    BY DEF Next, vars
  <2> QED BY <2>1, <2>2
<1> QED BY <1>1, <1>2

\* The types are an invariant.
LEMMA AlwaysTypes == Spec => []Types
<1>1. Init => Types
  <2> SUFFICES ASSUME Init PROVE Types
    OBVIOUS
  <2>1. 0 \in 0..MaxAsked /\ 0 \in 0..MaxKeys /\ 0 \in 0..Len(Matching)
    BY WatchAssumption
  <2> QED BY <2>1 DEF Init, Types, FetchOK, ListOK, PaneOK, ViewOK, RestOK
<1>2. Types /\ [Next]_vars => Types'
  <2> SUFFICES ASSUME Types, [Next]_vars PROVE Types'
    OBVIOUS
  <2> QED BY FetchKeeps, ListKeeps, PaneKeeps, ViewKeeps, RestKeeps DEF Types
<1> QED BY <1>1, <1>2, PTL DEF Spec

\* Cursor, offset and heights stay in their ranges, whatever is listed.
THEOREM TypeCorrect == Spec => []TypeOK
<1>1. Types => TypeOK
  BY DEF Types, FetchOK, ListOK, PaneOK, ViewOK, RestOK, TypeOK
<1> QED BY <1>1, AlwaysTypes, PTL

\* What is on screen but drawn lower is below the screen by no more than that.
LEMMA LowerBySurplus ==
  \A top, height, line, surplus \in Nat :
    top <= line /\ line <= top + height - 1 =>
      line + surplus \in top..(top + height - 1 + surplus)
OBVIOUS

\* After every move of the cursor its line is on screen if the values drawn
\* above it take one line each, however long the list, whatever is expanded,
\* and whether or not an error is shown; if they take more, it is below the
\* screen by at most the lines they have beyond their first.
THEOREM MoveShowsCursorAlways == Spec => MoveShowsCursor
<1>1. ASSUME Types, [Next]_vars
      PROVE  [ready /\ InItems(cursor)' /\ Move =>
                content'.mark \in offset'..(offset' + vpHeight' - 1 + SurplusAbove')]_vars
  <2> SUFFICES ASSUME Move, ready, InItems(cursor)'
               PROVE  content'.mark \in offset'..(offset' + vpHeight' - 1 + SurplusAbove')
    BY <1>1
  <2>1. cursor' # -1
    <3>1. cursor' \in 0..(Len(NavItems') - 1)
      BY DEF InItems
    <3> QED BY <3>1, LengthType
  <2>2. PICK n \in Nat \cup {-1} : MoveTo(n)
    BY <1>1, <2>1, MoveMoves DEF listVars
  <2>3. SetContentAndReveal /\ content' = RenderContent'
    BY <2>2 DEF MoveTo, SetContentAndReveal
  <2>4. vpHeight' = vpHeight
    BY <2>2 DEF MoveTo
  <2>5. offset \in Nat /\ vpHeight \in Nat /\ vpHeight > 0
    BY <1>1 DEF Types, ViewOK
  <2>6. /\ RenderContent'.mark = CursorLine' + SurplusAbove' /\ SurplusAbove' \in Nat
        /\ CursorLine' + 2 <= RenderContent'.lines
    BY CursorLineDrawnNext
  <2>7. offset' \in Nat /\ offset' <= CursorLine' /\ CursorLine' <= offset' + vpHeight - 1
    BY <2>3, <2>5, <2>6, RevealShows
  <2>8. CursorLine' \in Nat
    BY CursorLineTypeNext
  <2>9. content'.mark = CursorLine' + SurplusAbove'
    BY <2>3, <2>6, Zenon
  <2>10. offset' \in Nat /\ vpHeight' \in Nat /\ SurplusAbove' \in Nat
    BY <2>4, <2>5, <2>6, <2>7, Zenon
  <2>11. offset' <= CursorLine' /\ CursorLine' <= offset' + vpHeight' - 1
    BY <2>4, <2>7, Zenon
  <2>12. CursorLine' + SurplusAbove' \in offset'..(offset' + vpHeight' - 1 + SurplusAbove')
    BY <2>8, <2>10, <2>11, LowerBySurplus, Zenon
  <2> QED BY <2>9, <2>12, Zenon
<1> QED BY <1>1, AlwaysTypes, PTL DEF Spec, MoveShowsCursor

=============================================================================
