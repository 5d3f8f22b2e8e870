------------------------------- MODULE Watch -------------------------------
(***************************************************************************)
(* ct watch (src/cmd/ct/watch.go): the terminal display of all programs.   *)
(*                                                                         *)
(* It is an event loop.  Update handles one message at a time: a key, the  *)
(* size of the window, the tick of the refresh timer, the answer to a      *)
(* query.  A query runs in a goroutine of its own and its answer is a      *)
(* message like any other: keys, ticks and answers come in any order, and  *)
(* an answer may speak of a cell the user has long left.                   *)
(*                                                                         *)
(* The display holds no data of its own: what it can get wrong is which    *)
(* row the cursor, the detail pane and the viewport are at.  Texts, times, *)
(* colours, the spinner, the alert for new pending cells and the           *)
(* statistics are left out, and so are the keys that end the program: it   *)
(* may stop anywhere.                                                      *)
(***************************************************************************)
EXTENDS Integers, FiniteSetsExt, SequencesExt

CONSTANTS
  Programs,   \* all programs, in the order of their ids
  Order,      \* all cells, in the order of name and id
  ProgOf,     \* the program of a cell
  Yields,     \* Yields[c]: the number of yields of c
  Lines,      \* Lines[c]: the lines they take: one each, more for a value of several
  Snapshots,  \* what the query may find: states of the cells that exist
  Matching,   \* Matching[n]: the cells the first n characters typed select
  Windows,    \* heights of the terminal
  MaxAsked,   \* bound on queries for one cell that are under way
  MaxKeys,    \* bound on the keys pressed
  NoCell

Cells == ToSet(Order)
States == {"declared", "computing", "frozen", "bottom"}
Done == {"frozen", "bottom"}

ASSUME WatchAssumption ==
  /\ NoCell \notin Cells /\ MaxAsked \in Nat /\ MaxKeys \in Nat
  /\ Programs \in Seq(ToSet(Programs)) /\ Order \in Seq(Cells)
  /\ Matching \in Seq(SUBSET Cells)
  /\ \A c \in Cells : ProgOf[c] \in ToSet(Programs)
  /\ \A c \in Cells : Yields[c] \in Nat /\ Lines[c] \in Nat /\ Lines[c] >= Yields[c]
  /\ \A s \in Snapshots : DOMAIN s \subseteq Cells /\ \A c \in DOMAIN s : s[c] \in States
  /\ Windows \subseteq Nat

VARIABLES
  shown,           \* the cells of the last answer, with their states
  err, fetched,    \* the last query failed; one has succeeded
  retryCountdown,
  ticks, fetches,  \* timers running and list queries under way
  asked,           \* asked[c]: detail queries under way
  collapsed, expanded, cursor,
  showDetail, detail, detailCell,
  filtering, typed,   \* the filter is the first `typed` characters
  activeOnly, showHelp,
  ready, window,   \* m.ready, m.height
  content, offset, vpHeight,  \* the viewport: what was drawn and what is visible of it
  status,          \* of the process
  pressed          \* keys so far

fetchVars == <<shown, err, fetched, retryCountdown, ticks, fetches>>
listVars == <<collapsed, expanded, cursor, filtering, typed, activeOnly>>
detailVars == <<showDetail, detail, detailCell, asked>>
viewVars == <<content, offset, vpHeight, ready, window>>
vars == <<fetchVars, listVars, detailVars, viewVars, showHelp, status, pressed>>

-----------------------------------------------------------------------------
\* What is listed

\* The elements of a list that pass a test: SelectSeq, written out for the
\* proofs.
Where(s, Test(_)) ==
  LET first[i \in 0..Len(s)] ==
        IF i = 0 THEN <<>>
        ELSE IF Test(s[i]) THEN Append(first[i - 1], s[i]) ELSE first[i - 1]
  IN first[Len(s)]

\* computing cells first, then declared, bottom and frozen ones
Ranked == <<"computing", "declared", "bottom", "frozen">>

CellsOf(p) == Where(Order, LAMBDA c : ProgOf[c] = p)

\* All there could be to list, in the order of the query: ORDER BY program_id,
\* rank of the state, name, id; each program behind its header.
Rows(p) ==
  LET cells == CellsOf(p)
      rank(r) == [i \in DOMAIN cells |-> [kind |-> "cell", of |-> cells[i], state |-> Ranked[r]]]
  IN <<[kind |-> "program", of |-> p, state |-> "none"]>> \o FlattenSeq([r \in 1..4 |-> rank(r)])
Candidates == FlattenSeq([i \in DOMAIN Programs |-> Rows(Programs[i])])

Selected(c) ==
  /\ activeOnly => shown[c] \notin Done
  /\ typed > 0 => c \in Matching[typed]

\* A program that has cells is listed, unless only active cells are and it is
\* not collapsed and has none to show.
ListsProgram(p) ==
  \E c \in DOMAIN shown : ProgOf[c] = p /\ (activeOnly /\ p \notin collapsed => Selected(c))
ListsCell(c, s) ==
  c \in DOMAIN shown /\ shown[c] = s /\ ProgOf[c] \notin collapsed /\ Selected(c)

Lists(item) ==
  IF item.kind = "program" THEN ListsProgram(item.of) ELSE ListsCell(item.of, item.state)
NavItems == Where(Candidates, Lists)

\* items[m.cursor], for a cursor within bounds
InItems(n) == n \in 0..(Len(NavItems) - 1)
ItemAt(n) == NavItems[n + 1]

\* The cell of the last answer that item n points to, NoCell for a header.
CellAt(n) ==
  LET items == NavItems
      there == {c \in DOMAIN shown : /\ n \in 0..(Len(items) - 1)
                                     /\ items[n + 1].kind = "cell" /\ items[n + 1].of = c}
  IN IF there = {} THEN NoCell ELSE CHOOSE c \in there : TRUE

\* clampCursor, in the state the handler leaves
Clamped(n) == LET last == Len(NavItems') - 1
                  bounded == IF n > last THEN last ELSE n
              IN IF bounded < 0 THEN 0 ELSE bounded

-----------------------------------------------------------------------------
\* What is drawn

IsOpen(item) == item.kind = "cell" /\ item.of \in expanded

ErrorLines == IF err THEN IF fetched THEN 3 ELSE 2 ELSE 0

\* A frozen cell that is not expanded shows a single yield behind its name.
ShownInline(item) ==
  item.kind = "cell" /\ ~IsOpen(item) /\ item.state = "frozen" /\ Yields[item.of] = 1

\* The lines above item i, if the yields of a cell take more[c] lines: texts
\* are shown with their newlines.
LinesAbove(items, i, more) ==
  LET yields(item) == IF IsOpen(item) THEN more[item.of]
                      ELSE IF ShownInline(item) THEN more[item.of] - 1 ELSE 0
      height(j) == 1 + yields(items[j])
  IN ErrorLines + MapThenSumSet(height, 1..(i - 1))

\* renderContent: how many lines there are (the last one is empty), and in
\* which one the cursor is drawn.
RenderContent ==
  LET items == NavItems
  IN [lines |-> LinesAbove(items, Len(items) + 1, Lines) + 1
                  + (IF DOMAIN shown = {} /\ ~err THEN 3 ELSE 0),
      mark  |-> IF cursor \in 0..(Len(items) - 1) THEN LinesAbove(items, cursor + 1, Lines) ELSE -1]

\* A variant that forgets the lines of an error.
CursorLineNoError ==
  LET items == NavItems
  IN LinesAbove(items, IF cursor \in 0..(Len(items) - 1) THEN cursor + 1 ELSE Len(items) + 1, Yields)
       - ErrorLines

\* cursorLine: where the cursor is drawn, if every value takes one line.
CursorLine ==
  LET items == NavItems
  IN LinesAbove(items, IF cursor \in 0..(Len(items) - 1) THEN cursor + 1 ELSE Len(items) + 1, Yields)

\* The viewport of charm.land/bubbles: an offset never leaves the content.
Bounded(n, drawn, height) ==
  LET last == Max({0, drawn.lines - height}) IN Max({0, Min({n, last})})
SetContent ==
  /\ content' = RenderContent'
  /\ offset' = Bounded(offset, content', vpHeight)

\* SetContent, then ensureCursorVisible: scroll up or down to the cursor's line
SetContentAndReveal ==
  LET start == Bounded(offset, content', vpHeight)
      line == CursorLine'
      first == IF line < start THEN line ELSE Max({start, line - vpHeight + 1})
  IN /\ content' = RenderContent'
     /\ offset' = IF vpHeight <= 0 THEN start ELSE Bounded(first, content', vpHeight)

\* updateViewportSizes: the list gets what header, footer and pane leave
ListHeight(h, pane) ==
  Max({3, h - 3 - (IF pane THEN Max({5, h \div 3}) + 1 ELSE 0)})

-----------------------------------------------------------------------------
Init ==
  /\ shown = <<>> /\ err = FALSE /\ fetched = FALSE
  /\ retryCountdown = 0 /\ ticks = 0 /\ fetches = 1
  /\ asked = [c \in Cells |-> 0]
  /\ collapsed = {} /\ expanded = {} /\ cursor = 0
  /\ showDetail = FALSE /\ detail = NoCell /\ detailCell = NoCell
  /\ filtering = FALSE /\ typed = 0 /\ activeOnly = FALSE /\ showHelp = FALSE
  /\ ready = FALSE /\ window = 0 /\ content = [lines |-> 0, mark |-> -1] /\ offset = 0 /\ vpHeight = 0
  /\ status = "running" /\ pressed = 0

Running == status = "running"

-----------------------------------------------------------------------------
\* Messages of the program to itself

\* The end of the watchDataMsg branch: the next tick is ordered only now.
Listed ==
  /\ fetches' = fetches - 1 /\ ticks' = ticks + 1
  /\ UNCHANGED <<collapsed, expanded, filtering, typed, activeOnly>>
  /\ cursor' = Clamped(cursor)
  /\ IF ready THEN SetContent ELSE UNCHANGED <<content, offset>>
  /\ UNCHANGED <<detailVars, vpHeight, ready, window, showHelp, status>>

\* A variant that forgets to clear the error.
DataFetchedStale ==
  /\ Running /\ fetches > 0
  /\ shown' \in Snapshots
  /\ fetched' = TRUE /\ retryCountdown' = 0 /\ UNCHANGED err
  /\ Listed

DataFetched ==
  /\ Running /\ fetches > 0
  /\ shown' \in Snapshots
  /\ err' = FALSE /\ fetched' = TRUE /\ retryCountdown' = 0
  /\ Listed

DataFailed ==
  /\ Running /\ fetches > 0
  /\ err' = TRUE /\ retryCountdown' = 4
  /\ UNCHANGED <<shown, fetched>>
  /\ Listed

\* A variant that counts down in seconds.
TickWaitsOne ==
  /\ Running /\ ticks > 0 /\ retryCountdown > 2
  /\ retryCountdown' = retryCountdown - 1
  /\ UNCHANGED <<shown, err, fetched, ticks, fetches, listVars,
                 detailVars, viewVars, showHelp, status>>

\* tickRefresh: after an error one tick only counts down.
TickWaits ==
  /\ Running /\ ticks > 0 /\ retryCountdown > 2
  /\ retryCountdown' = retryCountdown - 2
  /\ UNCHANGED <<shown, err, fetched, ticks, fetches, listVars>>
  /\ IF ready THEN SetContent ELSE UNCHANGED <<content, offset>>
  /\ UNCHANGED <<detailVars, vpHeight, ready, window, showHelp, status>>

\* A variant with a timer that goes on ticking while the query runs.
TickFetchesAgain ==
  /\ Running /\ ticks > 0 /\ retryCountdown <= 2
  /\ retryCountdown' = 0 /\ fetches' = fetches + 1
  /\ UNCHANGED <<shown, err, fetched, ticks, listVars, detailVars, viewVars, showHelp, status>>

TickFetches ==
  /\ Running /\ ticks > 0 /\ retryCountdown <= 2
  /\ retryCountdown' = 0
  /\ ticks' = ticks - 1 /\ fetches' = fetches + 1
  /\ UNCHANGED <<shown, err, fetched, listVars, detailVars, viewVars, showHelp, status>>

\* Variants: every answer is shown; answers are dropped while the pane is closed.
DetailDataAny(c) ==
  /\ Running /\ asked[c] > 0
  /\ asked' = [asked EXCEPT ![c] = @ - 1]
  /\ detail' = c
  /\ UNCHANGED <<fetchVars, listVars, showDetail, detailCell, viewVars, showHelp, status>>
DetailDataOpen(c) ==
  /\ Running /\ asked[c] > 0
  /\ asked' = [asked EXCEPT ![c] = @ - 1]
  /\ detail' = IF showDetail /\ c = detailCell THEN c ELSE detail
  /\ UNCHANGED <<fetchVars, listVars, showDetail, detailCell, viewVars, showHelp, status>>

\* detailDataMsg: the answer for c counts only if the pane still waits for c.
DetailData(c) ==
  /\ Running /\ asked[c] > 0
  /\ asked' = [asked EXCEPT ![c] = @ - 1]
  /\ detail' = IF c = detailCell THEN c ELSE detail
  /\ UNCHANGED <<fetchVars, listVars, showDetail, detailCell, viewVars, showHelp, status>>

WindowSize ==
  /\ Running
  /\ \E h \in Windows :
       /\ window' = h /\ vpHeight' = ListHeight(h, showDetail)
       /\ ready' = TRUE
       /\ IF ready THEN UNCHANGED <<content, offset>>
          ELSE content' = RenderContent /\ offset' = 0
  /\ UNCHANGED <<fetchVars, listVars, detailVars, showHelp, status>>

-----------------------------------------------------------------------------
\* Keys that move the cursor

Browsing == Running /\ ~showHelp /\ ~filtering

\* fetchDetailCmd for the item at n: nothing to ask for a program header.
Ask(n) ==
  IF CellAt(n) = NoCell THEN UNCHANGED asked
  ELSE asked[CellAt(n)] < MaxAsked /\ asked' = [asked EXCEPT ![CellAt(n)] = @ + 1]

\* m.cursor = n and cursorMoved: the open pane lets go of its cell and asks for
\* the new one.
MoveTo(n) ==
  /\ cursor' = n
  /\ UNCHANGED <<fetchVars, collapsed, expanded, filtering, typed, activeOnly,
                 vpHeight, ready, window, showHelp, showDetail, status>>
  /\ IF showDetail /\ CellAt(n) # detailCell
     THEN detailCell' = CellAt(n) /\ detail' = NoCell /\ Ask(n)
     ELSE UNCHANGED <<detail, detailCell, asked>>
  /\ SetContentAndReveal

\* j and k count a visit of items[n] first: a negative index ends the program.
Step(n) ==
  IF n >= 0 THEN MoveTo(n)
  ELSE status' = "panicked" /\ UNCHANGED <<fetchVars, listVars, detailVars, viewVars, showHelp>>

Down == Browsing /\ Step(IF cursor < Len(NavItems) - 1 THEN cursor + 1 ELSE cursor)
Up == Browsing /\ Step(IF cursor > 0 THEN cursor - 1 ELSE cursor)
JumpToBottom == Browsing /\ MoveTo(Len(NavItems) - 1)
JumpToTop == Browsing /\ MoveTo(0)

Headers ==
  LET items == NavItems IN {n \in 0..(Len(items) - 1) : items[n + 1].kind = "program"}
NextProgram ==
  LET below == {n \in Headers : n > cursor}
  IN Browsing /\ below # {} /\ MoveTo(Min(below))
PreviousProgram ==
  LET above == {n \in Headers : n < cursor}
  IN Browsing /\ above # {} /\ MoveTo(Max(above))

-----------------------------------------------------------------------------
\* Keys that change what is listed

Toggle(set, x) == IF x \in set THEN set \ {x} ELSE set \cup {x}

\* enter, on a program or on a cell
Enter ==
  /\ Browsing /\ InItems(cursor)
  /\ LET item == ItemAt(cursor)
     IN \/ /\ item.kind = "program"
           /\ collapsed' = Toggle(collapsed, item.of)
           /\ UNCHANGED <<fetchVars, expanded, filtering, typed, activeOnly>>
           /\ cursor' = Clamped(cursor)
        \/ /\ item.kind = "cell"
           /\ expanded' = Toggle(expanded, item.of)
           /\ UNCHANGED <<fetchVars, collapsed, cursor, filtering, typed, activeOnly>>
  /\ UNCHANGED <<detailVars, vpHeight, ready, window, showHelp, status>>
  /\ SetContentAndReveal

\* e and c: everything is expanded or collapsed; the cursor stays where it is.
ExpandAll ==
  /\ Browsing
  /\ collapsed' = {} /\ expanded' = expanded \cup DOMAIN shown
  /\ UNCHANGED <<fetchVars, cursor, filtering, typed, activeOnly,
                 detailVars, vpHeight, ready, window, showHelp, status>>
  /\ SetContent
CollapseAll ==
  /\ Browsing
  /\ expanded' = {}
  /\ UNCHANGED <<fetchVars, collapsed, cursor, filtering, typed, activeOnly,
                 detailVars, vpHeight, ready, window, showHelp, status>>
  /\ SetContent

ToggleActive ==
  /\ Browsing
  /\ activeOnly' = ~activeOnly
  /\ UNCHANGED <<fetchVars, collapsed, expanded, filtering, typed>>
  /\ cursor' = Clamped(cursor)
  /\ UNCHANGED <<detailVars, vpHeight, ready, window, showHelp, status>>
  /\ SetContentAndReveal

\* The keys of the filter line, and what they leave of the text and the mode.
FilterKey(length, mode) ==
  /\ typed' = length /\ filtering' = mode
  /\ UNCHANGED <<fetchVars, collapsed, expanded, activeOnly>>
  /\ cursor' = Clamped(cursor)
  /\ UNCHANGED <<detailVars, vpHeight, ready, window, showHelp, status>>
  /\ SetContent

InFilter == Running /\ ~showHelp /\ filtering
FilterType == InFilter /\ typed < Len(Matching) /\ FilterKey(typed + 1, TRUE)
FilterBackspace == InFilter /\ FilterKey(IF typed > 0 THEN typed - 1 ELSE 0, TRUE)
FilterEscape == InFilter /\ FilterKey(0, FALSE)
FilterEnter ==
  /\ InFilter
  /\ filtering' = FALSE
  /\ UNCHANGED <<fetchVars, collapsed, expanded, cursor, typed, activeOnly,
                 detailVars, vpHeight, ready, window, showHelp, status>>
  /\ SetContent

\* The slash clears the filter but neither redraws the list nor clamps the cursor.
Search ==
  /\ Browsing
  /\ filtering' = TRUE /\ typed' = 0
  /\ UNCHANGED <<fetchVars, collapsed, expanded, cursor, activeOnly,
                 detailVars, viewVars, showHelp, status>>

\* Escape, first pressed, closes the pane; else it clears the filter.
Escape ==
  /\ Browsing
  /\ \/ /\ showDetail
        /\ showDetail' = FALSE /\ vpHeight' = ListHeight(window, FALSE)
        /\ UNCHANGED <<fetchVars, listVars, detail, detailCell, asked,
                       content, offset, ready, window, showHelp, status>>
     \/ ~showDetail /\ typed > 0 /\ FilterKey(0, FALSE)

\* d: opening the pane asks for the cell at the cursor, but detailCell remains.
ToggleDetail ==
  /\ Browsing
  /\ showDetail' = ~showDetail /\ vpHeight' = ListHeight(window, ~showDetail)
  /\ IF showDetail THEN UNCHANGED asked ELSE Ask(cursor)
  /\ UNCHANGED <<fetchVars, listVars, detail, detailCell,
                 content, offset, ready, window, showHelp, status>>

Help ==
  /\ Running /\ ~filtering
  /\ showHelp' = ~showHelp
  /\ UNCHANGED <<fetchVars, listVars, detailVars, viewVars, status>>

DataArrives == DataFetched \/ DataFailed
TickRefresh == TickWaits \/ TickFetches

Move ==
  Down \/ Up \/ JumpToBottom \/ JumpToTop \/ NextProgram \/ PreviousProgram
Key ==
  \/ Move
  \/ Enter \/ ExpandAll \/ CollapseAll \/ ToggleActive \/ Search \/ Escape
  \/ FilterType \/ FilterBackspace \/ FilterEscape \/ FilterEnter
  \/ ToggleDetail \/ Help
Message ==
  \/ WindowSize \/ DataArrives \/ TickRefresh
  \/ \E c \in Cells : DetailData(c)

Next ==
  \/ pressed < MaxKeys /\ Key /\ pressed' = pressed + 1
  \/ Message /\ UNCHANGED pressed

(***************************************************************************)
(* Fairness: timers fire and queries end, one way or the other; a database *)
(* asked again and again answers at last.  Nobody has to press a key.      *)
(***************************************************************************)
Spec ==
  /\ Init /\ [][Next]_vars
  /\ WF_vars(TickRefresh /\ UNCHANGED pressed)
  /\ WF_vars(DataArrives /\ UNCHANGED pressed) /\ SF_vars(DataFetched /\ UNCHANGED pressed)
  /\ \A c \in Cells : WF_vars(DetailData(c) /\ UNCHANGED pressed)

-----------------------------------------------------------------------------
TypeOK ==
  /\ shown \in Snapshots \cup {<<>>}
  /\ {err, fetched, showDetail, filtering, activeOnly,
      showHelp, ready} \subseteq BOOLEAN
  /\ retryCountdown \in {0, 2, 4} /\ ticks \in Nat /\ fetches \in Nat /\ asked \in [Cells -> 0..MaxAsked]
  /\ collapsed \subseteq ToSet(Programs) /\ expanded \subseteq Cells
  /\ cursor \in Nat \cup {-1} /\ typed \in 0..Len(Matching)
  /\ detail \in Cells \cup {NoCell} /\ detailCell \in Cells \cup {NoCell}
  /\ window \in Windows \cup {0} /\ vpHeight \in Nat /\ offset \in Nat
  /\ status \in {"running", "panicked"} /\ pressed \in 0..MaxKeys

\* The list refreshes itself: at every moment exactly one timer or one list
\* query is under way, so the refresh neither stops after an error nor doubles.
OneTimer == ticks + fetches = 1

\* Detail queries answer in any order and late: the pane never shows a cell
\* other than the one it waits for.
DetailMatches == detail # NoCell => detail = detailCell

\* Once a move of the cursor has made the open pane wait for a cell (that is
\* what sets detailCell), the query for that cell is under way until the pane
\* has its answer: moving away and coming back, closing and reopening the pane
\* meanwhile do not lose it.  It says nothing of a pane that d opened and no
\* move has followed: d leaves detailCell alone, so at the first opening the
\* answer to its query is dropped and the pane reads "Loading..." until the
\* cursor moves.
MoveLoads == detailCell # NoCell /\ detail = NoCell => asked[detailCell] > 0

\* The lines of values beyond their first, drawn above the cursor: the ones
\* cursorLine does not count.
Surplus(item) ==
  IF IsOpen(item) \/ ShownInline(item) THEN Lines[item.of] - Yields[item.of] ELSE 0
SurplusAbove ==
  LET items == NavItems
      surplus(j) == Surplus(items[j])
  IN MapThenSumSet(surplus, 1..cursor)

\* After j, k, g, G, tab and shift+tab the line with the cursor is on screen if
\* every value above it takes one line, whatever is expanded and whether or not
\* an error is shown; else it is below the screen by no more lines than those
\* values have beyond their first, and never above it.
MoveShowsCursor ==
  [][ready /\ InItems(cursor)' /\ Move =>
         content'.mark \in offset'..(offset' + vpHeight' - 1 + SurplusAbove')]_vars

\* An error on screen is retried until it goes away.
ErrorsClear == err ~> ~err \/ ~Running
=============================================================================
