--------------------------- MODULE CompilerProofs ---------------------------
(***************************************************************************)
(* The linter and the compiler are right for every program.                *)
(*                                                                         *)
(* The linter: the depth-first search of lintCells reports a cycle exactly *)
(* when some of the program's names each read another of them.  The search *)
(* is a recursive function, so there are three things to show: that there  *)
(* is such a function (it is found rank by rank, the rank of a state being *)
(* how many names are not being visited), that the one TLA+ chooses has    *)
(* the invariants of a depth-first search, by induction on the rank again, *)
(* and what these invariants say when every cell is done.                  *)
(*                                                                         *)
(* The compiler: every prose assertion gets its judge, and loops are       *)
(* chained.  Compilation goes through lists (cells, steps, judges, rows);  *)
(* each of its stages is told by what is in its list.  What is looked up   *)
(* by name among the rows is found at one cell of the source, since no     *)
(* name of a careful program is the beginning of another.                  *)
(*                                                                         *)
(* The tables: what a pour left alone has written is what was compiled,    *)
(* because everything compiled gets there (NoHalfPour of PourProofs) and   *)
(* nothing else does (OnlyOf).                                             *)
(***************************************************************************)
EXTENDS MCPour, PourProofs, ListFacts

-----------------------------------------------------------------------------
(* What a program reads.                                                   *)

\* Every cell reads names the program speaks of, only cells read, and there
\* are finitely many names.
LEMMA ReadsType ==
  ASSUME NEW cells, IsProgram(cells), NEW name
  PROVE  /\ ReadsOf(cells, name) \in Seq(Nodes(cells))
         /\ Range(ReadsOf(cells, name)) # {} => name \in Names(cells)
         /\ IsFiniteSet(Nodes(cells))
<1> DEFINE N == Nodes(cells)
           one(i) == IF cells[i].name = name
                     THEN [j \in DOMAIN cells[i].givens |-> cells[i].givens[j].source] ELSE <<>>
           parts == [i \in DOMAIN cells |-> one(i)]
<1>1. /\ Len(cells) \in Nat /\ DOMAIN cells = 1..Len(cells)
      /\ \A i \in 1..Len(cells) : cells[i] \in Range(cells)
  BY InRange DEF IsProgram
<1>2. ReadsOf(cells, name) = FlattenSeq(parts)
  BY DEF ReadsOf
<1>3. ASSUME NEW i \in 1..Len(cells) PROVE one(i) \in Seq(N)
  <2> DEFINE gs == cells[i].givens
  <2>1. cells[i] \in Range(cells)
    BY <1>1
  <2>2. Len(gs) \in Nat /\ DOMAIN gs = 1..Len(gs) /\ \A j \in 1..Len(gs) : gs[j] \in Range(gs)
    <3>1. PICK S : gs \in Seq(S)
      BY <2>1 DEF IsProgram
    <3> QED BY <3>1, InRange
  <2>3. \A j \in 1..Len(gs) : gs[j].source \in N
    BY <2>1, <2>2 DEF Nodes
  <2>4. [j \in DOMAIN gs |-> gs[j].source] \in Seq(N)
    BY <2>2, <2>3
  <2> HIDE DEF N
  <2> QED BY <2>4, EmptySeq
<1>4. parts \in Seq(Seq(N))
  BY <1>1, <1>3
<1>5. ReadsOf(cells, name) \in Seq(N)
  BY <1>2, <1>4, FlattenType
<1>6. ASSUME name \notin Names(cells) PROVE Range(ReadsOf(cells, name)) = {}
  <2>1. \A i \in 1..Len(cells) : cells[i].name # name
    BY <1>1, <1>6 DEF Names
  <2>2. \A i \in 1..Len(cells) : one(i) = <<>>
    BY <2>1
  <2>3. parts \in Seq(Seq({}))
    <3>1. \A i \in 1..Len(cells) : one(i) \in Seq({})
      BY <2>2, EmptySeq
    <3> HIDE DEF one
    <3> QED BY <1>1, <3>1
  <2>4. ReadsOf(cells, name) \in Seq({})
    BY <1>2, <2>3, FlattenType
  <2> QED BY <2>4, InRange
<1>7. IsFiniteSet(N)
  <2>1. IsFiniteSet(Range(cells))
    BY InRange DEF IsProgram
  <2> DEFINE nameOf == [c \in Range(cells) |-> c.name]
             givens == [c \in Range(cells) |-> Range(c.givens)]
  <2>2. IsFiniteSet(Names(cells))
    <3>1. Names(cells) = {nameOf[c] : c \in Range(cells)}
      BY DEF Names
    <3> HIDE DEF nameOf
    <3>2. IsFiniteSet({nameOf[c] : c \in Range(cells)})
      BY <2>1, FiniteImage
    <3> QED BY <3>1, <3>2
  <2> DEFINE all == {givens[c] : c \in Range(cells)}
  <2>3. IsFiniteSet(all)
    BY <2>1, FiniteImage
  <2>4. \A T \in all : IsFiniteSet(T)
    BY InRange DEF IsProgram
  <2>5. IsFiniteSet(UNION all)
    BY <2>3, <2>4, FS_UNION
  <2>6. UNION all = UNION {Range(c.givens) : c \in Range(cells)}
    <3>1. \A c \in Range(cells) : givens[c] = Range(c.givens)
      OBVIOUS
    <3> HIDE DEF givens
    <3>2. all = {Range(c.givens) : c \in Range(cells)}
      BY <3>1
    <3> QED BY <3>2
  <2> DEFINE source == [g \in UNION all |-> g.source]
  <2>7. IsFiniteSet({source[g] : g \in UNION all})
    <3> HIDE DEF source, all
    <3> QED BY <2>5, FiniteImage
  <2>8. {source[g] : g \in UNION all} = {g.source : g \in UNION all}
    OBVIOUS
  <2> HIDE DEF source, all
  <2> QED BY <2>2, <2>6, <2>7, <2>8, FS_Union DEF Nodes
<1> QED BY <1>5, <1>6, <1>7

-----------------------------------------------------------------------------
(* Going through a list.                                                   *)

\* The greatest of some of the first numbers is one of them.
LEMMA MaxIn ==
  ASSUME NEW n \in Nat, NEW T \in SUBSET (1..n), T # {}
  PROVE  Max(T) \in T
<1> DEFINE U == {n - x : x \in T}
<1>1. U \in SUBSET Nat /\ U # {}
  <2>1. \A x \in T : x \in 1..n /\ n - x \in Nat
    OBVIOUS
  <2> QED BY <2>1
<1>2. PICK u \in U : \A w \in U : u <= w
  BY <1>1, LeastNumber
<1>3. PICK x \in T : u = n - x
  OBVIOUS
<1>4. \A w \in T : x >= w
  <2> SUFFICES ASSUME NEW w \in T PROVE x >= w
    OBVIOUS
  <2>1. n - w \in U /\ x \in Nat /\ w \in Nat
    OBVIOUS
  <2> QED BY <1>2, <1>3, <2>1
<1> QED BY <1>4 DEF Max

\* The greatest of the first numbers.
LEMMA MaxUpTo ==
  ASSUME NEW i \in Nat \ {0}
  PROVE  Max(1..i) = i /\ (1..i) \ {i} = 1..(i - 1)
<1>1. i \in 1..i /\ \A w \in 1..i : i >= w
  OBVIOUS
<1>2. \A x \in 1..i : (\A w \in 1..i : x >= w) => x = i
  OBVIOUS
<1> QED BY <1>1, <1>2 DEF Max

\* FoldLeft takes a list apart from its end: what it makes of s when it passes
\* over the places in skip and searches the nodes at the others.
Folded(k, n, s, h, nodes, skip) ==
  k = [T \in SUBSET (1..n) |->
         IF T = {} THEN s
         ELSE IF Max(T) \in skip THEN k[T \ {Max(T)}]
              ELSE h[<<k[T \ {Max(T)}], nodes[Max(T)]>>]]

\* The search does not leave X from the nodes.
StaysIn(X, n, h, nodes, skip) ==
  \A u \in X, i \in 1..n : i \notin skip => h[<<u, nodes[i]>>] \in X

\* The same from the front, within X, to the result r.
Walks(r, X, n, s, h, nodes, skip) ==
  \E f \in [0..n -> X] :
    /\ f[0] = s /\ r = f[n]
    /\ \A i \in 1..n : f[i] = IF i \in skip THEN f[i - 1] ELSE h[<<f[i - 1], nodes[i]>>]

\* The fold over a list of names is a walk.
LEMMA FoldedWalks ==
  ASSUME NEW n \in Nat, NEW h, NEW nodes, NEW skip, NEW X, NEW s \in X,
         StaysIn(X, n, h, nodes, skip)
  PROVE  Walks((CHOOSE k : Folded(k, n, s, h, nodes, skip))[1..n], X, n, s, h, nodes, skip)
<1>0. PICK g : g = CHOOSE k : Folded(k, n, s, h, nodes, skip)
  OBVIOUS
<1> DEFINE next(u, i) == IF i \in skip THEN u ELSE h[<<u, nodes[i]>>]
           step == [p \in (1..n) \X X |-> next(p[2], p[1])]
           pick == [T \in SUBSET (1..n) |-> Max(T)]
<1>1. /\ step \in [(1..n) \X X -> X]
      /\ \A i \in 1..n, u \in X : step[<<i, u>>] = next(u, i) /\ next(u, i) \in X
  <2>1. \A i \in 1..n, u \in X : next(u, i) \in X
    BY DEF StaysIn
  <2> HIDE DEF next
  <2> QED BY <2>1
<1>2. \A T \in SUBSET (1..n) : T # {} => pick[T] \in T /\ pick[T] = Max(T)
  BY MaxIn
<1> HIDE DEF step, pick
<1>3. PICK k \in [SUBSET (1..n) -> X] : FoldsUp(k, 1..n, s, step, pick)
  <2>1. IsFiniteSet(1..n)
    BY FS_Interval
  <2> QED BY <1>1, <1>2, <2>1, FoldsExists
<1>4. Folded(k, n, s, h, nodes, skip)
  <2>1. ASSUME NEW T \in SUBSET (1..n)
        PROVE  k[T] = IF T = {} THEN s ELSE next(k[T \ {Max(T)}], Max(T))
    <3>1. k[T] = IF T = {} THEN s ELSE step[<<pick[T], k[T \ {pick[T]}]>>]
      BY <1>3 DEF FoldsUp
    <3>2. T # {} => Max(T) \in 1..n /\ k[T \ {Max(T)}] \in X
      BY <1>2
    <3> HIDE DEF next
    <3> QED BY <1>1, <1>2, <3>1, <3>2
  <2> QED BY <2>1 DEF Folded
<1>5. Folded(g, n, s, h, nodes, skip)
  BY <1>0, <1>4
<1> DEFINE f == [i \in 0..n |-> g[1..i]]
<1>6. \A i \in 0..n : f[i] = g[1..i]
  OBVIOUS
<1>7. f[0] = s /\ f[n] = g[1..n]
  <2>1. 1..0 = {} /\ 0 \in 0..n /\ n \in 0..n /\ {} \in SUBSET (1..n)
    OBVIOUS
  <2> QED BY <1>5, <1>6, <2>1 DEF Folded
<1> HIDE DEF f, next
<1>8. ASSUME NEW i \in 1..n PROVE f[i] = next(f[i - 1], i)
  <2>1. /\ i \in Nat \ {0} /\ i \in 0..n /\ i - 1 \in 0..n
        /\ 1..i \in SUBSET (1..n) /\ 1..i # {}
    OBVIOUS
  <2>2. Max(1..i) = i /\ (1..i) \ {i} = 1..(i - 1)
    BY <2>1, MaxUpTo
  <2>3. \A T \in SUBSET (1..n) :
          g[T] = IF T = {} THEN s ELSE next(g[T \ {Max(T)}], Max(T))
    BY <1>5 DEF Folded, next
  <2>4. g[1..i] = next(g[1..(i - 1)], i)
    BY <2>1, <2>2, <2>3
  <2> QED BY <1>6, <2>1, <2>4
<1>9. ASSUME NEW j \in 0..n PROVE f[j] \in X
  <2> DEFINE good == {i \in 0..n : f[i] \in X}
  <2>1. 0 \in good
    BY <1>7
  <2>2. \A i \in 0..j : i > 0 /\ i - 1 \in good => i \in good
    <3> SUFFICES ASSUME NEW i \in 0..j, i > 0, i - 1 \in good PROVE i \in good
      OBVIOUS
    <3>1. i \in 1..n /\ i \in 0..n
      OBVIOUS
    <3>2. next(f[i - 1], i) \in X
      BY <1>1, <3>1
    <3> QED BY <1>8, <3>1, <3>2
  <2> HIDE DEF good
  <2>3. j \in good
    BY <2>1, <2>2, UpTo
  <2> QED BY <2>3 DEF good
<1>10. f \in [0..n -> X]
  BY <1>9 DEF f
<1> QED BY <1>0, <1>7, <1>8, <1>10 DEF next, Walks

\* The search h does not leave X from what name reads.
Keeps(h, cells, name, X) ==
  \A u \in X, d \in Range(ReadsOf(cells, name)) : d # name => h[<<u, d>>] \in X

\* What SearchReads makes of s, dep by dep, within X.
Runs(h, cells, name, X, s) ==
  LET deps == ReadsOf(cells, name)
  IN \E f \in [0..Len(deps) -> X] :
       /\ f[0] = s /\ SearchReads(h, cells, s, name) = f[Len(deps)]
       /\ \A i \in 1..Len(deps) :
            f[i] = IF deps[i] = name THEN f[i - 1] ELSE h[<<f[i - 1], deps[i]>>]

\* Reading the givens of a name is such a walk.
LEMMA SearchReadsRuns ==
  ASSUME NEW cells, IsProgram(cells), NEW h, NEW name, NEW X, Keeps(h, cells, name, X), NEW s \in X
  PROVE  Runs(h, cells, name, X, s)
<1>1. PICK deps, n, skip :
        /\ deps = ReadsOf(cells, name) /\ n = Len(deps)
        /\ skip = {i \in 1..n : deps[i] = name}
  OBVIOUS
<1>2. n \in Nat /\ DOMAIN deps = 1..n /\ \A i \in 1..n : deps[i] \in Range(deps)
  BY <1>1, ReadsType, InRange
<1> DEFINE raw(k) == k = [T \in SUBSET (1..n) |->
                            IF T = {} THEN s
                            ELSE IF deps[Max(T)] = name THEN k[T \ {Max(T)}]
                                 ELSE h[<<k[T \ {Max(T)}], deps[Max(T)]>>]]
<1>3. SearchReads(h, cells, s, name) = (CHOOSE k : raw(k))[1..n]
  BY <1>1, <1>2 DEF SearchReads, FoldLeft, MapThenFoldSet
<1>4. \A T \in SUBSET (1..n) : T # {} => (Max(T) \in skip <=> deps[Max(T)] = name)
  BY <1>1, <1>2, MaxIn
<1>5. \A k : raw(k) <=> Folded(k, n, s, h, deps, skip)
  BY <1>4 DEF Folded
<1>6. SearchReads(h, cells, s, name) = (CHOOSE k : Folded(k, n, s, h, deps, skip))[1..n]
  BY <1>3, <1>5
<1>7. StaysIn(X, n, h, deps, skip)
  BY <1>1, <1>2 DEF Keeps, StaysIn
<1>8. Walks(SearchReads(h, cells, s, name), X, n, s, h, deps, skip)
  BY <1>2, <1>6, <1>7, FoldedWalks
<1> QED BY <1>1, <1>8 DEF Runs, Walks

\* Two searches that agree on X make the same of it.
LEMMA RunsAgree ==
  ASSUME NEW cells, IsProgram(cells), NEW h, NEW name, NEW X, Keeps(h, cells, name, X), NEW s \in X,
         NEW k, \A u \in X, d \in Range(ReadsOf(cells, name)) :
                  d # name => k[<<u, d>>] = h[<<u, d>>]
  PROVE  SearchReads(k, cells, s, name) = SearchReads(h, cells, s, name)
<1>1. PICK deps : deps = ReadsOf(cells, name)
  OBVIOUS
<1>2. Len(deps) \in Nat /\ \A i \in 1..Len(deps) : deps[i] \in Range(deps)
  BY <1>1, ReadsType, InRange
<1>3. Keeps(k, cells, name, X)
  BY DEF Keeps
<1>4. Runs(h, cells, name, X, s) /\ Runs(k, cells, name, X, s)
  BY <1>3, SearchReadsRuns
<1>5. PICK f \in [0..Len(deps) -> X] :
        /\ f[0] = s /\ SearchReads(h, cells, s, name) = f[Len(deps)]
        /\ \A i \in 1..Len(deps) :
             f[i] = IF deps[i] = name THEN f[i - 1] ELSE h[<<f[i - 1], deps[i]>>]
  BY <1>1, <1>4 DEF Runs
<1>6. PICK g \in [0..Len(deps) -> X] :
        /\ g[0] = s /\ SearchReads(k, cells, s, name) = g[Len(deps)]
        /\ \A i \in 1..Len(deps) :
             g[i] = IF deps[i] = name THEN g[i - 1] ELSE k[<<g[i - 1], deps[i]>>]
  BY <1>1, <1>4 DEF Runs
<1> DEFINE good == {i \in 0..Len(deps) : f[i] = g[i]}
<1>7. 0 \in good
  BY <1>2, <1>5, <1>6
<1>8. ASSUME NEW i \in 0..Len(deps), i > 0, i - 1 \in good PROVE i \in good
  <2>1. i \in 1..Len(deps) /\ f[i - 1] \in X /\ f[i - 1] = g[i - 1]
    BY <1>2, <1>8
  <2>2. deps[i] # name => k[<<f[i - 1], deps[i]>>] = h[<<f[i - 1], deps[i]>>]
    BY <1>1, <1>2, <2>1
  <2>3. f[i] = g[i]
    BY <1>5, <1>6, <2>1, <2>2
  <2> QED BY <2>3
<1> HIDE DEF good
<1>9. Len(deps) \in good
  BY <1>2, <1>7, <1>8, UpTo
<1> QED BY <1>5, <1>6, <1>9 DEF good

-----------------------------------------------------------------------------
(* There is a search.                                                      *)

\* What a search makes of a state and a name, if h is the search.
Searched(h, cells, s, name) == IF s.cycle THEN s ELSE Visit(h, cells, s, name)

\* h is a search.
Searches(h, cells) ==
  h = [at \in Visits(cells) \X Nodes(cells) |-> Searched(h, cells, at[1], at[2])]

\* How many names are not being visited.
Rank(cells, s) == Cardinality(Nodes(cells) \ s.visiting)

\* The states with a cycle, and those in which visiting is T.
Within(cells, T) == {u \in Visits(cells) : ~u.cycle => u.visiting = T}

\* Ranks are numbers, and less below.
LEMMA RankType ==
  ASSUME NEW cells, IsProgram(cells), NEW s \in Visits(cells)
  PROVE  /\ Rank(cells, s) \in Nat
         /\ Cardinality(Nodes(cells)) \in Nat
         /\ Rank(cells, s) <= Cardinality(Nodes(cells))
         /\ \A u \in Visits(cells), name \in Nodes(cells) \ s.visiting :
              u.visiting = s.visiting \cup {name} => Rank(cells, u) < Rank(cells, s)
<1> DEFINE N == Nodes(cells)
<1>1. IsFiniteSet(N)
  BY ReadsType
<1> HIDE DEF N
<1>2. \A T \in SUBSET N :
        Cardinality(T) \in Nat /\ Cardinality(T) <= Cardinality(N) /\ Cardinality(N) \in Nat
  BY <1>1, FS_Subset, FS_CardinalityType
<1>3. ASSUME NEW u \in Visits(cells), NEW name \in N \ s.visiting,
             u.visiting = s.visiting \cup {name}
      PROVE  Cardinality(N \ u.visiting) < Cardinality(N \ s.visiting)
  <2> DEFINE T == N \ s.visiting
             U == N \ u.visiting
  <2>1. U \in SUBSET T /\ U # T /\ T \in SUBSET N /\ U \in SUBSET N
    BY <1>3
  <2>2. IsFiniteSet(T)
    BY <1>1, <2>1, FS_Subset
  <2>3. Cardinality(U) <= Cardinality(T) /\ (Cardinality(U) = Cardinality(T) => U = T)
    BY <2>1, <2>2, FS_Subset
  <2>4. Cardinality(U) \in Nat /\ Cardinality(T) \in Nat
    BY <1>2, <2>1
  <2> HIDE DEF U, T
  <2>5. Cardinality(U) < Cardinality(T)
    BY <2>1, <2>3, <2>4
  <2> QED BY <2>5 DEF U, T
<1> QED BY <1>2, <1>3 DEF Rank, N

\* Visiting a name leaves visiting as it was, if searching what it reads does.
LEMMA VisitStays ==
  ASSUME NEW cells, IsProgram(cells), NEW h, NEW s \in Visits(cells), ~s.cycle,
         NEW name \in Nodes(cells), NEW X, X = Within(cells, s.visiting \cup {name}),
         name \notin s.visiting =>
           \A u \in X, d \in Nodes(cells) : d # name => h[<<u, d>>] \in X
  PROVE  Visit(h, cells, s, name) \in Within(cells, s.visiting)
<1> DEFINE N == Nodes(cells)
           s0 == [s EXCEPT !.visiting = @ \cup {name}]
           t == SearchReads(h, cells, s0, name)
<1>1. CASE name \in s.done
  BY <1>1 DEF Visit, Within
<1>2. CASE name \notin s.done /\ name \in s.visiting
  BY <1>2 DEF Visit, Within, Visits
<1>3. CASE name \notin s.done /\ name \notin s.visiting
  <2>1. s0 \in X
    BY DEF Within, Visits
  <2>2. Range(ReadsOf(cells, name)) \in SUBSET N
    BY ReadsType, InRange
  <2>3. t \in X
    <3>1. Keeps(h, cells, name, X)
      BY <1>3, <2>2 DEF Keeps
    <3>2. Runs(h, cells, name, X, s0)
      <4> HIDE DEF s0
      <4> QED BY <2>1, <3>1, SearchReadsRuns
    <3>3. PICK deps : deps = ReadsOf(cells, name)
      OBVIOUS
    <3>4. PICK f \in [0..Len(deps) -> X] : t = f[Len(deps)]
      BY <3>2, <3>3 DEF Runs
    <3>5. Len(deps) \in 0..Len(deps)
      BY <3>3, ReadsType, InRange
    <3> HIDE DEF t
    <3> QED BY <3>4, <3>5
  <2>4. t \in Visits(cells) /\ (~t.cycle => t.visiting = s.visiting \cup {name})
    BY <2>3 DEF Within
  <2>5. Visit(h, cells, s, name) =
          IF t.cycle THEN t ELSE [t EXCEPT !.visiting = @ \ {name}, !.done = @ \cup {name}]
    BY <1>3 DEF Visit
  <2> HIDE DEF t
  <2>6. CASE t.cycle
    BY <2>4, <2>5, <2>6 DEF Within
  <2>7. CASE ~t.cycle
    <3> DEFINE u == [t EXCEPT !.visiting = @ \ {name}, !.done = @ \cup {name}]
    <3>1. Visit(h, cells, s, name) = u
      BY <2>5, <2>7
    <3>2. u \in Visits(cells)
      BY <2>4 DEF Visits
    <3>3. u.visiting = s.visiting
      BY <1>3, <2>4, <2>7 DEF Visits
    <3> QED BY <3>1, <3>2, <3>3 DEF Within
  <2> QED BY <2>6, <2>7
<1> QED BY <1>1, <1>2, <1>3

\* The searches k and h agree on X, and do not leave it.
Alike(k, h, cells, name, X) ==
  \A u \in X, d \in Nodes(cells) :
    d # name => h[<<u, d>>] \in X /\ k[<<u, d>>] = h[<<u, d>>]

\* Two searches that agree where it matters visit alike.
LEMMA VisitAgrees ==
  ASSUME NEW cells, IsProgram(cells), NEW h, NEW s \in Visits(cells), ~s.cycle,
         NEW name \in Nodes(cells), NEW k,
         name \notin s.visiting => Alike(k, h, cells, name, Within(cells, s.visiting \cup {name}))
  PROVE  Visit(k, cells, s, name) = Visit(h, cells, s, name)
<1> DEFINE s0 == [s EXCEPT !.visiting = @ \cup {name}]
           X == Within(cells, s.visiting \cup {name})
<1>1. CASE name \in s.done \/ name \in s.visiting
  BY <1>1 DEF Visit
<1>2. CASE name \notin s.done /\ name \notin s.visiting
  <2>1. s0 \in X
    BY DEF Within, Visits
  <2>2. Range(ReadsOf(cells, name)) \in SUBSET Nodes(cells)
    BY ReadsType, InRange
  <2> HIDE DEF X
  <2>x. Alike(k, h, cells, name, X)
    BY <1>2 DEF X
  <2>3. Keeps(h, cells, name, X)
    BY <2>x, <2>2 DEF Keeps, Alike
  <2>4. \A u \in X, d \in Range(ReadsOf(cells, name)) :
          d # name => k[<<u, d>>] = h[<<u, d>>]
    BY <2>x, <2>2 DEF Alike
  <2>5. SearchReads(k, cells, s0, name) = SearchReads(h, cells, s0, name)
    <3> HIDE DEF s0
    <3> QED BY <2>1, <2>3, <2>4, RunsAgree
  <2> QED BY <1>2, <2>5 DEF Visit
<1> QED BY <1>1, <1>2

\* h is a search as far as the states of a rank below m are concerned.
SearchesTo(h, cells, m) ==
  \A s \in Visits(cells), name \in Nodes(cells) :
    /\ s.cycle => h[<<s, name>>] = s
    /\ Rank(cells, s) < m => /\ h[<<s, name>>] = Searched(h, cells, s, name)
                             /\ ~s.cycle => h[<<s, name>>] \in Within(cells, s.visiting)

\* From one rank to the next,
LEMMA SearchGrows ==
  ASSUME NEW cells, IsProgram(cells), NEW m \in Nat,
         NEW h \in [Visits(cells) \X Nodes(cells) -> Visits(cells)], SearchesTo(h, cells, m)
  PROVE  \E k \in [Visits(cells) \X Nodes(cells) -> Visits(cells)] : SearchesTo(k, cells, m + 1)
<1> DEFINE V == Visits(cells)
           N == Nodes(cells)
           next(s, name) == IF Rank(cells, s) < m + 1 THEN Searched(h, cells, s, name) ELSE s
           k == [at \in V \X N |-> next(at[1], at[2])]
<1>1. \A s \in V, name \in N : k[<<s, name>>] = next(s, name)
  OBVIOUS
<1> HIDE DEF k
<1>2. ASSUME NEW s \in V, NEW name \in N, Rank(cells, s) < m + 1, ~s.cycle,
             name \notin s.visiting,
             NEW u \in Within(cells, s.visiting \cup {name}), NEW d \in N
      PROVE  /\ h[<<u, d>>] \in Within(cells, s.visiting \cup {name})
             /\ k[<<u, d>>] = h[<<u, d>>]
  <2>0. u \in V
    BY DEF Within
  <2>1. CASE u.cycle
    <3>1. h[<<u, d>>] = u
      BY <2>0, <2>1 DEF SearchesTo
    <3> QED BY <1>1, <2>0, <2>1, <3>1 DEF Searched
  <2>2. CASE ~u.cycle
    <3>1. u.visiting = s.visiting \cup {name}
      BY <2>2 DEF Within
    <3>2. Rank(cells, u) < Rank(cells, s)
      BY <1>2, <2>0, <3>1, RankType
    <3>3. Rank(cells, u) < m /\ Rank(cells, u) < m + 1
      BY <1>2, <2>0, <3>2, RankType
    <3>4. h[<<u, d>>] = Searched(h, cells, u, d) /\ h[<<u, d>>] \in Within(cells, u.visiting)
      BY <2>0, <2>2, <3>3 DEF SearchesTo
    <3>5. k[<<u, d>>] = Searched(h, cells, u, d)
      BY <1>1, <2>0, <3>3
    <3> QED BY <3>1, <3>4, <3>5
  <2> QED BY <2>1, <2>2
<1>3. ASSUME NEW s \in V, NEW name \in N, Rank(cells, s) < m + 1, ~s.cycle
      PROVE  /\ Visit(h, cells, s, name) \in Within(cells, s.visiting)
             /\ Visit(k, cells, s, name) = Visit(h, cells, s, name)
  <2>1. PICK X : X = Within(cells, s.visiting \cup {name})
    OBVIOUS
  <2>2. ASSUME name \notin s.visiting PROVE Alike(k, h, cells, name, X)
    <3> SUFFICES ASSUME NEW u \in X, NEW d \in N
                 PROVE  h[<<u, d>>] \in X /\ k[<<u, d>>] = h[<<u, d>>]
      BY DEF Alike
    <3>1. u \in Within(cells, s.visiting \cup {name})
      BY <2>1
    <3> QED BY <1>2, <1>3, <2>1, <2>2, <3>1
  <2>3. Visit(h, cells, s, name) \in Within(cells, s.visiting)
    <3>1. name \notin s.visiting =>
            \A u \in X, d \in Nodes(cells) : d # name => h[<<u, d>>] \in X
      BY <2>2 DEF Alike
    <3> QED BY <1>3, <2>1, <3>1, VisitStays
  <2>4. Visit(k, cells, s, name) = Visit(h, cells, s, name)
    BY <1>3, <2>1, <2>2, VisitAgrees
  <2> QED BY <2>3, <2>4
<1>4. ASSUME NEW s \in V, NEW name \in N PROVE next(s, name) \in V
  BY <1>3 DEF Searched, Within
<1>5. k \in [V \X N -> V]
  BY <1>4 DEF k
<1>6. SearchesTo(k, cells, m + 1)
  <2> SUFFICES ASSUME NEW s \in V, NEW name \in N
               PROVE  /\ s.cycle => k[<<s, name>>] = s
                      /\ Rank(cells, s) < m + 1 =>
                           /\ k[<<s, name>>] = Searched(k, cells, s, name)
                           /\ ~s.cycle => k[<<s, name>>] \in Within(cells, s.visiting)
    BY DEF SearchesTo
  <2>1. k[<<s, name>>] = next(s, name)
    BY <1>1
  <2>2. CASE s.cycle
    BY <2>1, <2>2 DEF Searched
  <2>3. CASE ~s.cycle
    BY <1>3, <2>1, <2>3 DEF Searched
  <2> QED BY <2>2, <2>3
<1> QED BY <1>5, <1>6

\* and so there is a search.
LEMMA SearchExists ==
  ASSUME NEW cells, IsProgram(cells)
  PROVE  \E h : Searches(h, cells)
<1> DEFINE V == Visits(cells)
           N == Nodes(cells)
           K == Cardinality(N) + 1
           has(m) == \E h \in [V \X N -> V] : SearchesTo(h, cells, m)
           good == {m \in 0..K : has(m)}
<1>1. K \in Nat
  <2>1. Cardinality(N) \in Nat
    BY ReadsType, FS_CardinalityType
  <2> QED BY <2>1
<1>2. 0 \in good
  <2> DEFINE h == [at \in V \X N |-> at[1]]
  <2>1. h \in [V \X N -> V] /\ \A s \in V, name \in N : h[<<s, name>>] = s
    OBVIOUS
  <2>2. \A s \in V : ~(Rank(cells, s) < 0)
    BY RankType
  <2> HIDE DEF h
  <2>3. SearchesTo(h, cells, 0)
    BY <2>1, <2>2 DEF SearchesTo
  <2> QED BY <1>1, <2>1, <2>3
<1>3. ASSUME NEW m \in 0..K, m > 0, m - 1 \in good PROVE m \in good
  <2>1. PICK h \in [V \X N -> V] : SearchesTo(h, cells, m - 1)
    BY <1>3
  <2>2. m - 1 \in Nat /\ (m - 1) + 1 = m
    BY <1>1, <1>3
  <2>3. has((m - 1) + 1)
    <3> HIDE DEF K
    <3> QED BY <2>1, <2>2, SearchGrows
  <2> QED BY <2>2, <2>3
<1> HIDE DEF good
<1>4. K \in good
  <2> HIDE DEF K
  <2> QED BY <1>1, <1>2, <1>3, UpTo
<1>5. PICK h \in [V \X N -> V] : SearchesTo(h, cells, K)
  BY <1>4 DEF good
<1>6. \A s \in V : Rank(cells, s) < K
  BY <1>1, RankType
<1> HIDE DEF K
<1>7. \A s \in V, name \in N : h[<<s, name>>] = Searched(h, cells, s, name)
  BY <1>5, <1>6 DEF SearchesTo
<1>8. Searches(h, cells)
  <2>1. \A at \in V \X N : h[at] = Searched(h, cells, at[1], at[2])
    BY <1>7
  <2> QED BY <1>5, <2>1 DEF Searches
<1> QED BY <1>8

-----------------------------------------------------------------------------
(* The invariants of the search.                                           *)

HasLoop(cells) == \E N \in SUBSET Nodes(cells) : Loop(cells, N)

\* The other names that name reads.
Others(cells, name) == Range(ReadsOf(cells, name)) \ {name}

\* What is done reads nothing else that is not done, and is free of loops.
Settled(cells, s) ==
  /\ s.done \cap s.visiting = {}
  /\ \A d \in s.done : Others(cells, d) \subseteq s.done
  /\ \A N \in SUBSET s.done : ~Loop(cells, N)

\* Whoever is being visited reads another one of them, or name.
OnPath(cells, s, name) ==
  \A v \in s.visiting : \E d \in s.visiting \cup {name} : d \in Others(cells, v)

\* What may become of s: a cycle is a loop, and without one only done grows.
Follows(cells, s, t) ==
  /\ t \in Visits(cells)
  /\ t.cycle => HasLoop(cells)
  /\ ~t.cycle => Settled(cells, t) /\ t.visiting = s.visiting /\ s.done \subseteq t.done

\* The search of name from s is to come back with t.
Right(cells, s, name, t) ==
  ~s.cycle /\ Settled(cells, s) /\ OnPath(cells, s, name) =>
    Follows(cells, s, t) /\ (~t.cycle => name \in t.done)

\* A loop is one because of what its members read of the others.
LEMMA LoopReads ==
  ASSUME NEW cells, NEW N
  PROVE  Loop(cells, N) <=> N # {} /\ \A n \in N : \E d \in N : d \in Others(cells, n)
BY DEF Loop, Others

\* When all that name reads is done, name can be done as well.
LEMMA DoneGrows ==
  ASSUME NEW cells, NEW t, NEW name, name \in t.visiting, Settled(cells, t),
         Others(cells, name) \subseteq t.done,
         NEW u, u.visiting = t.visiting \ {name}, u.done = t.done \cup {name}
  PROVE  Settled(cells, u)
<1>1. name \notin t.done
  BY DEF Settled
<1>2. u.done \cap u.visiting = {} /\ \A d \in u.done : Others(cells, d) \subseteq u.done
  BY <1>1 DEF Settled
<1>3. ASSUME NEW N \in SUBSET u.done, Loop(cells, N) PROVE FALSE
  <2> DEFINE M == N \ {name}
  <2>1. \A n \in N : \E d \in N : d \in Others(cells, n)
    BY <1>3, LoopReads
  <2>2. N # {}
    BY <1>3, LoopReads
  <2>3. \A n \in N : \E d \in M : d \in Others(cells, n)
    <3> SUFFICES ASSUME NEW n \in N PROVE \E d \in M : d \in Others(cells, n)
      OBVIOUS
    <3>1. PICK d \in N : d \in Others(cells, n)
      BY <2>1
    <3>2. d \in t.done
      BY <3>1 DEF Settled
    <3> QED BY <1>1, <3>1, <3>2
  <2>4. M # {} /\ M \in SUBSET t.done
    BY <2>2, <2>3
  <2>5. \A n \in M : \E d \in M : d \in Others(cells, n)
    BY <2>3
  <2> HIDE DEF M
  <2>6. Loop(cells, M)
    BY <2>4, <2>5, LoopReads
  <2> QED BY <2>4, <2>6 DEF Settled
<1> QED BY <1>2, <1>3 DEF Settled

\* Meeting a name that is being visited is a loop.
LEMMA PathCloses ==
  ASSUME NEW cells, NEW s \in Visits(cells), NEW name \in s.visiting, OnPath(cells, s, name)
  PROVE  HasLoop(cells)
<1>1. s.visiting \in SUBSET Nodes(cells)
  BY DEF Visits
<1>2. s.visiting # {} /\ \A v \in s.visiting : \E d \in s.visiting : d \in Others(cells, v)
  BY DEF OnPath
<1>3. Loop(cells, s.visiting)
  BY <1>2, LoopReads
<1> QED BY <1>1, <1>3 DEF HasLoop

\* Visiting a name keeps the invariants if searching what it reads does.
LEMMA VisitRight ==
  ASSUME NEW cells, IsProgram(cells), NEW h, NEW s \in Visits(cells), NEW name \in Nodes(cells),
         ~s.cycle, Settled(cells, s), OnPath(cells, s, name),
         \A u \in Visits(cells), d \in Nodes(cells) :
           /\ u.cycle => h[<<u, d>>] = u
           /\ Rank(cells, u) < Rank(cells, s) => Right(cells, u, d, h[<<u, d>>])
  PROVE  /\ Follows(cells, s, Visit(h, cells, s, name))
         /\ ~Visit(h, cells, s, name).cycle => name \in Visit(h, cells, s, name).done
<1> DEFINE V == Visits(cells)
           s0 == [s EXCEPT !.visiting = @ \cup {name}]
           X == {u \in V : Follows(cells, s0, u)}
           t == SearchReads(h, cells, s0, name)
<1>1. CASE name \in s.done
  BY <1>1 DEF Visit, Follows
<1>2. CASE name \notin s.done /\ name \in s.visiting
  <2> DEFINE u == [s EXCEPT !.cycle = TRUE]
  <2>1. Visit(h, cells, s, name) = u
    BY <1>2 DEF Visit
  <2>2. u \in V /\ u.cycle
    BY DEF Visits
  <2>3. HasLoop(cells)
    BY <1>2, PathCloses
  <2> QED BY <2>1, <2>2, <2>3 DEF Follows
<1>3. CASE name \notin s.done /\ name \notin s.visiting
  <2>1. s0 \in V /\ ~s0.cycle /\ s0.visiting = s.visiting \cup {name} /\ s0.done = s.done
    BY DEF Visits
  <2> HIDE DEF s0
  <2>2. s0 \in X
    BY <1>3, <2>1 DEF Follows, Settled
  <2>3. ASSUME NEW u \in X, NEW d \in Others(cells, name)
        PROVE  /\ h[<<u, d>>] \in X
               /\ u.cycle => h[<<u, d>>] = u
               /\ ~h[<<u, d>>].cycle => u.done \subseteq h[<<u, d>>].done /\ d \in h[<<u, d>>].done
    <3>1. u \in V /\ d \in Nodes(cells) /\ Follows(cells, s0, u)
      <4>1. Range(ReadsOf(cells, name)) \in SUBSET Nodes(cells)
        BY ReadsType, InRange
      <4> QED BY <2>3, <4>1 DEF Others
    <3>2. CASE u.cycle
      BY <2>3, <3>1, <3>2
    <3>3. CASE ~u.cycle
      <4>1. Settled(cells, u) /\ u.visiting = s.visiting \cup {name} /\ s0.done \subseteq u.done
        BY <2>1, <3>1, <3>3 DEF Follows
      <4>2. OnPath(cells, u, d)
        <5> SUFFICES ASSUME NEW v \in u.visiting
                     PROVE  \E e \in u.visiting \cup {d} : e \in Others(cells, v)
          BY DEF OnPath
        <5>1. CASE v = name
          BY <2>3, <5>1
        <5>2. CASE v # name
          BY <4>1, <5>2 DEF OnPath
        <5> QED BY <5>1, <5>2
      <4>3. Rank(cells, u) < Rank(cells, s)
        BY <1>3, <3>1, <4>1, RankType
      <4>4. Right(cells, u, d, h[<<u, d>>])
        BY <3>1, <4>3
      <4>5. Follows(cells, u, h[<<u, d>>]) /\ (~h[<<u, d>>].cycle => d \in h[<<u, d>>].done)
        BY <3>3, <4>1, <4>2, <4>4 DEF Right
      <4>6. Follows(cells, s0, h[<<u, d>>])
        BY <2>1, <4>1, <4>5 DEF Follows
      <4> QED BY <3>3, <4>5, <4>6 DEF Follows
    <3> QED BY <3>2, <3>3
  <2> HIDE DEF X
  <2>4. Keeps(h, cells, name, X)
    BY <2>3 DEF Keeps, Others
  <2>5. PICK deps : deps = ReadsOf(cells, name)
    OBVIOUS
  <2>6. /\ Len(deps) \in Nat /\ \A i \in 1..Len(deps) : deps[i] \in Range(deps)
        /\ \A d \in Range(deps) : \E i \in 1..Len(deps) : d = deps[i]
    BY <2>5, ReadsType, InRange
  <2>7. PICK f \in [0..Len(deps) -> X] :
          /\ t = f[Len(deps)]
          /\ \A i \in 1..Len(deps) :
               f[i] = IF deps[i] = name THEN f[i - 1] ELSE h[<<f[i - 1], deps[i]>>]
    BY <2>2, <2>4, <2>5, SearchReadsRuns DEF Runs
  <2> HIDE DEF t
  <2> DEFINE all(i) == \A j \in 1..i : deps[j] = name \/ deps[j] \in f[i].done
             good == {i \in 0..Len(deps) : ~f[i].cycle => all(i)}
  <2>8. 0 \in good
    BY <2>6
  <2>9. ASSUME NEW i \in 0..Len(deps), i > 0, i - 1 \in good PROVE i \in good
    <3>1. i \in 1..Len(deps) /\ f[i - 1] \in X
      BY <2>6, <2>9
    <3>2. f[i] = IF deps[i] = name THEN f[i - 1] ELSE h[<<f[i - 1], deps[i]>>]
      BY <2>7, <3>1
    <3>3. deps[i] # name => deps[i] \in Others(cells, name)
      BY <2>5, <2>6, <3>1 DEF Others
    <3>4. /\ f[i - 1].cycle => f[i].cycle
          /\ ~f[i].cycle => f[i - 1].done \subseteq f[i].done
          /\ ~f[i].cycle => deps[i] = name \/ deps[i] \in f[i].done
      BY <2>3, <3>1, <3>2, <3>3
    <3>5. ASSUME ~f[i].cycle, NEW j \in 1..i PROVE deps[j] = name \/ deps[j] \in f[i].done
      <4>1. CASE j = i
        BY <3>4, <3>5, <4>1
      <4>2. CASE j # i
        <5>1. j \in 1..(i - 1)
          BY <3>1, <3>5, <4>2
        <5>2. deps[j] = name \/ deps[j] \in f[i - 1].done
          BY <2>9, <3>4, <3>5, <5>1
        <5> QED BY <3>4, <3>5, <5>2
      <4> QED BY <4>1, <4>2
    <3> QED BY <3>5
  <2> HIDE DEF good
  <2>10. Len(deps) \in good
    BY <2>6, <2>8, <2>9, UpTo
  <2>11. ~t.cycle => Others(cells, name) \subseteq t.done
    <3> SUFFICES ASSUME ~t.cycle, NEW d \in Others(cells, name) PROVE d \in t.done
      OBVIOUS
    <3>1. PICK i \in 1..Len(deps) : d = deps[i]
      BY <2>5, <2>6 DEF Others
    <3>2. d # name
      BY DEF Others
    <3> QED BY <2>7, <2>10, <3>1, <3>2 DEF good
  <2>12. t \in V /\ Follows(cells, s0, t)
    <3>1. Len(deps) \in 0..Len(deps)
      BY <2>6
    <3>2. t \in X
      BY <2>7, <3>1
    <3> QED BY <3>2 DEF X
  <2>13. Visit(h, cells, s, name) =
           IF t.cycle THEN t ELSE [t EXCEPT !.visiting = @ \ {name}, !.done = @ \cup {name}]
    BY <1>3 DEF Visit, s0, t
  <2>14. CASE t.cycle
    BY <2>12, <2>13, <2>14 DEF Follows
  <2>15. CASE ~t.cycle
    <3> DEFINE u == [t EXCEPT !.visiting = @ \ {name}, !.done = @ \cup {name}]
    <3>1. u \in V /\ ~u.cycle /\ u.visiting = t.visiting \ {name} /\ u.done = t.done \cup {name}
      BY <2>12, <2>15 DEF Visits
    <3>2. Visit(h, cells, s, name) = u
      BY <2>13, <2>15
    <3> HIDE DEF u
    <3>3. Settled(cells, t) /\ t.visiting = s.visiting \cup {name} /\ s.done \subseteq t.done
      BY <2>1, <2>12, <2>15 DEF Follows
    <3>4. Settled(cells, u)
      BY <2>11, <2>15, <3>1, <3>3, DoneGrows
    <3>5. u.visiting = s.visiting
      BY <1>3, <3>1, <3>3
    <3> QED BY <3>1, <3>2, <3>3, <3>4, <3>5 DEF Follows
  <2> QED BY <2>14, <2>15
<1> QED BY <1>1, <1>2, <1>3

\* The search keeps its invariants, whatever name it is given.
LEMMA SearchRight ==
  ASSUME NEW cells, IsProgram(cells), NEW h, Searches(h, cells)
  PROVE  \A s \in Visits(cells), name \in Nodes(cells) :
           /\ s.cycle => h[<<s, name>>] = s
           /\ Right(cells, s, name, h[<<s, name>>])
<1> DEFINE V == Visits(cells)
           N == Nodes(cells)
           K == Cardinality(N) + 1
           right(m) == \A s \in V, name \in N :
                         Rank(cells, s) < m => Right(cells, s, name, h[<<s, name>>])
           good == {m \in 0..K : right(m)}
<1>1. K \in Nat
  <2>1. Cardinality(N) \in Nat
    BY ReadsType, FS_CardinalityType
  <2> QED BY <2>1
<1>2. \A s \in V, name \in N : h[<<s, name>>] = Searched(h, cells, s, name)
  BY DEF Searches
<1>3. \A s \in V, name \in N : s.cycle => h[<<s, name>>] = s
  BY <1>2 DEF Searched
<1>4. 0 \in good
  <2>1. \A s \in V : ~(Rank(cells, s) < 0)
    BY RankType
  <2> QED BY <1>1, <2>1
<1>5. ASSUME NEW m \in 0..K, m > 0, m - 1 \in good PROVE m \in good
  <2> SUFFICES ASSUME NEW s \in V, NEW name \in N, Rank(cells, s) < m
               PROVE  Right(cells, s, name, h[<<s, name>>])
    OBVIOUS
  <2> SUFFICES ASSUME ~s.cycle, Settled(cells, s), OnPath(cells, s, name)
               PROVE  /\ Follows(cells, s, h[<<s, name>>])
                      /\ ~h[<<s, name>>].cycle => name \in h[<<s, name>>].done
    BY DEF Right
  <2>1. \A u \in V : Rank(cells, u) < Rank(cells, s) => Rank(cells, u) < m - 1
    BY <1>1, <1>5, RankType
  <2>2. right(m - 1)
    BY <1>5
  <2> HIDE DEF K
  <2>3. \A u \in V, d \in N :
          /\ u.cycle => h[<<u, d>>] = u
          /\ Rank(cells, u) < Rank(cells, s) => Right(cells, u, d, h[<<u, d>>])
    BY <1>3, <2>1, <2>2
  <2>4. h[<<s, name>>] = Visit(h, cells, s, name)
    BY <1>2 DEF Searched
  <2> QED BY <2>3, <2>4, VisitRight
<1> HIDE DEF good
<1>6. K \in good
  <2> HIDE DEF K
  <2> QED BY <1>1, <1>4, <1>5, UpTo
<1>7. \A s \in V : Rank(cells, s) < K
  BY <1>1, RankType
<1> QED BY <1>3, <1>6, <1>7 DEF good

-----------------------------------------------------------------------------
(* The search for cycles.                                                  *)

\* What the loop over the cells makes of Unvisited, cell by cell.
LEMMA CyclicRuns ==
  ASSUME NEW cells, IsProgram(cells), NEW h, h = Search(cells), NEW n, n = Len(cells),
         NEW X, Unvisited \in X,
         \A u \in X, d \in Names(cells) : h[<<u, d>>] \in X
  PROVE  \E f \in [0..n -> X] :
           /\ f[0] = Unvisited /\ Cyclic(cells) = f[n].cycle
           /\ \A i \in 1..n : f[i] = h[<<f[i - 1], cells[i].name>>]
<1>1. /\ n \in Nat /\ DOMAIN cells = 1..n
      /\ \A i \in 1..n : cells[i] \in Range(cells)
  BY InRange DEF IsProgram
<1>2. PICK nodes : nodes = [i \in 1..n |-> cells[i].name]
  OBVIOUS
<1>3. \A i \in 1..n : nodes[i] = cells[i].name /\ nodes[i] \in Names(cells)
  BY <1>1, <1>2 DEF Names
<1>4. PICK s : s = Unvisited
  OBVIOUS
<1> DEFINE raw(k) == k = [T \in SUBSET (1..n) |->
                            IF T = {} THEN s ELSE h[<<k[T \ {Max(T)}], cells[Max(T)].name>>]]
<1>5. Cyclic(cells) = (CHOOSE k : raw(k))[1..n].cycle
  BY <1>1, <1>4 DEF Cyclic, FoldLeft, MapThenFoldSet
<1>6. \A T \in SUBSET (1..n) : T # {} => nodes[Max(T)] = cells[Max(T)].name
  BY <1>1, <1>3, MaxIn
<1>7. \A k : raw(k) <=> Folded(k, n, s, h, nodes, {})
  BY <1>6 DEF Folded
<1>8. StaysIn(X, n, h, nodes, {})
  BY <1>3 DEF StaysIn
<1>9. PICK r : r = (CHOOSE k : Folded(k, n, s, h, nodes, {}))[1..n]
  OBVIOUS
<1>10. Cyclic(cells) = r.cycle
  BY <1>5, <1>7, <1>9
<1>11. Walks(r, X, n, s, h, nodes, {})
  BY <1>1, <1>4, <1>8, <1>9, FoldedWalks
<1> QED BY <1>3, <1>4, <1>10, <1>11 DEF Walks

\* The linter finds a cycle in a program exactly when there is one: some of
\* its names each read another of them.
THEOREM CycleFound ==
  ASSUME NEW cells, IsProgram(cells)
  PROVE  CyclesFound(cells)
<1> DEFINE V == Visits(cells)
           n == Len(cells)
           X == {u \in V : Follows(cells, Unvisited, u)}
<1>1. /\ n \in Nat
      /\ \A i \in 1..n : cells[i] \in Range(cells)
      /\ \A c \in Range(cells) : \E i \in 1..n : c = cells[i]
  BY InRange DEF IsProgram
<1>2. PICK h : h = Search(cells) /\ Searches(h, cells)
  <2>1. Search(cells) = CHOOSE k : Searches(k, cells)
    BY DEF Search, Searches, Searched
  <2> QED BY <2>1, SearchExists
<1>3. Unvisited \in X
  <2>1. Unvisited \in V /\ ~Unvisited.cycle /\ Unvisited.done = {} /\ Unvisited.visiting = {}
    BY DEF Unvisited, Visits
  <2>2. \A N \in SUBSET {} : ~Loop(cells, N)
    BY DEF Loop
  <2> QED BY <2>1, <2>2 DEF Follows, Settled
<1>4. ASSUME NEW u \in X, NEW d \in Names(cells)
      PROVE  /\ h[<<u, d>>] \in X
             /\ u.cycle => h[<<u, d>>] = u
             /\ ~h[<<u, d>>].cycle => u.done \subseteq h[<<u, d>>].done /\ d \in h[<<u, d>>].done
  <2>1. u \in V /\ d \in Nodes(cells) /\ Follows(cells, Unvisited, u)
    BY DEF Nodes
  <2>2. u.cycle => h[<<u, d>>] = u
    BY <1>2, <2>1, SearchRight
  <2>3. CASE u.cycle
    BY <2>2, <2>3
  <2>4. CASE ~u.cycle
    <3>1. Settled(cells, u) /\ u.visiting = {}
      BY <2>1, <2>4 DEF Follows, Unvisited
    <3>2. OnPath(cells, u, d)
      BY <3>1 DEF OnPath
    <3>3. Right(cells, u, d, h[<<u, d>>])
      BY <1>2, <2>1, SearchRight
    <3>4. Follows(cells, u, h[<<u, d>>]) /\ (~h[<<u, d>>].cycle => d \in h[<<u, d>>].done)
      BY <2>4, <3>1, <3>2, <3>3 DEF Right
    <3>5. Follows(cells, Unvisited, h[<<u, d>>])
      BY <3>1, <3>4 DEF Follows, Unvisited
    <3> QED BY <2>4, <3>4, <3>5 DEF Follows
  <2> QED BY <2>3, <2>4
<1> HIDE DEF X
<1>5. PICK f \in [0..n -> X] :
        /\ Cyclic(cells) = f[n].cycle
        /\ \A i \in 1..n : f[i] = h[<<f[i - 1], cells[i].name>>]
  <2>1. \A u \in X, d \in Names(cells) : h[<<u, d>>] \in X
    BY <1>4
  <2> QED BY <1>2, <1>3, <2>1, CyclicRuns
<1> DEFINE all(i) == \A j \in 1..i : cells[j].name \in f[i].done
           good == {i \in 0..n : ~f[i].cycle => all(i)}
<1>6. 0 \in good
  BY <1>1
<1>7. ASSUME NEW i \in 0..n, i > 0, i - 1 \in good PROVE i \in good
  <2>1. i \in 1..n /\ f[i - 1] \in X
    BY <1>1, <1>7
  <2>2. cells[i].name \in Names(cells)
    BY <1>1, <2>1 DEF Names
  <2>3. /\ f[i - 1].cycle => f[i].cycle
        /\ ~f[i].cycle => f[i - 1].done \subseteq f[i].done
        /\ ~f[i].cycle => cells[i].name \in f[i].done
    BY <1>4, <1>5, <2>1, <2>2
  <2>4. ASSUME ~f[i].cycle, NEW j \in 1..i PROVE cells[j].name \in f[i].done
    <3>1. CASE j = i
      BY <2>3, <2>4, <3>1
    <3>2. CASE j # i
      <4>1. j \in 1..(i - 1)
        BY <2>1, <2>4, <3>2
      <4>2. cells[j].name \in f[i - 1].done
        BY <1>7, <2>3, <2>4, <4>1
      <4> QED BY <2>3, <2>4, <4>2
    <3> QED BY <3>1, <3>2
  <2> QED BY <2>4
<1> HIDE DEF good
<1>8. n \in good
  BY <1>1, <1>6, <1>7, UpTo
<1>9. Follows(cells, Unvisited, f[n])
  <2>1. n \in 0..n
    BY <1>1
  <2>2. f[n] \in X
    BY <2>1
  <2> QED BY <2>2 DEF X
<1>10. ASSUME ~f[n].cycle, NEW N \in SUBSET Nodes(cells), Loop(cells, N) PROVE FALSE
  <2>1. \A v \in N : v \in Names(cells)
    <3> SUFFICES ASSUME NEW v \in N PROVE v \in Names(cells)
      OBVIOUS
    <3>1. Range(ReadsOf(cells, v)) # {}
      BY <1>10 DEF Loop
    <3> QED BY <3>1, ReadsType
  <2>2. Names(cells) \subseteq f[n].done
    BY <1>1, <1>8, <1>10 DEF good, Names
  <2>3. Settled(cells, f[n])
    BY <1>9, <1>10 DEF Follows
  <2> QED BY <1>10, <2>1, <2>2, <2>3 DEF Settled
<1>11. f[n].cycle => HasLoop(cells)
  BY <1>9 DEF Follows
<1> QED BY <1>5, <1>10, <1>11 DEF CyclesFound, HasLoop

\* CycleSearchRight for any clients, sessions, files and pistons: whatever was
\* poured, the search of lintCells is right about the program it came from.
THEOREM CycleSearchRightAlways == Spec => []CycleSearchRight
<1>1. ASSUME Base, NEW c \in Clients, PouredAlone(c)
      PROVE  CyclesFound(Asked(c))
  <2>1. todo[c] \in Seq(Commands) /\ todo[c] # <<>> /\ Command(c).op = "pour"
    BY <1>1 DEF Base, Control, PouredAlone
  <2>2. Command(c) \in Pours
    BY <2>1 DEF Command, Pours
  <2>3. PICK cells : cells = Asked(c)
    OBVIOUS
  <2>4. IsProgram(cells)
    BY <2>2, <2>3, ProgramsAssumption DEF Asked
  <2> QED BY <2>3, <2>4, CycleFound
<1>2. Base => CycleSearchRight
  BY <1>1 DEF CycleSearchRight
<1> QED BY <1>2, AlwaysBase, PTL

-----------------------------------------------------------------------------
(* What the compiler makes of a cell.                                      *)

IsGiven(g) ==
  /\ g = [source |-> g.source, field |-> g.field, optional |-> g.optional]
  /\ IsList(g.source)

WellFormed(c) ==
  /\ c = [name |-> c.name, type |-> c.type, body |-> c.body, givens |-> c.givens,
          yields |-> c.yields, oracles |-> c.oracles, iterate |-> c.iterate,
          guard |-> c.guard]
  /\ IsList(c.name) /\ c.iterate \in Nat
  /\ IsList(c.givens) /\ IsList(c.yields) /\ IsList(c.oracles)
  /\ \A g \in Range(c.givens) : IsGiven(g)

\* The cells of a program are well formed.
LEMMA ProgramCells ==
  ASSUME NEW cells, IsProgram(cells)
  PROVE  IsList(cells) /\ \A c \in Range(cells) : WellFormed(c)
<1>1. IsList(cells)
  BY DEF IsProgram, IsList
<1>2. ASSUME NEW c \in Range(cells) PROVE WellFormed(c)
  <2>1. /\ c = [name |-> c.name, type |-> c.type, body |-> c.body, givens |-> c.givens,
                yields |-> c.yields, oracles |-> c.oracles, iterate |-> c.iterate,
                guard |-> c.guard]
        /\ c.iterate \in Nat
    BY DEF IsProgram
  <2>2. IsList(c.name) /\ IsList(c.givens) /\ IsList(c.yields) /\ IsList(c.oracles)
    BY SeqIsList DEF IsProgram
  <2>3. PICK S : /\ c.givens \in Seq(S)
                 /\ \A g \in S : /\ g = [source |-> g.source, field |-> g.field,
                                         optional |-> g.optional]
                                 /\ g.source \in Seq(STRING)
    <3> DEFINE G == [source : Seq(STRING), field : STRING, optional : BOOLEAN]
    <3>1. c.givens \in Seq(G)
      BY DEF IsProgram
    <3>2. \A g \in G : /\ g = [source |-> g.source, field |-> g.field, optional |-> g.optional]
                       /\ g.source \in Seq(STRING)
      OBVIOUS
    <3> HIDE DEF G
    <3> QED BY <3>1, <3>2
  <2>4. Range(c.givens) \in SUBSET S
    BY <2>3, InRange
  <2>5. ASSUME NEW g \in Range(c.givens) PROVE IsGiven(g)
    BY <2>3, <2>4, SeqIsList DEF IsGiven
  <2> QED BY <2>1, <2>2, <2>5 DEF WellFormed
<1> QED BY <1>1, <1>2

\* The given that a loop chains is one of its givens, of a field it yields.
LEMMA ChainIn ==
  ASSUME NEW c, WellFormed(c)
  PROVE  /\ ChainGiven(c) = 0 \/ ChainGiven(c) \in 1..Len(c.givens)
         /\ \A j \in 1..Len(c.givens), k \in DOMAIN c.yields :
              c.givens[j].field = c.yields[k].field => ChainGiven(c) # 0
         /\ ChainGiven(c) # 0 => c.givens[ChainGiven(c)].field \in Chaining(c)
<1>1. PICK n, has, T : /\ n = Len(c.givens)
                       /\ has = [g \in Range(c.givens) |-> \E k \in Range(c.yields) : k.field = g.field]
                       /\ T = {i \in 1..n : \E k \in Range(c.yields) : k.field = c.givens[i].field}
  OBVIOUS
<1>2. n \in Nat /\ DOMAIN c.givens = 1..n
  BY <1>1, ListParts DEF WellFormed
<1>3. ChainGiven(c) = IF T # {} THEN Max(T) ELSE 0
  BY <1>1 DEF ChainGiven, SelectLastInSeq
<1>4. T # {} => Max(T) \in T
  BY <1>1, <1>2, MaxIn
<1>5. T \subseteq 1..n /\ 0 \notin 1..n
  BY <1>1, <1>2
<1>6. ASSUME NEW j \in 1..n, NEW k \in DOMAIN c.yields, c.givens[j].field = c.yields[k].field
      PROVE  j \in T
  BY <1>1, <1>6 DEF Range
<1>7. ASSUME NEW i \in T PROVE c.givens[i].field \in Chaining(c)
  BY <1>1, <1>2 DEF Chaining, Fields, Range
<1>8. ChainGiven(c) # 0 => ChainGiven(c) \in T
  BY <1>3, <1>4
<1> QED BY <1>1, <1>3, <1>4, <1>5, <1>6, <1>7, <1>8

\* The fields of a cell with four of them changed.
LEMMA ChangedCell ==
  ASSUME NEW c, WellFormed(c), NEW name, NEW body, NEW givens, NEW times
  PROVE  [c EXCEPT !.name = name, !.iterate = times, !.givens = givens, !.body = body] =
           [name |-> name, type |-> c.type, body |-> body, givens |-> givens,
            yields |-> c.yields, oracles |-> c.oracles, iterate |-> times, guard |-> c.guard]
<1>1. PICK n, t, b, g, v, o, k, u :
        /\ n = c.name /\ t = c.type /\ b = c.body /\ g = c.givens
        /\ v = c.yields /\ o = c.oracles /\ k = c.iterate /\ u = c.guard
  OBVIOUS
<1>2. c = [name |-> n, type |-> t, body |-> b, givens |-> g, yields |-> v, oracles |-> o,
           iterate |-> k, guard |-> u]
  BY <1>1 DEF WellFormed
<1>3. [c EXCEPT !.name = name, !.iterate = times, !.givens = givens, !.body = body] =
        [name |-> name, type |-> t, body |-> body, givens |-> givens, yields |-> v,
         oracles |-> o, iterate |-> times, guard |-> u]
  <2>1. PICK d : d = [c EXCEPT !.name = name]
    OBVIOUS
  <2>2. d = [name |-> name, type |-> t, body |-> b, givens |-> g, yields |-> v, oracles |-> o,
             iterate |-> k, guard |-> u]
    BY <1>2, <2>1
  <2>3. PICK e : e = [d EXCEPT !.iterate = times]
    OBVIOUS
  <2>4. e = [name |-> name, type |-> t, body |-> b, givens |-> g, yields |-> v, oracles |-> o,
             iterate |-> times, guard |-> u]
    BY <2>2, <2>3
  <2>5. PICK f : f = [e EXCEPT !.givens = givens]
    OBVIOUS
  <2>6. f = [name |-> name, type |-> t, body |-> b, givens |-> givens, yields |-> v,
             oracles |-> o, iterate |-> times, guard |-> u]
    BY <2>4, <2>5
  <2>7. PICK h : h = [f EXCEPT !.body = body]
    OBVIOUS
  <2>8. h = [name |-> name, type |-> t, body |-> body, givens |-> givens, yields |-> v,
             oracles |-> o, iterate |-> times, guard |-> u]
    BY <2>6, <2>7
  <2>9. [c EXCEPT !.name = name, !.iterate = times, !.givens = givens, !.body = body] = h
    BY <2>1, <2>3, <2>5, <2>7
  <2> QED BY <2>8, <2>9
<1> QED BY <1>1, <1>3

\* Step i of a loop is a cell, and what of the loop it keeps.
StepFields(c, i, s) ==
  /\ WellFormed(s)
  /\ s.name = StepName(c.name, i) /\ s.type = c.type /\ s.guard = c.guard
  /\ s.yields = c.yields /\ s.oracles = c.oracles
  /\ \A j \in DOMAIN c.givens : StepGiven(c, i, c.givens[j]) \in Range(s.givens)
  /\ \A g \in Range(s.givens) :
       \/ \E j \in DOMAIN c.givens : g = StepGiven(c, i, c.givens[j])
       \/ i > 1 /\ \E j \in Semantic(c) :
            g = Given(JudgeName(StepName(c.name, i - 1), j), "verdict", TRUE)
  /\ i > 1 => \A j \in Semantic(c) :
       Given(JudgeName(StepName(c.name, i - 1), j), "verdict", TRUE) \in Range(s.givens)

\* A given is made of three parts.
LEMMA GivenParts ==
  ASSUME NEW source, IsList(source), NEW field, NEW optional
  PROVE  /\ IsGiven(Given(source, field, optional))
         /\ Given(source, field, optional).source = source
         /\ Given(source, field, optional).field = field
         /\ Given(source, field, optional).optional = optional
BY DEF Given, IsGiven

\* The names of steps and judges are lists.
LEMMA NamesAreLists ==
  ASSUME NEW name, IsList(name), NEW i
  PROVE  IsList(StepName(name, i)) /\ IsList(JudgeName(name, i))
<1>1. IsList(StepName(name, i))
  BY AppendList DEF StepName
<1>2. IsList(<<"judge", Word(i)>>)
  <2>1. <<"judge", Word(i)>> \in Seq({"judge", Word(i)})
    OBVIOUS
  <2> QED BY <2>1, SeqIsList
<1> QED BY <1>1, <1>2, ListConcat DEF JudgeName

\* The assertions in prose are some of the oracles.
LEMMA SemanticIn ==
  ASSUME NEW c, WellFormed(c)
  PROVE  /\ Len(c.oracles) \in Nat /\ DOMAIN c.oracles = 1..Len(c.oracles)
         /\ Semantic(c) \in SUBSET (1..Len(c.oracles))
<1>1. Len(c.oracles) \in Nat /\ DOMAIN c.oracles = 1..Len(c.oracles)
  BY ListParts DEF WellFormed
<1> QED BY <1>1 DEF Semantic

\* A step's given differs from the loop's by its source at most.
LEMMA StepGivenType ==
  ASSUME NEW c, WellFormed(c), NEW i \in Nat, NEW j \in DOMAIN c.givens
  PROVE  /\ IsGiven(StepGiven(c, i, c.givens[j]))
         /\ StepGiven(c, i, c.givens[j]).field = c.givens[j].field
         /\ StepGiven(c, i, c.givens[j]).optional = c.givens[j].optional
<1> DEFINE g == c.givens[j]
           src == IF i = 1 THEN c.givens[ChainGiven(c)].source ELSE StepName(c.name, i - 1)
<1>1. \A k \in 1..Len(c.givens) : IsGiven(c.givens[k])
  BY ListParts DEF WellFormed
<1>2. j \in 1..Len(c.givens)
  BY ListParts DEF WellFormed
<1>3. IsGiven(g)
  BY <1>1, <1>2
<1>4. CASE ChainGiven(c) = 0 \/ g.field # c.givens[ChainGiven(c)].field
  BY <1>3, <1>4 DEF StepGiven
<1>5. CASE ~(ChainGiven(c) = 0 \/ g.field # c.givens[ChainGiven(c)].field)
  <2>1. IsGiven(c.givens[ChainGiven(c)])
    BY <1>1, <1>5, ChainIn
  <2>2. IsList(src)
    BY <2>1, NamesAreLists DEF IsGiven, WellFormed
  <2>3. StepGiven(c, i, g) = [g EXCEPT !.source = src]
    BY <1>5 DEF StepGiven
  <2> HIDE DEF src
  <2>4. [g EXCEPT !.source = src] = [source |-> src, field |-> g.field, optional |-> g.optional]
    BY <1>3 DEF IsGiven
  <2> QED BY <2>2, <2>3, <2>4 DEF IsGiven
<1> QED BY <1>4, <1>5

\* A step is what StepFields says.
LEMMA StepCell ==
  ASSUME NEW c, WellFormed(c), NEW i \in Nat
  PROVE  StepFields(c, i, Step(c, i))
<1> DEFINE gs == [j \in DOMAIN c.givens |-> StepGiven(c, i, c.givens[j])]
           heard == [j \in 1..Len(c.oracles) |->
                         Given(JudgeName(StepName(c.name, i - 1), j), "verdict", TRUE)]
           vs == IF i > 1 THEN Verdicts(c, i) ELSE <<>>
           told == IF i > 1 /\ Semantic(c) # {}
                   THEN Append(c.body, [tag |-> "feedback", indent |-> FALSE]) ELSE c.body
<1>1. Step(c, i) = [name |-> StepName(c.name, i), type |-> c.type, body |-> told,
                    givens |-> gs \o vs, yields |-> c.yields, oracles |-> c.oracles,
                    iterate |-> 0, guard |-> c.guard]
  <2>1. Step(c, i) = [c EXCEPT !.name = StepName(c.name, i), !.iterate = 0,
                               !.givens = gs \o vs, !.body = told]
    BY Zenon DEF Step
  <2> HIDE DEF gs, vs, told
  <2> QED BY <2>1, ChangedCell, Zenon
<1>2. IsList(gs) /\ Range(gs) = {StepGiven(c, i, c.givens[j]) : j \in DOMAIN c.givens}
  <2>1. gs = [j \in DOMAIN c.givens |-> gs[j]] /\ IsList(c.givens)
    BY DEF WellFormed
  <2>2. \A j \in DOMAIN c.givens : gs[j] = StepGiven(c, i, c.givens[j])
    OBVIOUS
  <2> HIDE DEF gs
  <2>3. IsList(gs) /\ Range(gs) = {gs[j] : j \in DOMAIN c.givens}
    BY <2>1, ListMap
  <2> QED BY <2>2, <2>3
<1>3. Verdicts(c, i) = FlattenSeq([j \in 1..Len(c.oracles) |->
                         IF j \in Semantic(c) THEN <<heard[j]>> ELSE <<>>])
  <2>1. DOMAIN c.oracles = 1..Len(c.oracles)
    BY SemanticIn
  <2>2. \A j \in 1..Len(c.oracles) :
          heard[j] = Given(JudgeName(StepName(c.name, i - 1), j), "verdict", TRUE)
    OBVIOUS
  <2> HIDE DEF heard
  <2> QED BY <2>1, <2>2 DEF Verdicts
<1>4. IsList(Verdicts(c, i)) /\ Range(Verdicts(c, i)) = {heard[j] : j \in Semantic(c)}
  <2> HIDE DEF heard
  <2>1. PICK n, T : n = Len(c.oracles) /\ T = Semantic(c)
    OBVIOUS
  <2>2. n \in Nat /\ T \in SUBSET (1..n)
    BY <2>1, SemanticIn
  <2>3. Verdicts(c, i) = FlattenSeq([j \in 1..n |-> IF j \in T THEN <<heard[j]>> ELSE <<>>])
    BY <1>3, <2>1
  <2>4. PICK h, one : /\ h = heard
                      /\ one = [j \in 1..n |-> IF j \in T THEN <<h[j]>> ELSE <<>>]
    OBVIOUS
  <2>5. Verdicts(c, i) = FlattenSeq(one)
    BY <2>3, <2>4
  <2>6. \A j \in 1..n : IsList(one[j]) /\ Range(one[j]) = IF j \in T THEN {h[j]} ELSE {}
    <3>1. \A j \in 1..n : one[j] = IF j \in T THEN <<h[j]>> ELSE <<>>
      BY <2>4
    <3> QED BY <3>1, OneList, EmptyList
  <2>7. one = [j \in 1..n |-> one[j]]
    BY <2>4
  <2>8. IsList(FlattenSeq(one)) /\ Range(FlattenSeq(one)) = UNION {Range(one[j]) : j \in 1..n}
    BY <2>2, <2>6, <2>7, ListFlatten
  <2>9. UNION {Range(one[j]) : j \in 1..n} = {h[j] : j \in T}
    BY <2>2, <2>6
  <2>10. {h[j] : j \in T} = {heard[j] : j \in Semantic(c)}
    BY <2>1, <2>4
  <2> QED BY <2>5, <2>8, <2>9, <2>10
<1>5. \A j \in Semantic(c) :
        heard[j] = Given(JudgeName(StepName(c.name, i - 1), j), "verdict", TRUE)
  BY SemanticIn
<1> HIDE DEF gs, heard
<1>6. IsList(vs) /\ Range(vs) = IF i > 1 THEN {heard[j] : j \in Semantic(c)} ELSE {}
  BY <1>4, EmptyList
<1> HIDE DEF vs, told
<1>7. IsList(gs \o vs) /\ Range(gs \o vs) = Range(gs) \cup Range(vs)
  BY <1>2, <1>6, ListConcat
<1>8. \A j \in Semantic(c) : IsGiven(heard[j])
  <2> SUFFICES ASSUME NEW j \in Semantic(c) PROVE IsGiven(heard[j])
    OBVIOUS
  <2>1. IsList(JudgeName(StepName(c.name, i - 1), j))
    BY NamesAreLists DEF WellFormed
  <2>2. IsGiven(Given(JudgeName(StepName(c.name, i - 1), j), "verdict", TRUE))
    BY <2>1, GivenParts
  <2> QED BY <1>5, <2>2
<1>9. \A g \in Range(gs \o vs) : IsGiven(g)
  BY <1>2, <1>6, <1>7, <1>8, StepGivenType
<1>10. WellFormed(Step(c, i))
  <2>1. IsList(StepName(c.name, i)) /\ IsList(c.yields) /\ IsList(c.oracles)
    BY NamesAreLists DEF WellFormed
  <2> QED BY <1>1, <1>7, <1>9, <2>1 DEF WellFormed
<1>11. Step(c, i).givens = gs \o vs
  BY <1>1
<1>12. /\ Step(c, i).name = StepName(c.name, i) /\ Step(c, i).type = c.type
       /\ Step(c, i).guard = c.guard
       /\ Step(c, i).yields = c.yields /\ Step(c, i).oracles = c.oracles
  BY <1>1
<1>13. \A j \in DOMAIN c.givens : StepGiven(c, i, c.givens[j]) \in Range(gs \o vs)
  BY <1>2, <1>7
<1>14. \A g \in Range(gs \o vs) :
         \/ \E j \in DOMAIN c.givens : g = StepGiven(c, i, c.givens[j])
         \/ i > 1 /\ \E j \in Semantic(c) :
              g = Given(JudgeName(StepName(c.name, i - 1), j), "verdict", TRUE)
  <2> SUFFICES ASSUME NEW g \in Range(gs \o vs), g \notin Range(gs)
               PROVE  i > 1 /\ \E j \in Semantic(c) :
                        g = Given(JudgeName(StepName(c.name, i - 1), j), "verdict", TRUE)
    BY <1>2
  <2>1. i > 1 /\ g \in {heard[j] : j \in Semantic(c)}
    BY <1>6, <1>7
  <2> QED BY <1>5, <2>1
<1>15. i > 1 => \A j \in Semantic(c) :
         Given(JudgeName(StepName(c.name, i - 1), j), "verdict", TRUE) \in Range(gs \o vs)
  BY <1>5, <1>6, <1>7
<1> QED BY <1>10, <1>11, <1>12, <1>13, <1>14, <1>15 DEF StepFields

\* The judge of c's j-th oracle is a cell that reads c's yields.
JudgeFields(c, j, d) ==
  /\ WellFormed(d)
  /\ d.name = JudgeName(c.name, j) /\ d.type = "stem" /\ d.iterate = 0
  /\ \E k \in DOMAIN d.yields : d.yields[k].field = "verdict"
  /\ Range(d.givens) = {Given(c.name, c.yields[k].field, FALSE) : k \in DOMAIN c.yields}

\* A judge is what JudgeFields says.
LEMMA JudgeCell ==
  ASSUME NEW c, WellFormed(c), NEW j
  PROVE  JudgeFields(c, j, JudgeOfOracle(c, j))
<1> DEFINE gs == [k \in DOMAIN c.yields |-> Given(c.name, c.yields[k].field, FALSE)]
           ruling == [field |-> "verdict", value |-> ""]
           notempty == [type |-> "deterministic", cond |-> "not_empty", cell |-> <<>>]
           told == [tag |-> "judge", indent |-> FALSE]
<1>1. JudgeOfOracle(c, j) =
        [name |-> JudgeName(c.name, j), type |-> "stem", body |-> <<told>>, givens |-> gs,
         yields |-> <<ruling>>, oracles |-> <<notempty>>, iterate |-> 0, guard |-> ""]
  <2>1. PICK new : new = NewCell(JudgeName(c.name, j), "stem", 0)
    OBVIOUS
  <2>2. JudgeOfOracle(c, j) = [new EXCEPT !.body = <<told>>, !.givens = gs,
                                 !.yields = <<ruling>>, !.oracles = <<notempty>>]
    BY <2>1 DEF JudgeOfOracle
  <2> HIDE DEF gs, ruling, notempty, told
  <2> QED BY <2>1, <2>2 DEF NewCell
<1>2. IsList(gs) /\ Range(gs) = {Given(c.name, c.yields[k].field, FALSE) : k \in DOMAIN c.yields}
  <2>1. gs = [k \in DOMAIN c.yields |-> gs[k]] /\ IsList(c.yields)
    BY DEF WellFormed
  <2>2. \A k \in DOMAIN c.yields : gs[k] = Given(c.name, c.yields[k].field, FALSE)
    OBVIOUS
  <2> HIDE DEF gs
  <2>3. IsList(gs) /\ Range(gs) = {gs[k] : k \in DOMAIN c.yields}
    BY <2>1, ListMap
  <2> QED BY <2>2, <2>3
<1>3. ruling.field = "verdict"
  OBVIOUS
<1> HIDE DEF gs, ruling, notempty, told
<1>4. IsList(c.name) /\ IsList(JudgeName(c.name, j))
  BY NamesAreLists DEF WellFormed
<1>5. \A g \in Range(gs) : IsGiven(g)
  <2> SUFFICES ASSUME NEW k \in DOMAIN c.yields PROVE IsGiven(Given(c.name, c.yields[k].field, FALSE))
    BY <1>2
  <2> QED BY <1>4, GivenParts
<1>6. PICK d, n, b, v, o :
        /\ d = JudgeOfOracle(c, j) /\ n = JudgeName(c.name, j)
        /\ b = <<told>> /\ v = <<ruling>> /\ o = <<notempty>>
  OBVIOUS
<1>7. IsList(v) /\ IsList(o) /\ \E k \in DOMAIN v : v[k].field = "verdict"
  <2>1. 1 \in DOMAIN <<ruling>> /\ <<ruling>>[1] = ruling
    OBVIOUS
  <2> QED BY <1>3, <1>6, <2>1, OneList
<1>8. d = [name |-> n, type |-> "stem", body |-> b, givens |-> gs, yields |-> v,
           oracles |-> o, iterate |-> 0, guard |-> ""]
  BY <1>1, <1>6
<1>9. /\ d.name = n /\ d.type = "stem" /\ d.body = b /\ d.givens = gs /\ d.yields = v
      /\ d.oracles = o /\ d.iterate = 0 /\ d.guard = ""
  BY <1>8
<1>10. WellFormed(d)
  <2>1. d = [name |-> d.name, type |-> d.type, body |-> d.body, givens |-> d.givens,
             yields |-> d.yields, oracles |-> d.oracles, iterate |-> d.iterate, guard |-> d.guard]
    BY <1>8, <1>9, Zenon
  <2>2. IsList(d.name) /\ d.iterate \in Nat
    <3>1. d.name = n /\ d.iterate = 0
      BY <1>9
    <3>2. IsList(n)
      BY <1>4, <1>6
    <3> QED BY <3>1, <3>2
  <2>3. IsList(d.givens) /\ IsList(d.yields) /\ IsList(d.oracles)
    BY <1>2, <1>7, <1>9
  <2>4. \A g \in Range(d.givens) : IsGiven(g)
    BY <1>5, <1>9
  <2> QED BY <2>1, <2>2, <2>3, <2>4 DEF WellFormed
<1> QED BY <1>2, <1>6, <1>7, <1>9, <1>10 DEF JudgeFields

\* With its judges a cell becomes a list of cells.
LEMMA JudgesParts ==
  ASSUME NEW c, WellFormed(c)
  PROVE  /\ IsList(WithJudges(c))
         /\ Range(WithJudges(c)) = {c} \cup {JudgeOfOracle(c, j) : j \in Semantic(c)}
<1>1. PICK n, T : n = Len(c.oracles) /\ T = Semantic(c)
  OBVIOUS
<1>2. n \in Nat /\ T \in SUBSET (1..n) /\ DOMAIN c.oracles = 1..n
  BY <1>1, SemanticIn
<1>3. PICK h, one : /\ h = [j \in 1..n |-> JudgeOfOracle(c, j)]
                    /\ one = [j \in 1..n |-> IF j \in T THEN <<h[j]>> ELSE <<>>]
  OBVIOUS
<1>4. WithJudges(c) = <<c>> \o FlattenSeq(one)
  <2>1. \A j \in 1..n : h[j] = JudgeOfOracle(c, j)
    BY <1>3
  <2>2. one = [j \in 1..n |-> IF j \in T THEN <<JudgeOfOracle(c, j)>> ELSE <<>>]
    BY <1>3, <2>1
  <2> QED BY <1>1, <1>2, <2>2 DEF WithJudges
<1>5. \A j \in 1..n : IsList(one[j]) /\ Range(one[j]) = IF j \in T THEN {h[j]} ELSE {}
  <2>1. \A j \in 1..n : one[j] = IF j \in T THEN <<h[j]>> ELSE <<>>
    BY <1>3
  <2> QED BY <2>1, OneList, EmptyList
<1>6. one = [j \in 1..n |-> one[j]]
  BY <1>3
<1>7. IsList(FlattenSeq(one)) /\ Range(FlattenSeq(one)) = UNION {Range(one[j]) : j \in 1..n}
  BY <1>2, <1>5, <1>6, ListFlatten
<1>8. UNION {Range(one[j]) : j \in 1..n} = {h[j] : j \in T}
  BY <1>2, <1>5
<1>9. {h[j] : j \in T} = {JudgeOfOracle(c, j) : j \in Semantic(c)}
  BY <1>1, <1>2, <1>3
<1>10. PICK s, f : s = <<c>> /\ f = FlattenSeq(one)
  OBVIOUS
<1>11. IsList(s) /\ Range(s) = {c}
  BY <1>10, OneList
<1>12. IsList(s \o f) /\ Range(s \o f) = Range(s) \cup Range(f)
  BY <1>7, <1>10, <1>11, ListConcat
<1> QED BY <1>4, <1>7, <1>8, <1>9, <1>10, <1>11, <1>12

-----------------------------------------------------------------------------
(* The cells that are compiled.                                            *)

\* The cells that stand for d itself: its steps, if it is a loop.
Roots(d) == IF d.iterate > 0 THEN {Step(d, i) : i \in 1..d.iterate} ELSE {d}

JudgesOf(e) == {JudgeOfOracle(e, j) : j \in Semantic(e)}

\* A cell expands to its roots, each with its judges.
LEMMA ExpandParts ==
  ASSUME NEW d, WellFormed(d)
  PROVE  /\ IsList(Expand(d))
         /\ Range(Expand(d)) = UNION {{e} \cup JudgesOf(e) : e \in Roots(d)}
         /\ \A e \in Roots(d) : WellFormed(e)
<1>1. CASE d.iterate > 0
  <2>1. PICK n, s : n = d.iterate /\ s = [i \in 1..n |-> WithJudges(Step(d, i))]
    OBVIOUS
  <2>2. n \in Nat /\ s = [i \in 1..n |-> s[i]]
    BY <2>1 DEF WellFormed
  <2>3. ASSUME NEW i \in 1..n PROVE WellFormed(Step(d, i))
    <3>1. i \in Nat
      BY <2>2
    <3>2. StepFields(d, i, Step(d, i))
      BY <3>1, StepCell
    <3> QED BY <3>2 DEF StepFields
  <2>4. \A i \in 1..n : IsList(s[i]) /\ Range(s[i]) = {Step(d, i)} \cup JudgesOf(Step(d, i))
    <3>1. \A i \in 1..n : s[i] = WithJudges(Step(d, i))
      BY <2>1
    <3> QED BY <2>3, <3>1, JudgesParts DEF JudgesOf
  <2>5. IsList(FlattenSeq(s)) /\ Range(FlattenSeq(s)) = UNION {Range(s[i]) : i \in 1..n}
    BY <2>2, <2>4, ListFlatten
  <2>6. Expand(d) = FlattenSeq(s)
    BY <1>1, <2>1 DEF Expand
  <2>7. Roots(d) = {Step(d, i) : i \in 1..n}
    BY <1>1, <2>1 DEF Roots
  <2>8. UNION {Range(s[i]) : i \in 1..n} = UNION {{e} \cup JudgesOf(e) : e \in Roots(d)}
    BY <2>4, <2>7
  <2> QED BY <2>3, <2>5, <2>6, <2>7, <2>8
<1>2. CASE ~(d.iterate > 0)
  BY <1>2, JudgesParts DEF Expand, Roots, JudgesOf
<1> QED BY <1>1, <1>2

\* How often a loop of the source is repeated.
LEMMA TimesIn ==
  ASSUME NEW cells, IsProgram(cells), NEW name, IsTemplate(cells, name)
  PROVE  \E i \in 1..Len(cells) : /\ cells[i].iterate > 0 /\ cells[i].name = name
                                  /\ Times(cells, name) = cells[i].iterate
<1>1. PICK n, T : /\ n = Len(cells)
                  /\ T = {i \in DOMAIN cells : cells[i].iterate > 0 /\ cells[i].name = name}
  OBVIOUS
<1>2. n \in Nat /\ DOMAIN cells = 1..n
  BY <1>1, ProgramCells, ListParts
<1>3. T \in SUBSET (1..n)
  BY <1>1, <1>2
<1>4. T # {}
  BY <1>1 DEF IsTemplate, Templates, Range
<1>5. Max(T) \in T
  BY <1>2, <1>3, <1>4, MaxIn
<1>6. Times(cells, name) = cells[Max(T)].iterate
  BY <1>1 DEF Times
<1> QED BY <1>1, <1>2, <1>5, <1>6

\* A given with another source.
LEMMA ChangedGiven ==
  ASSUME NEW g, IsGiven(g), NEW source, IsList(source)
  PROVE  /\ IsGiven([g EXCEPT !.source = source])
         /\ [g EXCEPT !.source = source].source = source
         /\ [g EXCEPT !.source = source].field = g.field
         /\ [g EXCEPT !.source = source].optional = g.optional
<1>1. [g EXCEPT !.source = source] = [source |-> source, field |-> g.field, optional |-> g.optional]
  BY DEF IsGiven
<1> QED BY <1>1 DEF IsGiven

\* What becomes of one given: another source, or as many as there are steps.
LEMMA ResolvedGiven ==
  ASSUME NEW cells, IsProgram(cells), NEW g, IsGiven(g), g.source # <<>>
  PROVE  /\ IsList(ResolveGiven(cells, g))
         /\ \A h \in Range(ResolveGiven(cells, g)) : IsGiven(h)
<1>1. CASE Last(g.source) = "*" /\ IsTemplate(cells, Front(g.source))
  <2>1. PICK base, n, s : /\ base = Front(g.source) /\ n = Times(cells, base)
                          /\ s = [k \in 1..n |-> [g EXCEPT !.source = StepName(base, k)]]
    OBVIOUS
  <2>2. n \in Nat
    <3>1. PICK i \in 1..Len(cells) : n = cells[i].iterate
      BY <1>1, <2>1, TimesIn
    <3>2. cells[i] \in Range(cells)
      BY ProgramCells, ListParts
    <3> QED BY <3>1, <3>2, ProgramCells DEF WellFormed
  <2>3. IsList(base)
    BY <2>1, FrontList DEF IsGiven
  <2>4. ASSUME NEW k \in 1..n PROVE IsGiven(s[k])
    <3>1. s[k] = [g EXCEPT !.source = StepName(base, k)] /\ IsList(StepName(base, k))
      BY <2>1, <2>3, NamesAreLists
    <3> QED BY <3>1, ChangedGiven
  <2>5. s = [k \in 1..n |-> s[k]]
    BY <2>1
  <2>6. IsList(s) /\ Range(s) = {s[k] : k \in 1..n}
    BY <2>2, <2>5, ListIndexed
  <2>7. ResolveGiven(cells, g) = s
    BY <1>1, <2>1 DEF ResolveGiven
  <2> QED BY <2>4, <2>6, <2>7
<1>2. CASE ~(Last(g.source) = "*" /\ IsTemplate(cells, Front(g.source)))
  <2>1. PICK h : /\ ResolveGiven(cells, g) = <<h>>
                 /\ h = g \/ h = [g EXCEPT !.source = StepName(g.source, Times(cells, g.source))]
    BY <1>2 DEF ResolveGiven
  <2>2. IsGiven(h)
    BY <2>1, NamesAreLists, ChangedGiven DEF IsGiven
  <2>3. IsList(<<h>>) /\ Range(<<h>>) = {h}
    BY OneList
  <2> QED BY <2>1, <2>2, <2>3
<1> QED BY <1>1, <1>2

\* A cell with other givens.
LEMMA GivensChanged ==
  ASSUME NEW c, WellFormed(c), NEW givens
  PROVE  [c EXCEPT !.givens = givens] =
           [name |-> c.name, type |-> c.type, body |-> c.body, givens |-> givens,
            yields |-> c.yields, oracles |-> c.oracles, iterate |-> c.iterate, guard |-> c.guard]
<1>1. PICK n, t, b, g, v, o, k, u :
        /\ n = c.name /\ t = c.type /\ b = c.body /\ g = c.givens
        /\ v = c.yields /\ o = c.oracles /\ k = c.iterate /\ u = c.guard
  OBVIOUS
<1>2. c = [name |-> n, type |-> t, body |-> b, givens |-> g, yields |-> v, oracles |-> o,
           iterate |-> k, guard |-> u]
  BY <1>1 DEF WellFormed
<1> QED BY <1>1, <1>2

\* What resolution leaves as it is.
SameButGivens(c, d) ==
  /\ d.name = c.name /\ d.type = c.type /\ d.body = c.body /\ d.yields = c.yields
  /\ d.oracles = c.oracles /\ d.iterate = c.iterate /\ d.guard = c.guard

\* A resolved cell is its source cell but for the givens.
LEMMA ResolvedCell ==
  ASSUME NEW cells, IsProgram(cells), NEW i \in DOMAIN cells
  PROVE  /\ WellFormed(Resolve(cells)[i])
         /\ SameButGivens(cells[i], Resolve(cells)[i])
         /\ cells[i].iterate > 0 => Resolve(cells)[i] = cells[i]
         /\ cells[i].iterate = 0 =>
              Range(Resolve(cells)[i].givens) =
                UNION {Range(ResolveGiven(cells, cells[i].givens[j])) : j \in 1..Len(cells[i].givens)}
<1>1. PICK c, d : c = cells[i] /\ d = Resolve(cells)[i]
  OBVIOUS
<1>2. WellFormed(c) /\ c.iterate \in Nat
  <2>1. c \in Range(cells)
    BY <1>1 DEF Range
  <2> QED BY <2>1, ProgramCells DEF WellFormed
<1>3. CASE c.iterate > 0
  <2>1. d = c /\ ~(c.iterate = 0)
    BY <1>1, <1>3 DEF Resolve
  <2> QED BY <1>1, <1>2, <2>1 DEF SameButGivens
<1>4. CASE ~(c.iterate > 0)
  <2>1. PICK n, s : n = Len(c.givens) /\ s = [j \in 1..n |-> ResolveGiven(cells, c.givens[j])]
    OBVIOUS
  <2>2. n \in Nat /\ DOMAIN c.givens = 1..n /\ s = [j \in 1..n |-> s[j]]
    BY <1>2, <2>1, ListParts DEF WellFormed
  <2>3. ASSUME NEW j \in 1..n
        PROVE  /\ s[j] = ResolveGiven(cells, c.givens[j])
               /\ IsList(s[j]) /\ \A h \in Range(s[j]) : IsGiven(h)
    <3>1. c.givens[j] \in Range(c.givens)
      BY <2>2 DEF Range
    <3>2. IsGiven(c.givens[j])
      BY <1>2, <3>1 DEF WellFormed
    <3>3. c.givens[j].source # <<>>
      <4>1. c \in Range(cells)
        BY <1>1 DEF Range
      <4> QED BY <3>1, <4>1 DEF IsProgram
    <3> QED BY <2>1, <3>2, <3>3, ResolvedGiven
  <2>4. IsList(FlattenSeq(s)) /\ Range(FlattenSeq(s)) = UNION {Range(s[j]) : j \in 1..n}
    BY <2>2, <2>3, ListFlatten
  <2>5. d = [c EXCEPT !.givens = FlattenSeq(s)]
    BY <1>1, <1>4, <2>1, <2>2 DEF Resolve
  <2>6. d = [name |-> c.name, type |-> c.type, body |-> c.body, givens |-> FlattenSeq(s),
             yields |-> c.yields, oracles |-> c.oracles, iterate |-> c.iterate,
             guard |-> c.guard]
    BY <1>2, <2>5, GivensChanged
  <2>7. SameButGivens(c, d) /\ d.givens = FlattenSeq(s)
    BY <2>6 DEF SameButGivens
  <2>8. \A h \in Range(d.givens) : IsGiven(h)
    BY <2>3, <2>4, <2>7
  <2>9. d = [name |-> d.name, type |-> d.type, body |-> d.body, givens |-> d.givens,
             yields |-> d.yields, oracles |-> d.oracles, iterate |-> d.iterate,
             guard |-> d.guard]
    BY <2>6, <2>7, Zenon DEF SameButGivens
  <2>10. WellFormed(d)
    BY <1>2, <2>4, <2>7, <2>8, <2>9 DEF WellFormed, SameButGivens
  <2>11. UNION {Range(s[j]) : j \in 1..n} =
           UNION {Range(ResolveGiven(cells, c.givens[j])) : j \in 1..Len(c.givens)}
    BY <2>1, <2>3
  <2> QED BY <1>1, <1>4, <2>4, <2>7, <2>10, <2>11
<1> QED BY <1>3, <1>4

\* The cells of the source as they are resolved.
Resolved(cells) == {Resolve(cells)[i] : i \in DOMAIN cells}

\* The compiled cells are the roots of the resolved ones, and their judges,
LEMMA CompiledParts ==
  ASSUME NEW cells, IsProgram(cells)
  PROVE  /\ IsList(CompiledCells(cells))
         /\ Range(CompiledCells(cells)) =
              UNION {UNION {{e} \cup JudgesOf(e) : e \in Roots(d)} : d \in Resolved(cells)}
<1>1. PICK n, s : n = Len(cells) /\ s = [i \in 1..n |-> Expand(Resolve(cells)[i])]
  OBVIOUS
<1>2. n \in Nat /\ DOMAIN cells = 1..n /\ s = [i \in 1..n |-> s[i]]
  BY <1>1, ProgramCells, ListParts
<1>3. ASSUME NEW i \in 1..n
      PROVE  /\ s[i] = Expand(Resolve(cells)[i])
             /\ IsList(s[i])
             /\ Range(s[i]) = UNION {{e} \cup JudgesOf(e) : e \in Roots(Resolve(cells)[i])}
  <2>1. s[i] = Expand(Resolve(cells)[i])
    BY <1>1
  <2>2. WellFormed(Resolve(cells)[i])
    BY <1>2, ResolvedCell
  <2> QED BY <2>1, <2>2, ExpandParts
<1>4. IsList(FlattenSeq(s)) /\ Range(FlattenSeq(s)) = UNION {Range(s[i]) : i \in 1..n}
  BY <1>2, <1>3, ListFlatten
<1>5. CompiledCells(cells) = FlattenSeq(s)
  <2>1. DOMAIN Resolve(cells) = 1..n
    BY <1>2 DEF Resolve
  <2> QED BY <1>1, <2>1 DEF CompiledCells
<1>6. Resolved(cells) = {Resolve(cells)[i] : i \in 1..n}
  BY <1>2 DEF Resolved
<1>7. UNION {Range(s[i]) : i \in 1..n} =
        UNION {UNION {{e} \cup JudgesOf(e) : e \in Roots(d)} : d \in Resolved(cells)}
  BY <1>3, <1>6
<1> QED BY <1>4, <1>5, <1>7

\* and all of them are well formed.
LEMMA CompiledFormed ==
  ASSUME NEW cells, IsProgram(cells)
  PROVE  \A c \in Range(CompiledCells(cells)) : WellFormed(c)
<1>1. \A d \in Resolved(cells) : \A e \in Roots(d) : WellFormed(e)
  BY ResolvedCell, ExpandParts DEF Resolved
<1>2. \A e : WellFormed(e) => \A j \in Semantic(e) : WellFormed(JudgeOfOracle(e, j))
  BY JudgeCell DEF JudgeFields
<1> QED BY <1>1, <1>2, CompiledParts DEF JudgesOf

-----------------------------------------------------------------------------
(* The rows of the compiled cells.                                         *)

\* The rows of c that the properties look at.
CellOut(program, c) ==
  [table |-> "cells", id |-> program \o c.name, program |-> program, name |-> c.name,
   body |-> BodyKind(c), state |-> IF PouredFrozen(c) THEN "frozen" ELSE "declared"]

GivenOut(program, c, g) ==
  [table |-> "givens", id |-> <<"g">> \o (program \o c.name) \o g.source \o <<g.field>>,
   cell |-> program \o c.name, source |-> g.source, field |-> g.field,
   optional |-> g.optional]

YieldOut(program, c, k) ==
  [table |-> "yields", id |-> <<"y">> \o (program \o c.name) \o <<c.yields[k].field>>,
   cell |-> program \o c.name, frame |-> <<"f">> \o (program \o c.name) \o <<"0">>,
   field |-> c.yields[k].field,
   value |-> IF PouredFrozen(c) THEN c.yields[k].value ELSE "",
   frozen |-> PouredFrozen(c)]

\* R are the rows of c, as far as the properties look at them.
RowsFor(R, program, c) ==
  /\ CellOut(program, c) \in R
  /\ \A k \in 1..Len(c.givens) : GivenOut(program, c, c.givens[k]) \in R
  /\ \A k \in 1..Len(c.yields) : YieldOut(program, c, k) \in R
  /\ \A r \in R :
       \/ r = CellOut(program, c)
       \/ \E k \in 1..Len(c.givens) : r = GivenOut(program, c, c.givens[k])
       \/ \E k \in 1..Len(c.yields) : r = YieldOut(program, c, k)
       \/ r.table \in {"frames", "oracles"}

\* The rows of a cell.
LEMMA RowParts ==
  ASSUME NEW c, WellFormed(c), NEW program
  PROVE  IsList(CellRows(program, c)) /\ RowsFor(Range(CellRows(program, c)), program, c)
<1> DEFINE id == program \o c.name
           frame == [table |-> "frames", id |-> <<"f">> \o id \o <<"0">>, program |-> program,
                     name |-> c.name, gen |-> 0]
           A == <<CellOut(program, c), frame>>
           B == [k \in DOMAIN c.givens |-> GivenOut(program, c, c.givens[k])]
           C == [k \in DOMAIN c.yields |-> YieldOut(program, c, k)]
           D == [k \in DOMAIN c.oracles |->
                  [table |-> "oracles", id |-> <<"o">> \o id \o <<Word(k)>>, cell |-> id,
                   cond |-> c.oracles[k].cond, of |-> c.oracles[k].cell]]
           guard == [table |-> "oracles", id |-> <<"o">> \o id \o <<"guard">>, cell |-> id,
                     cond |-> "guard", of |-> <<c.guard>>]
           E == IF c.guard = "" THEN <<>> ELSE <<guard>>
<1>1. CellRows(program, c) = A \o B \o C \o D \o E
  BY DEF CellRows, CellOut, GivenOut, YieldOut
<1>2. /\ DOMAIN c.givens = 1..Len(c.givens) /\ Len(c.givens) \in Nat
      /\ DOMAIN c.yields = 1..Len(c.yields) /\ Len(c.yields) \in Nat
      /\ DOMAIN c.oracles = 1..Len(c.oracles) /\ Len(c.oracles) \in Nat
  BY ListParts DEF WellFormed
<1>3. IsList(A) /\ Range(A) = {CellOut(program, c), frame}
  <2>1. PICK a, b : a = CellOut(program, c) /\ b = frame
    OBVIOUS
  <2>2. IsList(<<a, b>>) /\ Range(<<a, b>>) = {a, b}
    <3>1. <<a, b>> \in Seq({a, b}) /\ Range(<<a, b>>) = {a, b}
      BY DEF Range
    <3> QED BY <3>1 DEF IsList
  <2> QED BY <2>1, <2>2
<1>4. IsList(B) /\ Range(B) = {GivenOut(program, c, c.givens[k]) : k \in 1..Len(c.givens)}
  <2>1. B = [k \in 1..Len(c.givens) |-> B[k]]
    BY <1>2
  <2>2. \A k \in 1..Len(c.givens) : B[k] = GivenOut(program, c, c.givens[k])
    BY <1>2
  <2> HIDE DEF B
  <2>3. IsList(B) /\ Range(B) = {B[k] : k \in 1..Len(c.givens)}
    BY <1>2, <2>1, ListIndexed
  <2> QED BY <2>2, <2>3
<1>5. IsList(C) /\ Range(C) = {YieldOut(program, c, k) : k \in 1..Len(c.yields)}
  <2>1. C = [k \in 1..Len(c.yields) |-> C[k]]
    BY <1>2
  <2>2. \A k \in 1..Len(c.yields) : C[k] = YieldOut(program, c, k)
    BY <1>2
  <2> HIDE DEF C
  <2>3. IsList(C) /\ Range(C) = {C[k] : k \in 1..Len(c.yields)}
    BY <1>2, <2>1, ListIndexed
  <2> QED BY <2>2, <2>3
<1>6. IsList(D) /\ \A r \in Range(D) : r.table = "oracles"
  <2>1. D = [k \in 1..Len(c.oracles) |-> D[k]]
    BY <1>2
  <2>2. \A k \in 1..Len(c.oracles) : D[k].table = "oracles"
    BY <1>2
  <2> HIDE DEF D
  <2>3. IsList(D) /\ Range(D) = {D[k] : k \in 1..Len(c.oracles)}
    BY <1>2, <2>1, ListIndexed
  <2> QED BY <2>2, <2>3
<1>7. IsList(E) /\ \A r \in Range(E) : r.table = "oracles"
  <2>1. PICK g : g = guard
    OBVIOUS
  <2>2. g.table = "oracles"
    BY <2>1
  <2>3. IsList(<<g>>) /\ Range(<<g>>) = {g} /\ IsList(<<>>) /\ Range(<<>>) = {}
    BY OneList, EmptyList
  <2> QED BY <2>1, <2>2, <2>3
<1>8. frame.table = "frames"
  OBVIOUS
<1> HIDE DEF A, B, C, D, E, frame
<1>9. IsList(A \o B) /\ Range(A \o B) = Range(A) \cup Range(B)
  BY <1>3, <1>4, ListConcat
<1>10. IsList(A \o B \o C) /\ Range(A \o B \o C) = Range(A \o B) \cup Range(C)
  BY <1>5, <1>9, ListConcat
<1>11. IsList(A \o B \o C \o D) /\ Range(A \o B \o C \o D) = Range(A \o B \o C) \cup Range(D)
  BY <1>6, <1>10, ListConcat
<1>12. /\ IsList(A \o B \o C \o D \o E)
       /\ Range(A \o B \o C \o D \o E) = Range(A \o B \o C \o D) \cup Range(E)
  BY <1>7, <1>11, ListConcat
<1>13. PICK R : R = Range(A \o B \o C \o D \o E)
  OBVIOUS
<1>14. R = Range(A) \cup Range(B) \cup Range(C) \cup Range(D) \cup Range(E)
  BY <1>9, <1>10, <1>11, <1>12, <1>13
<1>15. RowsFor(R, program, c)
  BY <1>3, <1>4, <1>5, <1>6, <1>7, <1>8, <1>14 DEF RowsFor
<1> QED BY <1>1, <1>12, <1>13, <1>15

\* The rows of a program are the rows of its compiled cells.
LEMMA CompileParts ==
  ASSUME NEW cells, IsProgram(cells), NEW program
  PROVE  \A r : r \in Range(Compile(program, cells)) <=>
                \E c \in Range(CompiledCells(cells)) : r \in Range(CellRows(program, c))
<1>1. PICK all, n, s : /\ all = CompiledCells(cells) /\ n = Len(all)
                       /\ s = [i \in 1..n |-> CellRows(program, all[i])]
  OBVIOUS
<1>2. IsList(all)
  BY <1>1, CompiledParts
<1>3. n \in Nat /\ DOMAIN all = 1..n /\ Range(all) = {all[i] : i \in 1..n} /\ s = [i \in 1..n |-> s[i]]
  BY <1>1, <1>2, ListParts
<1>4. \A c \in Range(all) : WellFormed(c)
  BY <1>1, CompiledFormed
<1>5. ASSUME NEW i \in 1..n PROVE s[i] = CellRows(program, all[i]) /\ IsList(s[i])
  BY <1>1, <1>3, <1>4, RowParts
<1>6. Range(FlattenSeq(s)) = UNION {Range(s[i]) : i \in 1..n}
  BY <1>3, <1>5, ListFlatten
<1>7. Compile(program, cells) = FlattenSeq(s)
  BY <1>1, <1>3 DEF Compile
<1> QED BY <1>1, <1>3, <1>5, <1>6, <1>7

-----------------------------------------------------------------------------
(* Whose name a compiled cell bears.                                       *)

\* A root bears the name of its source cell and one number more, or none.
NumberOf(d) == IF d.iterate > 0 THEN 1 ELSE 0

\* A root's fields and its name.
LEMMA RootParts ==
  ASSUME NEW d, WellFormed(d), NEW e \in Roots(d)
  PROVE  /\ WellFormed(e)
         /\ e.type = d.type /\ e.yields = d.yields /\ e.oracles = d.oracles
         /\ \E u : IsList(u) /\ Len(u) = NumberOf(d) /\ e.name = d.name \o u
<1>1. IsList(d.name) /\ WellFormed(e)
  BY ExpandParts DEF WellFormed
<1>2. CASE d.iterate > 0
  <2>1. PICK i \in 1..d.iterate : e = Step(d, i)
    BY <1>2 DEF Roots
  <2>2. i \in Nat
    BY DEF WellFormed
  <2>3. StepFields(d, i, e)
    BY <2>1, <2>2, StepCell
  <2>4. PICK u : u = <<Word(i)>>
    OBVIOUS
  <2>5. IsList(u) /\ Len(u) = 1
    BY <2>4, OneList
  <2>6. e.name = d.name \o u
    BY <1>1, <2>3, <2>4, AppendList DEF StepFields, StepName
  <2> QED BY <1>1, <1>2, <2>3, <2>5, <2>6 DEF StepFields, NumberOf
<1>3. CASE ~(d.iterate > 0)
  <2>1. e = d
    BY <1>3 DEF Roots
  <2>2. PICK u : u = <<>>
    OBVIOUS
  <2>3. IsList(u) /\ Len(u) = 0
    BY <2>2, EmptyList
  <2>4. d.name \o u = d.name
    BY <1>1, <2>2 DEF IsList
  <2> QED BY <1>1, <1>3, <2>1, <2>3, <2>4 DEF NumberOf
<1> QED BY <1>2, <1>3

\* A judge's name has two words more than that of the cell it judges.
JudgeEnd(j) == <<"judge", Word(j)>>

\* How a judge's name ends.
LEMMA JudgeEnding ==
  ASSUME NEW j
  PROVE  /\ IsList(JudgeEnd(j)) /\ Len(JudgeEnd(j)) = 2
         /\ \A name : JudgeName(name, j) = name \o JudgeEnd(j)
<1>1. JudgeEnd(j) \in Seq({"judge", Word(j)}) /\ Len(JudgeEnd(j)) = 2
  BY DEF JudgeEnd
<1> QED BY <1>1, SeqIsList DEF JudgeName, JudgeEnd

\* Names that begin with those of two source cells are equal only if that is one
\* cell: no name of the source is the beginning of another.
LEMMA SameOrigin ==
  ASSUME NEW cells, IsProgram(cells), Unambiguous(cells),
         NEW i \in DOMAIN cells, NEW k \in DOMAIN cells,
         NEW u, IsList(u), NEW v, IsList(v), cells[i].name \o u = cells[k].name \o v
  PROVE  i = k
<1>1. IsList(cells[i].name) /\ IsList(cells[k].name)
  <2>1. cells[i] \in Range(cells) /\ cells[k] \in Range(cells)
    BY DEF Range
  <2> QED BY <2>1, ProgramCells DEF WellFormed
<1>2. IsPrefix(cells[i].name, cells[k].name) \/ IsPrefix(cells[k].name, cells[i].name)
  BY <1>1, Comparable
<1> QED BY <1>2 DEF Unambiguous

\* The compiled cells of one name come from one cell of the source: those with
\* the name of a root are roots, those with the name of its judge judges.
LEMMA SameName ==
  ASSUME NEW cells, IsProgram(cells), Unambiguous(cells),
         NEW i \in DOMAIN cells, NEW e \in Roots(Resolve(cells)[i]),
         NEW c \in Range(CompiledCells(cells))
  PROVE  /\ c.name = e.name => c \in Roots(Resolve(cells)[i])
         /\ \A j : c.name = JudgeName(e.name, j) =>
              \E f \in Roots(Resolve(cells)[i]) :
                f.name = e.name /\ \E m \in Semantic(f) : c = JudgeOfOracle(f, m)
<1>1. PICK k \in DOMAIN cells : \E f \in Roots(Resolve(cells)[k]) : c \in {f} \cup JudgesOf(f)
  BY CompiledParts DEF Resolved
<1>2. PICK f \in Roots(Resolve(cells)[k]) : c \in {f} \cup JudgesOf(f)
  BY <1>1
<1>3. PICK d, b : d = Resolve(cells)[i] /\ b = Resolve(cells)[k]
  OBVIOUS
<1>4. WellFormed(d) /\ WellFormed(b) /\ d.name = cells[i].name /\ b.name = cells[k].name
  BY <1>3, ResolvedCell DEF SameButGivens
<1>5. WellFormed(e) /\ WellFormed(f)
  BY <1>3, <1>4, RootParts
<1>6. PICK u : IsList(u) /\ Len(u) = NumberOf(d) /\ e.name = d.name \o u
  BY <1>3, <1>4, RootParts
<1>7. PICK v : IsList(v) /\ Len(v) = NumberOf(b) /\ f.name = b.name \o v
  BY <1>3, <1>4, RootParts
<1>8. IsList(d.name) /\ IsList(b.name) /\ IsList(e.name) /\ IsList(f.name)
  BY <1>4, <1>5 DEF WellFormed
<1>9. ASSUME NEW m \in Semantic(f), c = JudgeOfOracle(f, m)
      PROVE  \E w : IsList(w) /\ Len(w) = 2 /\ c.name = f.name \o w
  <2>1. c.name = JudgeName(f.name, m)
    BY <1>5, <1>9, JudgeCell DEF JudgeFields
  <2> QED BY <2>1, JudgeEnding
<1>10. Len(e.name) = Len(d.name) + NumberOf(d) /\ Len(f.name) = Len(b.name) + NumberOf(b)
  <2>1. PICK s, t : s = d.name /\ t = b.name
    OBVIOUS
  <2>2. Len(s \o u) = Len(s) + Len(u)
    BY <1>6, <1>8, <2>1, ConcatAssoc
  <2>3. Len(t \o v) = Len(t) + Len(v)
    BY <1>7, <1>8, <2>1, ConcatAssoc
  <2> QED BY <1>6, <1>7, <2>1, <2>2, <2>3
<1>11. Len(d.name) \in Nat /\ NumberOf(d) \in Nat
  BY <1>8, ListParts DEF NumberOf
<1>12. ASSUME c.name = e.name PROVE c \in Roots(d)
  <2>1. CASE c = f
    <3>1. cells[i].name \o u = cells[k].name \o v
      BY <1>4, <1>6, <1>7, <1>12, <2>1
    <3>2. i = k
      BY <1>6, <1>7, <3>1, SameOrigin
    <3> QED BY <1>3, <2>1, <3>2
  <2>2. CASE c # f
    <3>1. PICK m \in Semantic(f) : c = JudgeOfOracle(f, m)
      BY <1>2, <2>2 DEF JudgesOf
    <3>2. PICK w : IsList(w) /\ Len(w) = 2 /\ c.name = f.name \o w
      BY <1>9, <3>1
    <3>3. c.name = b.name \o (v \o w) /\ Len(c.name) = Len(f.name) + 2
      <4>0. PICK s : s = b.name
        OBVIOUS
      <4>1. IsList(s) /\ IsList(v) /\ IsList(w)
        BY <1>7, <1>8, <3>2, <4>0
      <4>2. (s \o v) \o w = s \o (v \o w)
        BY <4>1, ConcatAssoc
      <4>3. Len(f.name \o w) = Len(f.name) + Len(w)
        BY <1>8, <3>2, ConcatAssoc
      <4> QED BY <1>7, <3>2, <4>0, <4>2, <4>3
    <3>4. PICK x : x = v \o w /\ IsList(x)
      BY <1>7, <3>2, ListConcat
    <3>5. cells[i].name \o u = cells[k].name \o x
      BY <1>4, <1>6, <1>12, <3>3, <3>4
    <3>6. i = k
      BY <1>6, <3>4, <3>5, SameOrigin
    <3>7. Len(c.name) = Len(e.name) + 2 /\ Len(e.name) \in Nat
      BY <1>3, <1>10, <1>11, <3>3, <3>6
    <3> QED BY <1>12, <3>7
  <2> QED BY <2>1, <2>2
<1>13. ASSUME NEW j, c.name = JudgeName(e.name, j)
       PROVE  \E g \in Roots(d) : g.name = e.name /\ \E m \in Semantic(g) : c = JudgeOfOracle(g, m)
  <2>1. PICK x : IsList(x) /\ Len(x) = 2 /\ c.name = e.name \o x
    BY <1>13, JudgeEnding
  <2>2. c.name = d.name \o (u \o x) /\ Len(c.name) = Len(e.name) + 2
    <3>0. PICK s : s = d.name
      OBVIOUS
    <3>1. IsList(s) /\ IsList(u) /\ IsList(x)
      BY <1>6, <1>8, <2>1, <3>0
    <3>3. (s \o u) \o x = s \o (u \o x)
      BY <3>1, ConcatAssoc
    <3>2. Len(e.name \o x) = Len(e.name) + Len(x)
      BY <1>8, <2>1, ConcatAssoc
    <3> QED BY <1>6, <2>1, <3>0, <3>2, <3>3
  <2>3. IsList(u \o x)
    BY <1>6, <2>1, ListConcat
  <2>4. CASE c = f
    <3>1. cells[i].name \o (u \o x) = cells[k].name \o v
      BY <1>4, <1>7, <2>2, <2>4
    <3>2. i = k
      BY <1>7, <2>3, <3>1, SameOrigin
    <3>3. d = b
      BY <1>3, <3>2
    <3>4. Len(f.name) = Len(e.name) /\ Len(e.name) \in Nat
      BY <1>10, <1>11, <3>3
    <3>5. PICK m \in Nat : m = m + 2
      BY <2>2, <2>4, <3>4
    <3> QED BY <3>5
  <2>5. CASE c # f
    <3>1. PICK m \in Semantic(f) : c = JudgeOfOracle(f, m)
      BY <1>2, <2>5 DEF JudgesOf
    <3>2. PICK w : IsList(w) /\ Len(w) = 2 /\ c.name = f.name \o w
      BY <1>9, <3>1
    <3>3. c.name = b.name \o (v \o w)
      <4>0. PICK s : s = b.name
        OBVIOUS
      <4>1. IsList(s) /\ IsList(v) /\ IsList(w)
        BY <1>7, <1>8, <3>2, <4>0
      <4>2. (s \o v) \o w = s \o (v \o w)
        BY <4>1, ConcatAssoc
      <4> QED BY <1>7, <3>2, <4>0, <4>2
    <3>4. IsList(v \o w)
      BY <1>7, <3>2, ListConcat
    <3>5. cells[i].name \o (u \o x) = cells[k].name \o (v \o w)
      BY <1>4, <2>2, <3>3
    <3>6. i = k
      BY <2>3, <3>4, <3>5, SameOrigin
    <3>7. f.name \o w = e.name \o x /\ Len(w) = Len(x)
      BY <2>1, <3>2
    <3>8. f.name = e.name
      <4>1. PICK s, r : s = f.name /\ r = e.name
        OBVIOUS
      <4>2. IsList(s) /\ IsList(r) /\ s \o w = r \o x
        BY <1>8, <3>7, <4>1
      <4>3. IsList(w) /\ IsList(x) /\ Len(w) = Len(x)
        BY <2>1, <3>2
      <4>4. s = r
        BY <4>2, <4>3, SameEnds
      <4> QED BY <4>1, <4>4
    <3> QED BY <1>3, <3>1, <3>6, <3>8
  <2> QED BY <2>4, <2>5
<1> QED BY <1>3, <1>12, <1>13

-----------------------------------------------------------------------------
(* The judges.                                                             *)

\* The program is a prefix of every id: equal ids are of equal names.
LEMMA SameId ==
  ASSUME NEW program, IsList(program), NEW c, WellFormed(c), NEW e, WellFormed(e),
         program \o c.name = program \o e.name
  PROVE  c.name = e.name
<1>1. PICK s, t : s = c.name /\ t = e.name
  OBVIOUS
<1>2. IsList(s) /\ IsList(t) /\ program \o s = program \o t
  BY <1>1 DEF WellFormed
<1>3. s = t
  BY <1>2, Comparable
<1> QED BY <1>1, <1>3

\* The givens of a cell, by number.
LEMMA GivensListed ==
  ASSUME NEW c, WellFormed(c)
  PROVE  /\ \A k \in 1..Len(c.givens) : c.givens[k] \in Range(c.givens)
         /\ \A g \in Range(c.givens) : \E k \in 1..Len(c.givens) : g = c.givens[k]
<1>1. PICK s : s = c.givens
  OBVIOUS
<1>2. IsList(s)
  BY <1>1 DEF WellFormed
<1>3. Range(s) = {s[k] : k \in 1..Len(s)}
  BY <1>2, ListParts
<1> QED BY <1>1, <1>3

\* What is found in the rows of a program under a name.
LEMMA Found ==
  ASSUME NEW cells, IsProgram(cells), NEW program, IsList(program),
         NEW T, T = Range(Compile(program, cells)), NEW name
  PROVE  /\ \A r \in TableOf(T, "cells") :
              \E c \in Range(CompiledCells(cells)) : r = CellOut(program, c)
         /\ \A c \in Range(CompiledCells(cells)) : CellOut(program, c) \in TableOf(T, "cells")
         /\ \A g \in GivensOf(T, name) :
              \E c \in Range(CompiledCells(cells)) :
                c.name = name /\ \E k \in 1..Len(c.givens) : g = GivenOut(program, c, c.givens[k])
         /\ \A c \in Range(CompiledCells(cells)) :
              c.name = name => \A k \in 1..Len(c.givens) :
                GivenOut(program, c, c.givens[k]) \in GivensOf(T, name)
         /\ \A g : (\E c \in Range(CompiledCells(cells)) :
              c.name = g.source /\ \E k \in 1..Len(c.yields) : c.yields[k].field = g.field)
              => YieldsRead(T, g) # {}
<1> DEFINE all == Range(CompiledCells(cells))
<1>1. \A c \in all : WellFormed(c)
  BY CompiledFormed
<1>2. \A r : r \in T <=> \E c \in all : r \in Range(CellRows(program, c))
  BY CompileParts
<1>3. \A c \in all : RowsFor(Range(CellRows(program, c)), program, c)
  BY <1>1, RowParts
<1> HIDE DEF all
<1>4. \A c : /\ CellOut(program, c).table = "cells" /\ CellOut(program, c).name = c.name
             /\ CellOut(program, c).id = program \o c.name
  BY DEF CellOut
<1>5. \A c, g : /\ GivenOut(program, c, g).table = "givens"
                /\ GivenOut(program, c, g).cell = program \o c.name
  BY DEF GivenOut
<1>6. \A c, k : /\ YieldOut(program, c, k).table = "yields"
                /\ YieldOut(program, c, k).cell = program \o c.name
                /\ YieldOut(program, c, k).field = c.yields[k].field
  BY DEF YieldOut
<1>7. ASSUME NEW r \in T
      PROVE  /\ r.table = "cells" => \E c \in all : r = CellOut(program, c)
             /\ r.table = "givens" => \E c \in all : \E k \in 1..Len(c.givens) :
                                        r = GivenOut(program, c, c.givens[k])
  <2>1. PICK c \in all : r \in Range(CellRows(program, c))
    BY <1>2
  <2>2. \/ r = CellOut(program, c)
        \/ \E k \in 1..Len(c.givens) : r = GivenOut(program, c, c.givens[k])
        \/ \E k \in 1..Len(c.yields) : r = YieldOut(program, c, k)
        \/ r.table \in {"frames", "oracles"}
    BY <1>3, <2>1 DEF RowsFor
  <2> QED BY <1>4, <1>5, <1>6, <2>2
<1>8. ASSUME NEW c \in all
      PROVE  /\ CellOut(program, c) \in T
             /\ \A k \in 1..Len(c.givens) : GivenOut(program, c, c.givens[k]) \in T
             /\ \A k \in 1..Len(c.yields) : YieldOut(program, c, k) \in T
  BY <1>2, <1>3 DEF RowsFor
<1>9. \A r \in TableOf(T, "cells") : \E c \in all : r = CellOut(program, c)
  BY <1>7 DEF TableOf
<1>10. \A c \in all : CellOut(program, c) \in TableOf(T, "cells")
  BY <1>4, <1>8 DEF TableOf
<1>11. ASSUME NEW g \in GivensOf(T, name)
       PROVE  \E c \in all :
                c.name = name /\ \E k \in 1..Len(c.givens) : g = GivenOut(program, c, c.givens[k])
  <2>1. PICK r \in TableOf(T, "cells") : r.name = name /\ r.id = g.cell
    BY DEF GivensOf
  <2>2. PICK c \in all : \E k \in 1..Len(c.givens) : g = GivenOut(program, c, c.givens[k])
    BY <1>7 DEF GivensOf, TableOf
  <2>3. PICK e \in all : r = CellOut(program, e)
    BY <1>9
  <2>4. program \o c.name = program \o e.name /\ e.name = name
    <3>1. PICK k : g = GivenOut(program, c, c.givens[k])
      BY <2>2
    <3>2. g.cell = program \o c.name
      BY <1>5, <3>1
    <3>3. r.id = program \o e.name /\ r.name = e.name
      BY <1>4, <2>3
    <3> QED BY <2>1, <3>2, <3>3
  <2>5. c.name = name
    BY <1>1, <2>4, SameId
  <2> QED BY <2>2, <2>5
<1>12. ASSUME NEW c \in all, c.name = name, NEW k \in 1..Len(c.givens)
       PROVE  GivenOut(program, c, c.givens[k]) \in GivensOf(T, name)
  <2>1. PICK g : g = GivenOut(program, c, c.givens[k])
    OBVIOUS
  <2>2. g \in T /\ g.table = "givens" /\ g.cell = program \o c.name
    BY <1>5, <1>8, <2>1
  <2>3. PICK r \in TableOf(T, "cells") : r.name = name /\ r.id = program \o c.name
    BY <1>4, <1>10, <1>12
  <2> QED BY <2>1, <2>2, <2>3 DEF GivensOf, TableOf
<1>13. ASSUME NEW g, NEW c \in all, c.name = g.source,
              NEW k \in 1..Len(c.yields), c.yields[k].field = g.field
       PROVE  YieldsRead(T, g) # {}
  <2>1. YieldOut(program, c, k) \in YieldsRead(T, g)
    BY <1>4, <1>6, <1>8, <1>10, <1>13 DEF YieldsRead, TableOf
  <2> QED BY <2>1
<1> QED BY <1>9, <1>10, <1>11, <1>12, <1>13 DEF all

\* The names of what stands for d, and its assertions in prose.
LEMMA StepsStand ==
  ASSUME NEW cells, IsProgram(cells), NEW i \in DOMAIN cells, NEW n \in StepsOf(cells[i])
  PROVE  \E e \in Roots(Resolve(cells)[i]) :
           /\ e.name = n /\ WellFormed(e)
           /\ \A j \in Semantic(e) : JudgeOfOracle(e, j) \in Range(CompiledCells(cells))
           /\ e \in Range(CompiledCells(cells))
<1>1. PICK d : d = Resolve(cells)[i]
  OBVIOUS
<1>2. WellFormed(d) /\ d.name = cells[i].name /\ d.iterate = cells[i].iterate /\ d \in Resolved(cells)
  BY <1>1, ResolvedCell DEF SameButGivens, Resolved
<1>3. \E e \in Roots(d) : e.name = n
  <2>1. CASE d.iterate > 0
    <3>1. d.iterate \in Nat /\ cells[i].iterate # 0
      BY <1>2, <2>1 DEF WellFormed
    <3>2. PICK k \in 1..d.iterate : n = StepName(d.name, k)
      BY <1>2, <3>1 DEF StepsOf
    <3>3. k \in Nat
      BY <3>1
    <3>4. Step(d, k).name = n /\ Step(d, k) \in Roots(d)
      BY <1>2, <2>1, <3>2, <3>3, StepCell DEF StepFields, Roots
    <3> QED BY <3>4
  <2>2. CASE ~(d.iterate > 0)
    <3>1. cells[i].iterate = 0
      BY <1>2, <2>2 DEF WellFormed
    <3> QED BY <1>2, <2>2, <3>1 DEF StepsOf, Roots
  <2> QED BY <2>1, <2>2
<1>4. \A e \in Roots(d) : {e} \cup JudgesOf(e) \subseteq Range(CompiledCells(cells))
  BY <1>2, CompiledParts
<1> QED BY <1>1, <1>2, <1>3, <1>4, RootParts DEF JudgesOf

\* Whatever the program, as long as no name is the beginning of another: every
\* prose assertion of every cell, or of each of its steps, is compiled to a judge
\* (writeJudgeCells) that waits for all that the cell yields.
THEOREM JudgesComplete ==
  ASSUME NEW cells, IsProgram(cells), Unambiguous(cells), NEW program, IsList(program)
  PROVE  \A d \in Range(cells) : Judged(d, Range(Compile(program, cells)))
<1>1. PICK T, all : T = Range(Compile(program, cells)) /\ all = Range(CompiledCells(cells))
  OBVIOUS
<1>2. SUFFICES ASSUME NEW i \in DOMAIN cells PROVE Judged(cells[i], T)
  BY <1>1 DEF Range
<1>3. PICK d : d = Resolve(cells)[i]
  OBVIOUS
<1>4. /\ WellFormed(d) /\ d.yields = cells[i].yields /\ d.oracles = cells[i].oracles
  BY <1>3, ResolvedCell DEF SameButGivens
<1>5. SUFFICES ASSUME NEW n \in StepsOf(cells[i]), NEW j \in Semantic(cells[i])
               PROVE  /\ \E r \in TableOf(T, "cells") : r.name = JudgeName(n, j) /\ r.body = "stem"
                      /\ {<<g.source, g.field, g.optional>> : g \in GivensOf(T, JudgeName(n, j))}
                           = {<<n, field, FALSE>> : field \in Fields(cells[i].yields)}
  BY DEF Judged
<1>6. PICK e \in Roots(d) : /\ e.name = n /\ WellFormed(e)
                            /\ \A m \in Semantic(e) : JudgeOfOracle(e, m) \in all
  BY <1>1, <1>3, StepsStand
<1>7. \A f \in Roots(d) : /\ WellFormed(f)
                          /\ f.yields = cells[i].yields /\ f.oracles = cells[i].oracles
  BY <1>4, RootParts
<1>8. j \in Semantic(e)
  BY <1>7 DEF Semantic
<1>9. PICK c : c = JudgeOfOracle(e, j)
  OBVIOUS
<1>10. c \in all /\ JudgeFields(e, j, c)
  BY <1>6, <1>8, <1>9, JudgeCell
<1>11. c.name = JudgeName(n, j) /\ c.type = "stem" /\ WellFormed(c)
  BY <1>6, <1>10 DEF JudgeFields
<1>12. \E r \in TableOf(T, "cells") : r.name = JudgeName(n, j) /\ r.body = "stem"
  <2>1. CellOut(program, c) \in TableOf(T, "cells")
    BY <1>1, <1>10, Found
  <2>2. CellOut(program, c).name = c.name /\ CellOut(program, c).body = "stem"
    BY <1>11 DEF CellOut, BodyKind
  <2> QED BY <1>11, <2>1, <2>2
<1>13. DOMAIN cells[i].yields = 1..Len(cells[i].yields)
  BY <1>4, ListParts DEF WellFormed
<1>14. ASSUME NEW g \in GivensOf(T, JudgeName(n, j))
       PROVE  g.source = n /\ g.optional = FALSE /\ g.field \in Fields(cells[i].yields)
  <2>1. PICK b \in all : /\ b.name = JudgeName(n, j)
                         /\ \E k \in 1..Len(b.givens) : g = GivenOut(program, b, b.givens[k])
    BY <1>1, Found
  <2>2. PICK f \in Roots(d) : f.name = e.name /\ \E m \in Semantic(f) : b = JudgeOfOracle(f, m)
    BY <1>1, <1>3, <1>6, <2>1, SameName
  <2>3. PICK m : JudgeFields(f, m, b)
    BY <1>7, <2>2, JudgeCell
  <2>4. PICK k \in 1..Len(b.givens) : g = GivenOut(program, b, b.givens[k])
    BY <2>1
  <2>5. b.givens[k] \in Range(b.givens)
    BY <2>3, <2>4, GivensListed DEF JudgeFields
  <2>6. PICK l \in DOMAIN f.yields : b.givens[k] = Given(f.name, f.yields[l].field, FALSE)
    BY <2>3, <2>5 DEF JudgeFields
  <2>7. /\ g.source = b.givens[k].source /\ g.field = b.givens[k].field
        /\ g.optional = b.givens[k].optional
    BY <2>4 DEF GivenOut
  <2>8. g.source = f.name /\ g.field = f.yields[l].field /\ g.optional = FALSE
    BY <2>6, <2>7 DEF Given
  <2>9. f.yields = cells[i].yields
    BY <1>7
  <2> QED BY <1>6, <2>2, <2>6, <2>8, <2>9 DEF Fields
<1>15. ASSUME NEW field \in Fields(cells[i].yields)
       PROVE  \E g \in GivensOf(T, JudgeName(n, j)) :
                g.source = n /\ g.optional = FALSE /\ g.field = field
  <2>1. PICK l \in DOMAIN e.yields : field = e.yields[l].field
    BY <1>7 DEF Fields
  <2>2. Given(e.name, field, FALSE) \in Range(c.givens)
    BY <1>10, <2>1 DEF JudgeFields
  <2>3. PICK k \in 1..Len(c.givens) : c.givens[k] = Given(e.name, field, FALSE)
    BY <1>11, <2>2, GivensListed
  <2>4. GivenOut(program, c, c.givens[k]) \in GivensOf(T, JudgeName(n, j))
    BY <1>1, <1>10, <1>11, Found
  <2>5. PICK g : g = GivenOut(program, c, c.givens[k])
    OBVIOUS
  <2>6. g.source = n /\ g.optional = FALSE /\ g.field = field
    BY <1>6, <2>3, <2>5 DEF GivenOut, Given
  <2> QED BY <2>4, <2>5, <2>6
<1>16. {<<g.source, g.field, g.optional>> : g \in GivensOf(T, JudgeName(n, j))}
         = {<<n, field, FALSE>> : field \in Fields(cells[i].yields)}
  BY <1>14, <1>15
<1> QED BY <1>12, <1>16

-----------------------------------------------------------------------------
(* The loops.                                                              *)

\* What a compiled cell reads is found in the rows under its name.
LEMMA SourceFound ==
  ASSUME NEW cells, IsProgram(cells), NEW program, IsList(program),
         NEW T, T = Range(Compile(program, cells)),
         NEW c \in Range(CompiledCells(cells)), NEW g \in Range(c.givens)
  PROVE  \E r \in GivensOf(T, c.name) :
           r.source = g.source /\ r.field = g.field /\ r.optional = g.optional
<1>1. WellFormed(c)
  BY CompiledFormed
<1>2. PICK k \in 1..Len(c.givens) : g = c.givens[k]
  BY <1>1, GivensListed
<1>3. GivenOut(program, c, c.givens[k]) \in GivensOf(T, c.name)
  BY Found
<1>4. PICK r : r = GivenOut(program, c, c.givens[k])
  OBVIOUS
<1>5. r.source = g.source /\ r.field = g.field /\ r.optional = g.optional
  BY <1>2, <1>4 DEF GivenOut
<1> QED BY <1>3, <1>4, <1>5

\* The steps of a loop are compiled, each under a name that no other cell has.
LEMMA StepAlone ==
  ASSUME NEW cells, IsProgram(cells), Unambiguous(cells), NumbersDiffer(cells),
         NEW l \in Templates(cells), NEW k \in 1..l.iterate
  PROVE  /\ k \in Nat /\ WellFormed(l) /\ StepFields(l, k, Step(l, k))
         /\ Step(l, k) \in Range(CompiledCells(cells))
         /\ \A j \in Semantic(l) : JudgeOfOracle(Step(l, k), j) \in Range(CompiledCells(cells))
         /\ \A c \in Range(CompiledCells(cells)) :
              c.name = StepName(l.name, k) => c = Step(l, k)
<1>1. PICK i \in DOMAIN cells : l = cells[i]
  BY DEF Templates, Range
<1>2. WellFormed(l) /\ l.iterate > 0 /\ l.iterate \in Nat /\ l \in Range(cells)
  BY <1>1, ProgramCells DEF WellFormed, Templates, Range
<1>3. Resolve(cells)[i] = l /\ l \in Resolved(cells)
  BY <1>1, <1>2, ResolvedCell DEF Resolved
<1>4. k \in Nat
  BY <1>2
<1>5. StepFields(l, k, Step(l, k))
  BY <1>2, <1>4, StepCell
<1>6. Step(l, k) \in Roots(l)
  BY <1>2 DEF Roots
<1>7. {Step(l, k)} \cup JudgesOf(Step(l, k)) \subseteq Range(CompiledCells(cells))
  BY <1>3, <1>6, CompiledParts
<1>8. Semantic(Step(l, k)) = Semantic(l)
  BY <1>5 DEF StepFields, Semantic
<1>9. ASSUME NEW c \in Range(CompiledCells(cells)), c.name = StepName(l.name, k)
      PROVE  c = Step(l, k)
  <2>1. PICK e : e = Step(l, k)
    OBVIOUS
  <2>2. e \in Roots(Resolve(cells)[i]) /\ c.name = e.name
    BY <1>3, <1>5, <1>6, <1>9, <2>1 DEF StepFields
  <2>3. c \in Roots(l)
    BY <1>3, <2>2, SameName
  <2>4. PICK m \in 1..l.iterate : c = Step(l, m)
    BY <1>2, <2>3 DEF Roots
  <2>5. m \in Nat
    BY <1>2
  <2>6. StepFields(l, m, c)
    BY <1>2, <2>4, <2>5, StepCell
  <2>7. StepName(l.name, m) = StepName(l.name, k)
    BY <1>9, <2>6 DEF StepFields
  <2>8. IsList(l.name)
    BY <1>2 DEF WellFormed
  <2>9. Last(StepName(l.name, m)) = Word(m) /\ Last(StepName(l.name, k)) = Word(k)
    BY <2>8, AppendList DEF StepName
  <2>10. m = k
    BY <1>2, <2>7, <2>9 DEF NumbersDiffer
  <2> QED BY <2>4, <2>10
<1> QED BY <1>2, <1>4, <1>5, <1>7, <1>8, <1>9 DEF JudgesOf

\* Each step of a loop reads the one before, in place of what the loop chains.
LEMMA LoopChained ==
  ASSUME NEW cells, IsProgram(cells), Unambiguous(cells), NumbersDiffer(cells),
         NEW program, IsList(program), NEW T, T = Range(Compile(program, cells)),
         NEW l \in Templates(cells), NoVerdict(l), NEW f, Chaining(l) = {f}
  PROVE  Chained(l, T, f)
<1>1. SUFFICES ASSUME NEW k \in 2..l.iterate
               PROVE  Sources(T, StepName(l.name, k), f) = {StepName(l.name, k - 1)}
  BY DEF Chained
<1>2. l \in Range(cells) /\ l.iterate \in Nat /\ l.iterate > 0
  BY ProgramCells DEF Templates, WellFormed
<1>3. k \in 1..l.iterate /\ k > 1 /\ k # 1
  BY <1>2
<1>4. PICK s : s = Step(l, k)
  OBVIOUS
<1>5. /\ WellFormed(l) /\ StepFields(l, k, s) /\ s \in Range(CompiledCells(cells))
      /\ \A c \in Range(CompiledCells(cells)) : c.name = StepName(l.name, k) => c = s
  BY <1>3, <1>4, StepAlone
<1>6. DOMAIN l.givens = 1..Len(l.givens) /\ \A j \in 1..Len(l.givens) : IsGiven(l.givens[j])
  BY <1>5, ListParts, GivensListed DEF WellFormed
<1>7. ASSUME NEW j \in DOMAIN l.givens, l.givens[j].field = f
      PROVE  StepGiven(l, k, l.givens[j]).source = StepName(l.name, k - 1)
  <2>1. \E m \in DOMAIN l.yields : l.givens[j].field = l.yields[m].field
    BY <1>7 DEF Chaining, Fields
  <2>2. ChainGiven(l) # 0
    BY <1>5, <1>6, <2>1, ChainIn
  <2>3. l.givens[ChainGiven(l)].field = f
    BY <1>5, <2>2, ChainIn
  <2>4. StepGiven(l, k, l.givens[j]) = [l.givens[j] EXCEPT !.source = StepName(l.name, k - 1)]
    BY <1>3, <1>7, <2>2, <2>3 DEF StepGiven
  <2>5. IsGiven(l.givens[j]) /\ IsList(StepName(l.name, k - 1))
    BY <1>5, <1>6, NamesAreLists DEF WellFormed
  <2> QED BY <2>4, <2>5, ChangedGiven
<1>8. ASSUME NEW h \in GivensOf(T, StepName(l.name, k)), h.field = f
      PROVE  h.source = StepName(l.name, k - 1)
  <2>1. PICK c \in Range(CompiledCells(cells)) :
          c.name = StepName(l.name, k) /\ \E x \in 1..Len(c.givens) : h = GivenOut(program, c, c.givens[x])
    BY Found
  <2>2. c = s
    BY <1>5, <2>1
  <2>3. PICK x \in 1..Len(s.givens) : h = GivenOut(program, s, s.givens[x])
    BY <2>1, <2>2
  <2>4. PICK g : g = s.givens[x]
    OBVIOUS
  <2>5. h.source = g.source /\ h.field = g.field
    BY <2>3, <2>4 DEF GivenOut
  <2>6. g \in Range(s.givens)
    BY <1>5, <2>4, GivensListed DEF StepFields
  <2>7. \/ \E j \in DOMAIN l.givens : g = StepGiven(l, k, l.givens[j])
        \/ \E j \in Semantic(l) : g = Given(JudgeName(StepName(l.name, k - 1), j), "verdict", TRUE)
    BY <1>5, <2>6 DEF StepFields
  <2>8. CASE \E j \in DOMAIN l.givens : g = StepGiven(l, k, l.givens[j])
    <3>1. PICK j \in DOMAIN l.givens : g = StepGiven(l, k, l.givens[j])
      BY <2>8
    <3>2. l.givens[j].field = f
      BY <1>3, <1>5, <1>8, <2>5, <3>1, StepGivenType
    <3> QED BY <1>7, <2>5, <3>1, <3>2
  <2>9. CASE \E j \in Semantic(l) :
               g = Given(JudgeName(StepName(l.name, k - 1), j), "verdict", TRUE)
    <3>1. g.field = "verdict" /\ Semantic(l) # {}
      BY <2>9 DEF Given
    <3>2. "verdict" \in Fields(l.yields)
      BY <1>8, <2>5, <3>1 DEF Chaining
    <3> QED BY <1>2, <3>1, <3>2 DEF NoVerdict
  <2> QED BY <2>7, <2>8, <2>9
<1>9. \E h \in GivensOf(T, StepName(l.name, k)) :
        h.field = f /\ h.source = StepName(l.name, k - 1)
  <2>1. PICK j \in DOMAIN l.givens : l.givens[j].field = f
    BY DEF Chaining, Fields
  <2>2. PICK g : g = StepGiven(l, k, l.givens[j])
    OBVIOUS
  <2>3. g \in Range(s.givens) /\ s.name = StepName(l.name, k)
    BY <1>5, <2>2 DEF StepFields
  <2>4. g.field = f
    BY <1>3, <1>5, <2>1, <2>2, StepGivenType
  <2>5. g.source = StepName(l.name, k - 1)
    BY <1>7, <2>1, <2>2
  <2> QED BY <1>5, <2>3, <2>4, <2>5, SourceFound
<1> QED BY <1>8, <1>9 DEF Sources

\* Each step reads the verdicts on the one before.
LEMMA LoopFedBack ==
  ASSUME NEW cells, IsProgram(cells), Unambiguous(cells), NumbersDiffer(cells),
         NEW program, IsList(program), NEW T, T = Range(Compile(program, cells)),
         NEW l \in Templates(cells)
  PROVE  FedBack(l, T)
<1>1. SUFFICES ASSUME NEW k \in 2..l.iterate, NEW j \in Semantic(l)
               PROVE  \E g \in GivensOf(T, StepName(l.name, k)) :
                        /\ g.source = JudgeName(StepName(l.name, k - 1), j) /\ g.optional
                        /\ YieldsRead(T, g) # {}
  BY DEF FedBack
<1>2. l.iterate \in Nat
  BY ProgramCells DEF Templates, WellFormed
<1>3. k \in 1..l.iterate /\ k > 1 /\ k - 1 \in 1..l.iterate
  BY <1>2
<1>4. PICK s, t, c : s = Step(l, k) /\ t = Step(l, k - 1) /\ c = JudgeOfOracle(t, j)
  OBVIOUS
<1>5. StepFields(l, k, s) /\ s \in Range(CompiledCells(cells))
  BY <1>3, <1>4, StepAlone
<1>6. StepFields(l, k - 1, t) /\ c \in Range(CompiledCells(cells))
  BY <1>3, <1>4, StepAlone
<1>7. JudgeFields(t, j, c)
  BY <1>4, <1>6, JudgeCell DEF StepFields
<1>8. Given(JudgeName(StepName(l.name, k - 1), j), "verdict", TRUE) \in Range(s.givens)
  BY <1>3, <1>5 DEF StepFields
<1>9. PICK h : h = Given(JudgeName(StepName(l.name, k - 1), j), "verdict", TRUE)
  OBVIOUS
<1>10. h.source = JudgeName(StepName(l.name, k - 1), j) /\ h.field = "verdict" /\ h.optional = TRUE
  BY <1>9 DEF Given
<1>11. PICK r \in GivensOf(T, StepName(l.name, k)) :
         r.source = h.source /\ r.field = h.field /\ r.optional = h.optional
  <2>1. s.name = StepName(l.name, k) /\ h \in Range(s.givens)
    BY <1>5, <1>8, <1>9 DEF StepFields
  <2> QED BY <1>5, <2>1, SourceFound
<1>12. YieldsRead(T, r) # {}
  <2>1. c.name = r.source
    BY <1>6, <1>7, <1>10, <1>11 DEF JudgeFields, StepFields
  <2>2. PICK m \in DOMAIN c.yields : c.yields[m].field = "verdict"
    BY <1>7 DEF JudgeFields
  <2>3. m \in 1..Len(c.yields) /\ c.yields[m].field = r.field
    BY <1>7, <1>10, <1>11, <2>2, ListParts DEF JudgeFields, WellFormed
  <2> QED BY <1>6, <2>1, <2>3, Found
<1> QED BY <1>10, <1>11, <1>12

\* A name with a word more is not the name of a loop.
LEMMA NotALoop ==
  ASSUME NEW cells, IsProgram(cells), Unambiguous(cells), NEW l \in Templates(cells)
  PROVE  /\ ~IsTemplate(cells, Front(l.name))
         /\ Times(cells, l.name) = l.iterate /\ IsTemplate(cells, l.name)
<1>1. PICK i \in DOMAIN cells : l = cells[i]
  BY DEF Templates, Range
<1>2. IsList(l.name) /\ l.name # <<>>
  BY ProgramCells DEF IsProgram, WellFormed, Templates
<1>3. DOMAIN cells = 1..Len(cells)
  BY ProgramCells, ListParts
<1>4. PICK u : u = <<>>
  OBVIOUS
<1>5. IsList(u) /\ l.name \o u = l.name
  BY <1>2, <1>4, EmptyList DEF IsList
<1>6. ASSUME IsTemplate(cells, Front(l.name)) PROVE FALSE
  <2>1. PICK k \in DOMAIN cells : cells[k].name = Front(l.name)
    BY <1>6 DEF IsTemplate, Templates, Range
  <2>2. PICK s, v : s = Front(l.name) /\ v = <<Last(l.name)>>
    OBVIOUS
  <2>3. IsList(s) /\ l.name = Append(s, Last(l.name))
    BY <1>2, <2>2, FrontList
  <2>4. l.name = s \o v /\ Len(l.name) = Len(s) + 1 /\ IsList(v)
    BY <2>2, <2>3, AppendList, OneList
  <2>5. cells[i].name \o u = cells[k].name \o v
    BY <1>1, <1>5, <2>1, <2>2, <2>4
  <2>6. i = k
    BY <1>5, <2>4, <2>5, SameOrigin
  <2>7. Len(s) = Len(s) + 1 /\ Len(s) \in Nat
    BY <1>1, <2>1, <2>2, <2>3, <2>4, <2>6, ListParts
  <2> QED BY <2>7
<1>7. IsTemplate(cells, l.name)
  BY DEF IsTemplate
<1>8. PICK k \in DOMAIN cells : cells[k].name = l.name /\ Times(cells, l.name) = cells[k].iterate
  BY <1>3, <1>7, TimesIn
<1>9. i = k
  BY <1>1, <1>5, <1>8, SameOrigin
<1> QED BY <1>1, <1>6, <1>7, <1>8, <1>9

\* Readers of a loop read its last step, or all of them.
LEMMA LoopReadAtEnd ==
  ASSUME NEW cells, IsProgram(cells), Unambiguous(cells),
         NEW program, IsList(program), NEW T, T = Range(Compile(program, cells)),
         NEW l \in Templates(cells)
  PROVE  ReadAtEnd(l, cells, T)
<1>1. SUFFICES ASSUME NEW i \in DOMAIN cells, cells[i] \notin Templates(cells),
                      NEW g \in Range(cells[i].givens)
               PROVE  /\ g.source = l.name =>
                           StepName(l.name, l.iterate) \in Sources(T, cells[i].name, g.field)
                      /\ g.source = Append(l.name, "*") =>
                           {StepName(l.name, k) : k \in 1..l.iterate}
                             \subseteq Sources(T, cells[i].name, g.field)
  BY DEF ReadAtEnd, Range
<1>2. PICK c, d : c = cells[i] /\ d = Resolve(cells)[i]
  OBVIOUS
<1>3. WellFormed(c) /\ c.iterate = 0
  <2>1. c \in Range(cells)
    BY <1>2 DEF Range
  <2> QED BY <1>1, <1>2, <2>1, ProgramCells DEF Templates, WellFormed
<1>4. /\ WellFormed(d) /\ d.name = c.name /\ d.iterate = 0
      /\ Range(d.givens) =
           UNION {Range(ResolveGiven(cells, c.givens[j])) : j \in 1..Len(c.givens)}
  BY <1>2, <1>3, ResolvedCell DEF SameButGivens
<1>5. d \in Range(CompiledCells(cells))
  <2>1. d \in Resolved(cells) /\ d \in Roots(d)
    BY <1>2, <1>4 DEF Resolved, Roots
  <2> QED BY <2>1, CompiledParts
<1>6. IsGiven(g) /\ \E j \in 1..Len(c.givens) : g = c.givens[j]
  <2>1. g \in Range(c.givens)
    BY <1>1, <1>2
  <2>2. IsGiven(g)
    BY <1>3, <2>1 DEF WellFormed
  <2> QED BY <1>3, <2>1, <2>2, GivensListed
<1>7. ASSUME NEW h \in Range(ResolveGiven(cells, g)), h.field = g.field
      PROVE  h.source \in Sources(T, c.name, g.field)
  <2>1. h \in Range(d.givens)
    BY <1>4, <1>6
  <2> QED BY <1>4, <1>5, <1>7, <2>1, SourceFound DEF Sources
<1>8. IsList(l.name) /\ l.iterate \in Nat
  BY ProgramCells DEF Templates, WellFormed
<1>9. ASSUME NEW k PROVE IsList(StepName(l.name, k))
  BY <1>8, NamesAreLists
<1>10. ASSUME g.source = l.name
       PROVE  StepName(l.name, l.iterate) \in Sources(T, c.name, g.field)
  <2>1. PICK h : h = [g EXCEPT !.source = StepName(l.name, l.iterate)]
    OBVIOUS
  <2>2. ResolveGiven(cells, g) = <<h>>
    BY <1>10, <2>1, NotALoop DEF ResolveGiven
  <2>3. h \in Range(ResolveGiven(cells, g))
    BY <2>2, OneList
  <2>4. h.field = g.field /\ h.source = StepName(l.name, l.iterate)
    BY <1>6, <1>9, <2>1, ChangedGiven
  <2> QED BY <1>7, <2>3, <2>4
<1>11. ASSUME g.source = Append(l.name, "*"), NEW k \in 1..l.iterate
       PROVE  StepName(l.name, k) \in Sources(T, c.name, g.field)
  <2>1. Last(g.source) = "*" /\ Front(g.source) = l.name
    BY <1>8, <1>11, AppendList
  <2>2. ResolveGiven(cells, g) = [m \in 1..l.iterate |-> [g EXCEPT !.source = StepName(l.name, m)]]
    BY <2>1, NotALoop DEF ResolveGiven
  <2>3. PICK h : h = [g EXCEPT !.source = StepName(l.name, k)]
    OBVIOUS
  <2>4. h \in Range(ResolveGiven(cells, g))
    BY <2>2, <2>3 DEF Range
  <2>5. h.field = g.field /\ h.source = StepName(l.name, k)
    BY <1>6, <1>9, <2>3, ChangedGiven
  <2> QED BY <1>7, <2>4, <2>5
<1> QED BY <1>2, <1>10, <1>11

\* Whatever the program, as long as no name is the beginning of another: of a
\* loop that chains one field (expandIteration) each step reads the step before
\* and is told what the judges said of it; readers get the last step, or all.
THEOREM LoopsComplete ==
  ASSUME NEW cells, IsProgram(cells), Unambiguous(cells), NumbersDiffer(cells),
         NEW program, IsList(program)
  PROVE  LET T == Range(Compile(program, cells)) IN
         \A l \in Templates(cells) :
           /\ NoVerdict(l) => \A f : Chaining(l) = {f} => Chained(l, T, f)
           /\ FedBack(l, T) /\ ReadAtEnd(l, cells, T)
BY LoopChained, LoopFedBack, LoopReadAtEnd

-----------------------------------------------------------------------------
(* What is said of judges and loops is said of rows that are alike.        *)

Watched == {"cells", "givens", "yields"}

\* Two rows that say the same of a program.
Like(u, r) ==
  /\ r.table = u.table
  /\ u.table = "cells" => r.id = u.id /\ r.name = u.name /\ r.body = u.body
  /\ u.table = "givens" => r = u
  /\ u.table = "yields" => r.cell = u.cell /\ r.field = u.field

SayTheSame(U, T) ==
  /\ \A u \in U : u.table \in Watched => \E r \in T : Like(u, r)
  /\ \A r \in T : r.table \in Watched => \E u \in U : Like(u, r)

\* They have the same givens,
LEMMA AlikeGivens ==
  ASSUME NEW U, NEW T, SayTheSame(U, T), NEW name
  PROVE  GivensOf(T, name) = GivensOf(U, name)
<1>2. /\ \A u \in U : u.table = "givens" => u \in T
      /\ \A u \in T : u.table = "givens" => u \in U
  BY DEF SayTheSame, Like, Watched
<1>3. /\ \A u \in U : u.table = "cells" =>
           \E r \in T : r.table = "cells" /\ r.id = u.id /\ r.name = u.name
      /\ \A u \in T : u.table = "cells" =>
           \E r \in U : r.table = "cells" /\ r.id = u.id /\ r.name = u.name
  BY DEF SayTheSame, Like, Watched
<1>4. \A g \in GivensOf(U, name) : g \in GivensOf(T, name)
  BY <1>2, <1>3 DEF GivensOf, TableOf
<1>5. \A g \in GivensOf(T, name) : g \in GivensOf(U, name)
  BY <1>2, <1>3 DEF GivensOf, TableOf
<1> QED BY <1>4, <1>5

\* and something to read where the other has.
LEMMA AlikeYields ==
  ASSUME NEW U, NEW T, SayTheSame(U, T), NEW g, YieldsRead(U, g) # {}
  PROVE  YieldsRead(T, g) # {}
<1>1. PICK v \in U, q \in U : /\ v.table = "yields" /\ v.field = g.field
                              /\ q.table = "cells" /\ q.name = g.source /\ q.id = v.cell
  BY DEF YieldsRead, TableOf
<1>2. PICK w \in T : w.table = "yields" /\ w.cell = v.cell /\ w.field = v.field
  BY <1>1 DEF SayTheSame, Like, Watched
<1>3. PICK r \in T : r.table = "cells" /\ r.id = q.id /\ r.name = q.name
  BY <1>1 DEF SayTheSame, Like, Watched
<1>4. w \in YieldsRead(T, g)
  BY <1>1, <1>2, <1>3 DEF YieldsRead, TableOf
<1> QED BY <1>4

\* What is said of judges and loops is said of anything alike.
LEMMA AlikeTold ==
  ASSUME NEW U, NEW T, SayTheSame(U, T), NEW cells, NEW c
  PROVE  /\ Judged(c, U) => Judged(c, T)
         /\ \A f : Chained(c, U, f) => Chained(c, T, f)
         /\ FedBack(c, U) => FedBack(c, T)
         /\ ReadAtEnd(c, cells, U) => ReadAtEnd(c, cells, T)
<1>1. \A name : GivensOf(T, name) = GivensOf(U, name)
  BY AlikeGivens
<1>2. \A name, f : Sources(T, name, f) = Sources(U, name, f)
  BY <1>1 DEF Sources
<1>3. \A name : (\E r \in TableOf(U, "cells") : r.name = name /\ r.body = "stem")
                => \E r \in TableOf(T, "cells") : r.name = name /\ r.body = "stem"
  BY DEF SayTheSame, Like, Watched, TableOf
<1>4. ASSUME Judged(c, U) PROVE Judged(c, T)
  <2>1. SUFFICES ASSUME NEW n \in StepsOf(c), NEW j \in Semantic(c)
                 PROVE  /\ \E r \in TableOf(T, "cells") : r.name = JudgeName(n, j) /\ r.body = "stem"
                        /\ {<<g.source, g.field, g.optional>> : g \in GivensOf(T, JudgeName(n, j))}
                             = {<<n, field, FALSE>> : field \in Fields(c.yields)}
    BY DEF Judged
  <2>2. /\ \E r \in TableOf(U, "cells") : r.name = JudgeName(n, j) /\ r.body = "stem"
        /\ {<<g.source, g.field, g.optional>> : g \in GivensOf(U, JudgeName(n, j))}
             = {<<n, field, FALSE>> : field \in Fields(c.yields)}
    BY <1>4 DEF Judged
  <2> QED BY <1>1, <1>3, <2>2
<1>5. \A f : Chained(c, U, f) => Chained(c, T, f)
  BY <1>2 DEF Chained
<1>6. FedBack(c, U) => FedBack(c, T)
  BY <1>1, AlikeYields DEF FedBack
<1>7. ReadAtEnd(c, cells, U) => ReadAtEnd(c, cells, T)
  BY <1>2 DEF ReadAtEnd
<1> QED BY <1>4, <1>5, <1>6, <1>7

-----------------------------------------------------------------------------
(* While nobody else touches its program, a pour is alone with its rows.   *)

\* The pour of c inserts the compiled file, or has done so.
Inserting(c) ==
  pc[c] \in {"insert", "frames"} \/ (pc[c] = "ended" /\ outcome[c] = "poured")

OwnTables == {"cells"} \cup Owned

OnlyOf(c) ==
  LET k == Command(c)  s == loc[c].sql IN
  Inserting(c) =>
    /\ k.file.reading = "cells" /\ s = k.file.script
    /\ touched[c] = {} =>
         \A r \in rows : RowFor(k.program, r) /\ r.table \in OwnTables =>
           \E i \in 1..Len(s) : Same(s[i], r)

\* A row of these tables belongs to one program.
LEMMA OneProgram ==
  ASSUME NEW P, NEW Q, NEW r, RowFor(P, r), RowFor(Q, r), r.table \in OwnTables
  PROVE  P = Q
BY OneCell DEF RowFor, OwnTables, Owned

\* A program without cells has no rows.
LEMMA NoCellsNoRows ==
  ASSUME RowsOK, NEW P, CellsOf(P) = {}, NEW r \in rows, RowFor(P, r)
  PROVE  r.table \notin OwnTables
<1>1. r.table # "cells"
  BY DEF CellsOf, RowFor
<1>2. ASSUME r.table \in Owned PROVE FALSE
  <2>1. PICK q \in rows : q.table = "cells" /\ q.id = r.cell
    BY <1>2 DEF RowsOK, HasCell
  <2>2. PICK Q : RowFor(Q, q)
    BY DEF RowsOK
  <2>3. IsCell(q.id, Q, q.name) /\ q.program = Q
    BY <2>1, <2>2 DEF RowFor
  <2>4. CellOf(r.cell, P)
    BY <1>2 DEF RowFor
  <2>5. Q = P
    BY <2>1, <2>3, <2>4, OneCell
  <2> QED BY <2>1, <2>3, <2>5 DEF CellsOf
<1> QED BY <1>1, <1>2 DEF OwnTables

\* The compiled file is what a pour starts with, when its program has no cell.
LEMMA PourOpens ==
  ASSUME Base, NEW c \in Clients, ClientStep(c) \/ Crash(c), Opens(c), pc'[c] = "insert"
  PROVE  /\ rows' = rows /\ todo'[c] = todo[c] /\ CellsOf(Command(c).program) = {}
         /\ Command(c).file.reading = "cells" /\ loc'[c].sql = Command(c).file.script
<1>a. Control
  BY DEF Base
<1>b. loc[c] \in Locals /\ loc[c].at \in Nat \ {0}
  BY <1>a, AtWork DEF Locals
<1>1. CASE PourCount(c)
  <2> DEFINE k == Command(c)
  <2>1. CASE CellsOf(k.program) # {} \/ k.file.reading = "error"
    <3>1. pc'[c] = "ended"
      BY <1>1, <1>a, <2>1 DEF PourCount, End, Goto, Control
    <3> QED BY <3>1
  <2>2. CASE ~(CellsOf(k.program) # {} \/ k.file.reading = "error")
    <3> DEFINE b == \E q \in Answered(k.program, k.file) : q.value # NothingSent
               s == [NoLocals EXCEPT !.before = b, !.sql = k.file.script]
               l == IF k.file.reading = "cells" THEN "insert" ELSE "cache"
    <3>1. k \in Pours /\ k.file.reading \in {"cells", "nil", "error"}
      <4>1. k \in Pours
        BY <1>1, <1>a DEF PourCount, Starts, Pours, Command, Control
      <4> QED BY <4>1, Bounds
    <3>2. /\ pc' = [pc EXCEPT ![c] = l] /\ loc' = [loc EXCEPT ![c] = s]
          /\ rows' = rows /\ todo' = todo
      BY <1>1, <2>2, <3>1 DEF PourCount, Goto, Starts
    <3>3. s.sql = k.file.script
      BY DEF NoLocals
    <3> HIDE DEF s
    <3>4. pc'[c] = l /\ loc'[c].sql = k.file.script
      BY <1>a, <3>2, <3>3 DEF Control
    <3> QED BY <2>2, <3>2, <3>4
  <2> QED BY <2>1, <2>2
<1>2. CASE PourInsert(c)
  <2>1. CASE Fails(loc[c].sql[loc[c].at])
    <3>1. pc'[c] = "cache"
      BY <1>2, <1>a, <2>1 DEF PourInsert, Goto, Control
    <3> QED BY <3>1
  <2>2. CASE ~Fails(loc[c].sql[loc[c].at])
    <3>1. loc'[c].at = loc[c].at + 1
      BY <1>2, <1>a, <1>b, <2>2 DEF PourInsert, At, Goto, Control, Locals
    <3>2. loc'[c].at = 1
      BY DEF Opens
    <3> QED BY <1>b, <3>1, <3>2
  <2> QED BY <2>1, <2>2
<1>3. CASE \/ ReadCells(c) \/ EnsureFrame(c) \/ PourEnds(c) \/ Sandbox(c) \/ ExecAnswer(c)
           \/ ExecEnds(c) \/ CheckCache(c) \/ CheckExists(c) \/ CreateSource(c)
           \/ FreezeSource(c) \/ CreateParse(c) \/ Poll(c) \/ TimesOut(c) \/ EvalCount(c)
           \/ RequestCount(c) \/ EvalInsert(c) \/ ResetCount(c) \/ Delete(c) \/ ResetEnds(c)
           \/ NextCommand(c) \/ Crash(c)
  <2>1. pc'[c] # "insert"
    BY <1>3, <1>a DEF ReadCells, EnsureFrame, PourEnds, Sandbox, ExecAnswer, ExecEnds,
      CheckCache, CheckExists, CreateSource, Creates, FreezeSource,
      CreateParse, Poll, LooksForAnswer, TimesOut, EvalCount, RequestCount, EvalInsert,
      ResetCount, Delete, ResetEnds, NextCommand, Crash, Goto, End, At, Control
  <2> QED BY <2>1
<1> QED BY <1>1, <1>2, <1>3 DEF ClientStep, Pour, Eval, Reset

\* A step of the pour itself.
LEMMA OnlyOwn ==
  ASSUME Base, Base', NEW c \in Clients, ClientStep(c) \/ Crash(c), OnlyOf(c)
  PROVE  OnlyOf(c)'
<1> SUFFICES ASSUME Inserting(c)' PROVE OnlyOf(c)'
  BY DEF OnlyOf
<1>1. InProgress(c)' /\ pc'[c] # "exec" /\ (pc'[c] = "ended" => outcome'[c] = "poured")
  BY DEF Inserting, InProgress, Success
<1>2. CASE Opens(c)
  <2>1. pc'[c] = "insert"
    BY <1>1, <1>2 DEF Opens
  <2>2. /\ rows' = rows /\ todo'[c] = todo[c] /\ CellsOf(Command(c).program) = {}
        /\ Command(c).file.reading = "cells" /\ loc'[c].sql = Command(c).file.script
    BY <1>2, <2>1, PourOpens
  <2>3. \A r \in rows : RowFor(Command(c).program, r) => r.table \notin OwnTables
    BY <2>2, NoCellsNoRows DEF Base
  <2> QED BY <2>2, <2>3 DEF OnlyOf, Command
<1>3. ASSUME Writes(c) \/ GoesOn(c)
      PROVE  /\ Inserting(c) /\ Command(c)' = Command(c) /\ loc'[c].sql = loc[c].sql
             /\ touched'[c] = touched[c]
  BY <1>1, <1>3 DEF Writes, GoesOn, Stays, Inserting, Command
<1>4. ASSUME Writes(c) \/ GoesOn(c), NEW e, UNCHANGED rows \/ Insert(e),
             e.table \in OwnTables =>
               \E i \in 1..Len(loc[c].sql) : e = loc[c].sql[i]
      PROVE  OnlyOf(c)'
  <2>1. PICK k, s : k = Command(c) /\ s = loc[c].sql
    OBVIOUS
  <2>2. /\ k.file.reading = "cells" /\ s = k.file.script
        /\ touched[c] = {} =>
             \A r \in rows : RowFor(k.program, r) /\ r.table \in OwnTables =>
               \E i \in 1..Len(s) : Same(s[i], r)
    BY <1>3, <1>4, <2>1 DEF OnlyOf
  <2>3. ASSUME touched'[c] = {}, NEW r \in rows', RowFor(k.program, r), r.table \in OwnTables
        PROVE  \E i \in 1..Len(s) : Same(s[i], r)
    <3>1. r \in rows \/ r = e
      BY <1>4 DEF Insert
    <3>2. CASE r \in rows
      BY <1>3, <1>4, <2>2, <2>3, <3>2
    <3>3. CASE r = e
      BY <1>4, <2>1, <2>3, <3>3, SameRefl
    <3> QED BY <3>1, <3>2, <3>3
  <2> QED BY <1>3, <1>4, <2>1, <2>2, <2>3 DEF OnlyOf
<1>5. CASE Writes(c)
  <2>1. PICK i \in 1..Len(loc[c].sql) : Insert(loc[c].sql[i])
    BY <1>5 DEF Writes
  <2> QED BY <1>4, <1>5, <2>1
<1>6. CASE GoesOn(c)
  <2>1. CASE rows' = rows
    <3>1. PICK e : e = [table |-> "claims"]
      OBVIOUS
    <3>2. e.table \notin OwnTables
      BY <3>1 DEF OwnTables, Owned
    <3> QED BY <1>4, <1>6, <2>1, <3>2
  <2>2. CASE rows' # rows
    <3>1. PICK f \in loc[c].frames : Insert(f)
      BY <1>6, <2>2 DEF GoesOn
    <3>2. f.table = "frames"
      BY AtWork DEF Base, Locals, AllFrames, FrameRow
    <3>3. f.table \notin OwnTables
      BY <3>2 DEF OwnTables, Owned
    <3> QED BY <1>4, <1>6, <3>1, <3>3
  <2> QED BY <2>1, <2>2
<1> QED BY <1>1, <1>2, <1>5, <1>6, Course

\* What others do, which is not about the program of c, adds none of its rows.
LEMMA OnlyOthers ==
  ASSUME Base, NEW a, Effect(a), OthersStay(a), NEW c \in Clients, c # a, OnlyOf(c)
  PROVE  OnlyOf(c)'
<1>1. PICK k, s : k = Command(c) /\ s = loc[c].sql
  OBVIOUS
<1>2. /\ todo'[c] = todo[c] /\ pc'[c] = pc[c] /\ loc'[c] = loc[c]
      /\ outcome'[c] = outcome[c]
  BY DEF OthersStay
<1> SUFFICES ASSUME Inserting(c) PROVE OnlyOf(c)'
  BY <1>2 DEF OnlyOf, Inserting
<1>3. InProgress(c)
  BY DEF Inserting, InProgress, Success
<1>4. k.program \in Programs(c) /\ todo[c] # <<>>
  BY <1>1, <1>3, Pours1
<1>5. /\ k.file.reading = "cells" /\ s = k.file.script
      /\ touched[c] = {} =>
           \A r \in rows : RowFor(k.program, r) /\ r.table \in OwnTables =>
             \E i \in 1..Len(s) : Same(s[i], r)
  BY <1>1 DEF OnlyOf
<1>6. ASSUME touched'[c] = {}, NEW r \in rows', RowFor(k.program, r), r.table \in OwnTables
      PROVE  \E i \in 1..Len(s) : Same(s[i], r)
  <2>1. touched[c] = {}
    BY <1>6, EffectNotes DEF Base
  <2>2. CASE r \in rows
    BY <1>5, <1>6, <2>1, <2>2
  <2>3. CASE Marks
    <3>1. PICK q \in rows : Same(q, r)
      BY <1>6, <2>3 DEF Marks
    <3>2. PICK Q : RowFor(Q, q)
      BY <3>1 DEF Base, RowsOK
    <3>3. RowFor(Q, r)
      BY <3>1, <3>2, SameFor
    <3>4. Q = k.program
      BY <1>6, <3>3, OneProgram
    <3>5. q.table \in OwnTables
      BY <1>6, <3>1 DEF Same
    <3>6. PICK i \in 1..Len(s) : Same(s[i], q)
      BY <1>5, <2>1, <3>1, <3>2, <3>4, <3>5
    <3> QED BY <3>1, <3>6, SameTrans
  <2>4. CASE r \notin rows /\ \E Q : Adds(a, Q)
    <3>1. PICK Q : Adds(a, Q)
      BY <2>4
    <3>2. RowFor(Q, r)
      BY <1>6, <2>4, <3>1 DEF Adds
    <3>3. Q = k.program
      BY <1>6, <3>2, OneProgram
    <3>4. "insert" \in touched'[c]
      BY <1>4, <3>1, <3>3, EffectNotes DEF Base
    <3> QED BY <1>6, <3>4
  <2>5. CASE Quiet(a) \/ Unclaims \/ Deletes(a)
    <3>1. rows' \subseteq rows
      BY <2>5 DEF Quiet, Unclaims, Deletes
    <3> QED BY <1>6, <2>2, <3>1
  <2> QED BY <2>2, <2>3, <2>4, <2>5 DEF Effect
<1> QED BY <1>1, <1>2, <1>5, <1>6 DEF OnlyOf, Command

\* Nobody adds a row of these tables to a pour that is left alone.
LEMMA OnlyStep ==
  ASSUME Base, \A c \in Clients : OnlyOf(c), [Next]_vars
  PROVE  \A c \in Clients : OnlyOf(c)'
<1>1. CASE UNCHANGED vars
  BY <1>1 DEF vars, OnlyOf, Inserting, Command
<1>2. CASE Next
  <2>1. PICK a : /\ Effect(a) /\ OthersStay(a)
                 /\ a \in Clients => ClientStep(a) \/ Crash(a)
    BY <1>2, StepOf
  <2>2. Base'
    BY <1>2, StepOf
  <2> QED BY <2>1, <2>2, OnlyOwn, OnlyOthers
<1> QED BY <1>1, <1>2

-----------------------------------------------------------------------------
(* Judges and loops in the tables.                                         *)

\* The rows of a program are what belongs to it.
LEMMA OfProgram ==
  ASSUME RowsOK, NEW P, NEW r \in rows, r.table \in OwnTables
  PROVE  r \in RowsOf(P) <=> RowFor(P, r)
<1>1. PICK Q : RowFor(Q, r)
  BY DEF RowsOK
<1>2. CASE r.table = "cells"
  BY <1>1, <1>2 DEF RowFor, RowsOf, CellsOf, Owned
<1>3. CASE r.table \in Owned
  <2>1. r.table # "cells" /\ r.table # "frames"
    BY <1>3 DEF Owned
  <2>2. CellOf(r.cell, Q)
    BY <1>1, <1>3 DEF RowFor
  <2>3. ASSUME NEW q \in rows, q.table = "cells", q.id = r.cell
        PROVE  q.program = Q
    <3>1. PICK R : RowFor(R, q)
      BY DEF RowsOK
    <3>2. IsCell(q.id, R, q.name) /\ q.program = R
      BY <2>3, <3>1 DEF RowFor
    <3> QED BY <2>2, <2>3, <3>2, OneCell
  <2>4. PICK q \in rows : q.table = "cells" /\ q.id = r.cell
    BY <1>3 DEF RowsOK, HasCell
  <2>5. r \in RowsOf(P) <=> P = Q
    BY <1>3, <2>1, <2>3, <2>4 DEF RowsOf, CellsOf
  <2>6. RowFor(P, r) => P = Q
    BY <1>1, <1>3, OneProgram DEF OwnTables
  <2> QED BY <1>1, <2>5, <2>6
<1> QED BY <1>2, <1>3 DEF OwnTables

\* Every file the parser accepts is read as it was written, which ReadsAsWritten
\* says of one file after its pour.
FilesReadBack ==
  \A k \in Pours :
    k.file.reading = "cells" => ReadsBack(k.file.source[1], Source(k.file.source))

\* What a pour left alone has written is what the compiler made.
LEMMA RowsAlike ==
  ASSUME FilesReadBack, Base, NEW c \in Clients, WholeOf(c), OnlyOf(c), PouredUndisturbed(c), Clean(Asked(c))
  PROVE  LET P == Command(c).program IN
         /\ IsProgram(Asked(c)) /\ NumbersDiffer(Asked(c)) /\ IsList(P)
         /\ SayTheSame(Range(Compile(P, Asked(c))), RowsOf(P))
<1>1. PICK k, s, cells, P : /\ k = Command(c) /\ s = loc[c].sql /\ cells = Asked(c)
                            /\ P = k.program
  OBVIOUS
<1>2. InProgress(c) /\ Inserting(c) /\ pc[c] = "ended" /\ outcome[c] = "poured" /\ touched[c] = {}
  BY DEF PouredUndisturbed, InProgress, Inserting, Success
<1>3. k \in Pours /\ s \in Scripts(k) /\ Len(s) \in Nat /\ loc[c].at \in Nat
  BY <1>1, <1>2, Pours1
<1>4. loc[c].at > Len(s)
  BY <1>1, <1>2 DEF Base, Control, CtlOf, Success
<1>5. /\ k.file.reading = "cells" /\ s = k.file.script
      /\ \A r \in rows : RowFor(P, r) /\ r.table \in OwnTables => \E i \in 1..Len(s) : Same(s[i], r)
  BY <1>1, <1>2 DEF OnlyOf
<1>6. \A i \in 1..Len(s) : Landed(s[i])
  BY <1>1, <1>2, <1>3, <1>4 DEF WholeOf
<1>7. IsProgram(cells) /\ NumbersDiffer(cells) /\ IsList(P)
  <2>1. P \in Seq(STRING) /\ IsProgram(cells) /\ NumbersDiffer(cells)
    BY <1>1, <1>3, ProgramsAssumption DEF Asked
  <2> QED BY <2>1, SeqIsList
<1>8. s = Compile(P, cells)
  BY <1>1, <1>3, <1>5, FilesAssumption DEF Asked, FilesReadBack, ReadsBack
<1>9. PICK T : T = Range(s) /\ T = {s[i] : i \in 1..Len(s)}
  BY <1>3, ScriptLength DEF Range
<1>10. RowsOK
  BY DEF Base
<1>11. ASSUME NEW u \in T, NEW r, Same(u, r), u.table \in Watched
       PROVE  Like(u, r)
  <2>1. CASE u.table = "cells"
    <3>1. u \in TableOf(T, "cells")
      BY <2>1 DEF TableOf
    <3>2. PICK d \in Range(CompiledCells(cells)) : u = CellOut(P, d)
      <4>1. T = Range(Compile(P, cells))
        BY <1>8, <1>9
      <4>2. \A q \in TableOf(T, "cells") :
              \E d \in Range(CompiledCells(cells)) : q = CellOut(P, d)
        BY <1>7, <4>1, Found
      <4> QED BY <3>1, <4>2
    <3>3. "body" \in DOMAIN u
      BY <3>2 DEF CellOut
    <3> QED BY <1>11, <2>1, <3>3 DEF Same, Like
  <2>2. CASE u.table \in {"givens", "yields"}
    BY <1>11, <2>2 DEF Same, Like, Owned
  <2> QED BY <1>11, <2>1, <2>2 DEF Watched
<1>12. ASSUME NEW u \in T, u.table \in Watched PROVE \E r \in RowsOf(P) : Like(u, r)
  <2>1. RowFor(P, u) /\ Landed(u)
    BY <1>1, <1>3, <1>6, <1>9, ScriptRows
  <2>2. PICK r \in rows : Same(u, r)
    BY <1>12, <2>1 DEF Landed, Ignoring, Watched
  <2>3. RowFor(P, r) /\ r.table \in OwnTables
    BY <1>12, <2>1, <2>2, SameFor DEF Same, Watched, OwnTables, Owned
  <2>4. r \in RowsOf(P)
    BY <1>10, <2>3, OfProgram
  <2> QED BY <1>11, <1>12, <2>2, <2>4
<1>13. ASSUME NEW r \in RowsOf(P), r.table \in Watched PROVE \E u \in T : Like(u, r)
  <2>1. r \in rows /\ r.table \in OwnTables
    BY <1>13 DEF RowsOf, CellsOf, Watched, OwnTables, Owned
  <2>2. RowFor(P, r)
    BY <1>10, <2>1, OfProgram
  <2>3. PICK i \in 1..Len(s) : Same(s[i], r)
    BY <1>5, <2>1, <2>2
  <2>4. s[i] \in T /\ s[i].table \in Watched
    BY <1>9, <1>13, <2>3 DEF Same
  <2> QED BY <1>11, <2>3, <2>4
<1>14. SayTheSame(T, RowsOf(P))
  BY <1>12, <1>13 DEF SayTheSame
<1> QED BY <1>1, <1>7, <1>8, <1>9, <1>14

\* A set of fields with one member.
LEMMA OneChained ==
  ASSUME NEW cells, IsProgram(cells), NEW c \in Range(cells), Cardinality(Chaining(c)) = 1
  PROVE  \E f : Chaining(c) = {f}
<1>1. PICK n : n = Len(c.givens) /\ n \in Nat /\ DOMAIN c.givens = 1..n
  BY ProgramCells, ListParts DEF WellFormed
<1>2. IsFiniteSet(Fields(c.givens))
  <2>1. PICK f : f = [i \in 1..n |-> c.givens[i].field]
    OBVIOUS
  <2>2. Fields(c.givens) = {f[i] : i \in 1..n}
    BY <1>1, <2>1 DEF Fields
  <2>3. IsFiniteSet(1..n)
    BY <1>1, FS_Interval
  <2>4. IsFiniteSet({f[i] : i \in 1..n})
    BY <2>3, FiniteImage
  <2> QED BY <2>2, <2>4
<1>3. IsFiniteSet(Chaining(c))
  BY <1>2, FS_Subset DEF Chaining
<1> QED BY <1>3, FS_Singleton

\* The invariant: what is poured is in the tables, and nothing else is.
LEMMA UndisturbedInvariant ==
  Spec => [](Base /\ \A c \in Clients : WholeOf(c) /\ OnlyOf(c))
<1> DEFINE Whole == \A c \in Clients : WholeOf(c)
           Only == \A c \in Clients : OnlyOf(c)
<1>1. Init => Whole /\ Only
  BY DEF Init, WholeOf, InProgress, OnlyOf, Inserting
<1>2. Base /\ Whole /\ [Next]_vars => Whole'
  BY WholeStep
<1>3. Base /\ Only /\ [Next]_vars => Only'
  BY OnlyStep
<1>4. Base /\ Whole /\ Only => Base /\ \A c \in Clients : WholeOf(c) /\ OnlyOf(c)
  OBVIOUS
<1> HIDE DEF Whole, Only
<1> QED BY <1>1, <1>2, <1>3, <1>4, AlwaysBase, PTL DEF Spec

\* JudgesSeeAll for any clients, sessions, files and pistons, if files are read
\* as they were written: after a pour that nobody disturbed, the judges of a
\* careful program are in the tables.
THEOREM JudgesSeeAllAlways == ASSUME FilesReadBack PROVE Spec => []JudgesSeeAll
<1>1. ASSUME Base, \A c \in Clients : WholeOf(c) /\ OnlyOf(c)
      PROVE  JudgesSeeAll
  <2> SUFFICES ASSUME NEW c \in Clients, PouredUndisturbed(c), Clean(Asked(c)),
                      NEW d \in Range(Asked(c))
               PROVE  Judged(d, RowsOf(Command(c).program))
    BY DEF JudgesSeeAll
  <2>1. PICK cells, P : cells = Asked(c) /\ P = Command(c).program
    OBVIOUS
  <2>2. /\ IsProgram(cells) /\ IsList(P)
        /\ SayTheSame(Range(Compile(P, cells)), RowsOf(P))
    BY <1>1, <2>1, RowsAlike
  <2>3. Unambiguous(cells)
    BY <2>1 DEF Clean, Careful
  <2>4. Judged(d, Range(Compile(P, cells)))
    BY <2>1, <2>2, <2>3, JudgesComplete
  <2> QED BY <2>1, <2>2, <2>4, AlikeTold
<1> QED BY <1>1, UndisturbedInvariant, PTL

\* LoopsChain for any clients, sessions, files and pistons, if files are read
\* as they were written: after a pour that nobody disturbed, the loops of a
\* careful program are chained in the tables.
THEOREM LoopsChainAlways == ASSUME FilesReadBack PROVE Spec => []LoopsChain
<1>1. ASSUME Base, \A c \in Clients : WholeOf(c) /\ OnlyOf(c)
      PROVE  LoopsChain
  <2> SUFFICES ASSUME NEW c \in Clients, PouredUndisturbed(c), Clean(Asked(c)),
                      NEW l \in Templates(Asked(c)), Cardinality(Chaining(l)) = 1
               PROVE  LET T == RowsOf(Command(c).program) IN
                      /\ \A field \in Chaining(l) : Chained(l, T, field)
                      /\ FedBack(l, T)
                      /\ ReadAtEnd(l, Asked(c), T)
    BY DEF LoopsChain
  <2>1. PICK cells, P : cells = Asked(c) /\ P = Command(c).program
    OBVIOUS
  <2>2. /\ IsProgram(cells) /\ NumbersDiffer(cells) /\ IsList(P)
        /\ SayTheSame(Range(Compile(P, cells)), RowsOf(P))
    BY <1>1, <2>1, RowsAlike
  <2>3. l \in Range(cells)
    BY <2>1 DEF Templates
  <2>4. Unambiguous(cells) /\ NoVerdict(l)
    BY <2>1, <2>3 DEF Clean, Careful
  <2>5. PICK f : Chaining(l) = {f}
    BY <2>2, <2>3, OneChained
  <2>6. /\ Chained(l, Range(Compile(P, cells)), f)
        /\ FedBack(l, Range(Compile(P, cells)))
        /\ ReadAtEnd(l, cells, Range(Compile(P, cells)))
    BY <2>1, <2>2, <2>4, <2>5, LoopsComplete
  <2> QED BY <2>1, <2>2, <2>5, <2>6, AlikeTold
<1> QED BY <1>1, UndisturbedInvariant, PTL
=============================================================================
