-------------------------- MODULE KempeChains_proofs --------------------------
(***************************************************************************)
(* A chain keeps what the search relies on, after each of its steps.  A     *)
(* landing asks for the room, the caps and the travel time only; teacher    *)
(* and classes are free because the walk collected whoever stood in the     *)
(* way.  So the invariant says of an attempt half way through that nobody   *)
(* outside the chain is in a member's way, that no two members of one day   *)
(* conflict, and that the rows to go back to were in order; the walk gives  *)
(* it its first part.  The last part is about the running totals, which     *)
(* wait at the costs of the schedule before the chain.                      *)
(***************************************************************************)
EXTENDS KempeChains, ScoredSearch_proofs

-----------------------------------------------------------------------------
(* The walk that collects the members of a chain.                           *)

\* The day that members at distance i move to.
Turn(i, src, dest) == IF i % 2 = 0 THEN dest ELSE src

\* g lists the members up to each distance, as ChainFrom does.
Growth(g, n, seed, src, dest, start) ==
    g = [i \in 0..n |-> IF i = 0 THEN [m \in {seed} |-> 0]
                        ELSE Wider(g[i - 1], i, Turn(i - 1, src, dest), start)]

\* One more distance.
LEMMA LongerGrowth ==
  ASSUME NEW n \in Nat, n # 0, NEW seed, NEW src, NEW dest, NEW start,
         NEW g, Growth(g, n - 1, seed, src, dest, start)
  PROVE  \E h : Growth(h, n, seed, src, dest, start)
<1> DEFINE next(f, i) == Wider(f, i, Turn(i - 1, src, dest), start)
           first == [m \in {seed} |-> 0]
           h == [i \in 0..n |-> IF i = n THEN next(g[n - 1], n) ELSE g[i]]
<1>1. g = [i \in 0..(n - 1) |-> IF i = 0 THEN first ELSE next(g[i - 1], i)]
  BY DEF Growth
<1> HIDE DEF next, first
<1>2. \A i \in 0..(n - 1) : g[i] = IF i = 0 THEN first ELSE next(g[i - 1], i)
  BY <1>1
<1>3. ASSUME NEW i \in 0..n PROVE h[i] = IF i = 0 THEN first ELSE next(h[i - 1], i)
  <2>1. CASE i = n
    <3>1. h[i] = next(g[n - 1], n) /\ h[n - 1] = g[n - 1]
      BY <2>1
    <3> QED
      BY <2>1, <3>1
  <2>2. CASE i # n
    <3>1. i \in 0..(n - 1) /\ h[i] = g[i] /\ (i # 0 => h[i - 1] = g[i - 1])
      BY <2>2
    <3> QED
      BY <1>2, <3>1
  <2> QED
    BY <2>1, <2>2
<1>4. h = [i \in 0..n |-> h[i]]
  OBVIOUS
<1> HIDE DEF h
<1>5. h = [i \in 0..n |-> IF i = 0 THEN first ELSE next(h[i - 1], i)]
  BY <1>3, <1>4
<1>6. Growth(h, n, seed, src, dest, start)
  BY <1>5 DEF Growth, next, first
<1> QED
  BY <1>6

\* The recursion has a solution, so the walk is what its equation says.
LEMMA GrowthExists ==
  ASSUME NEW n \in Nat, NEW seed, NEW src, NEW dest, NEW start
  PROVE  \E g : Growth(g, n, seed, src, dest, start)
<1> DEFINE T == {k \in Nat : ~\E g : Growth(g, k, seed, src, dest, start)}
<1> SUFFICES ASSUME T # {} PROVE FALSE
  OBVIOUS
<1>1. PICK k \in T : k = 0 \/ k - 1 \notin T
  BY FirstOf
<1>2. CASE k = 0
  <2> DEFINE g == [i \in 0..0 |-> [m \in {seed} |-> 0]]
  <2>1. \A i \in 0..0 : i = 0
    OBVIOUS
  <2>2. g = [i \in 0..0 |-> IF i = 0 THEN [m \in {seed} |-> 0]
                            ELSE Wider(g[i - 1], i, Turn(i - 1, src, dest), start)]
    BY <2>1
  <2>3. Growth(g, 0, seed, src, dest, start)
    BY <2>2 DEF Growth
  <2> QED
    BY <1>2, <2>3
<1>3. CASE k # 0
  <2>1. k \in Nat /\ k - 1 \in Nat
    BY <1>3
  <2>2. PICK g : Growth(g, k - 1, seed, src, dest, start)
    BY <1>1, <1>3, <2>1
  <2> QED
    BY <1>1, <1>3, <2>1, <2>2, LongerGrowth
<1> QED
  BY <1>2, <1>3

\* The chain is read off the last step of the walk.
LEMMA ChainIsGrowth ==
  ASSUME NEW seed, NEW src, NEW dest, NEW start
  PROVE  \E g : /\ Growth(g, Cardinality(Lessons), seed, src, dest, start)
                /\ ChainFrom(seed, src, dest, start)
                     = [m \in DOMAIN g[Cardinality(Lessons)] |->
                          Turn(g[Cardinality(Lessons)][m], src, dest)]
<1>1. Cardinality(Lessons) \in Nat
  BY FS_CardinalityType, ProblemAssumption
<1>2. \E g : Growth(g, Cardinality(Lessons), seed, src, dest, start)
  BY <1>1, GrowthExists
<1> QED
  BY <1>2, Zenon DEF ChainFrom, Growth, Turn

\* Every member short of distance i has those in its way beside it, and each
\* distance has brought a member.
Walked(near, i, seed, src, dest, start) ==
    /\ DOMAIN near \subseteq Lessons /\ seed \in DOMAIN near
    /\ \A m \in DOMAIN near : /\ near[m] \in Nat /\ near[m] <= i
                              /\ near[m] < i =>
                                   InTheWay(m, Turn(near[m], src, dest), start) \subseteq DOMAIN near
    /\ (\E m \in DOMAIN near : near[m] = i) => i < Cardinality(DOMAIN near)

\* The rows in the way are of lessons.
LEMMA InTheWayType ==
  ASSUME rows \in SUBSET Row, NEW m, NEW d, NEW start
  PROVE  InTheWay(m, d, start) \subseteq Lessons
BY DEF InTheWay, Row

\* A step of the walk.
LEMMA WalkOn ==
  ASSUME rows \in SUBSET Row, NEW i \in Nat, i # 0, NEW seed, NEW src, NEW dest, NEW start,
         NEW near, Walked(near, i - 1, seed, src, dest, start)
  PROVE  Walked(Wider(near, i, Turn(i - 1, src, dest), start), i, seed, src, dest, start)
<1> DEFINE d == Turn(i - 1, src, dest)
           D == DOMAIN near
           edge == {m \in D : near[m] = i - 1}
           fresh == (UNION {InTheWay(m, d, start) : m \in edge}) \ D
           far == Wider(near, i, d, start)
<1> HIDE DEF d
<1>1. far = [m \in D \cup fresh |-> IF m \in fresh THEN i ELSE near[m]]
  BY DEF Wider
<1>2. /\ D \subseteq Lessons /\ seed \in D
      /\ \A m \in D : /\ near[m] \in Nat /\ near[m] <= i - 1
                      /\ near[m] < i - 1 =>
                           InTheWay(m, Turn(near[m], src, dest), start) \subseteq D
      /\ (\E m \in D : near[m] = i - 1) => i - 1 < Cardinality(D)
  BY DEF Walked
<1>3. fresh \subseteq Lessons /\ fresh \cap D = {}
  <2>1. \A m : InTheWay(m, d, start) \subseteq Lessons
    BY InTheWayType
  <2> QED
    BY <2>1
<1>4. \A m \in edge : InTheWay(m, d, start) \subseteq D \cup fresh
  OBVIOUS
<1>5. fresh # {} => \E m \in D : near[m] = i - 1
  OBVIOUS
<1>6. edge = {m \in D : near[m] = i - 1}
  OBVIOUS
<1> HIDE DEF far, fresh, edge, D
<1>7. DOMAIN far = D \cup fresh /\ \A m \in D \cup fresh : far[m] = IF m \in fresh THEN i ELSE near[m]
  BY <1>1
<1>8. ASSUME NEW m \in D \cup fresh
      PROVE  /\ far[m] \in Nat /\ far[m] <= i
             /\ far[m] < i => InTheWay(m, Turn(far[m], src, dest), start) \subseteq D \cup fresh
  <2>1. CASE m \in fresh
    BY <1>7, <2>1
  <2>2. CASE m \notin fresh
    <3>1. m \in D /\ far[m] = near[m] /\ near[m] \in Nat /\ near[m] <= i - 1
      BY <1>2, <1>7, <2>2
    <3>2. CASE near[m] < i - 1
      BY <1>2, <3>1, <3>2
    <3>3. CASE near[m] = i - 1
      <4>1. m \in edge
        BY <1>6, <3>1, <3>3
      <4>2. InTheWay(m, Turn(near[m], src, dest), start) \subseteq D \cup fresh
        BY <1>4, <3>3, <4>1 DEF d
      <4> QED
        BY <3>1, <4>2
    <3> QED
      BY <3>1, <3>2, <3>3
  <2> QED
    BY <2>1, <2>2
<1>9. ASSUME NEW m \in D \cup fresh, far[m] = i PROVE i < Cardinality(D \cup fresh)
  <2>1. m \in fresh
    BY <1>2, <1>7, <1>9
  <2>2. i - 1 < Cardinality(D)
    BY <1>2, <1>5, <2>1
  <2>3. IsFiniteSet(D) /\ IsFiniteSet(fresh)
    BY <1>2, <1>3, FS_Subset, ProblemAssumption
  <2>4. /\ Cardinality(D \cup fresh) = Cardinality(D) + Cardinality(fresh)
        /\ Cardinality(D) \in Nat /\ Cardinality(fresh) \in Nat
    BY <1>3, <2>3, SizeOfUnion
  <2>5. Cardinality(fresh) # 0
    BY <2>1, <2>3, SizeZero
  <2> QED
    BY <2>2, <2>4, <2>5
<1>10. Walked(far, i, seed, src, dest, start)
  BY <1>2, <1>3, <1>7, <1>8, <1>9 DEF Walked
<1> QED
  BY <1>10 DEF far, d

\* The whole walk.
LEMMA WalkedAll ==
  ASSUME rows \in SUBSET Row, NEW n \in Nat, NEW seed \in Lessons, NEW src, NEW dest, NEW start,
         NEW g, Growth(g, n, seed, src, dest, start)
  PROVE  Walked(g[n], n, seed, src, dest, start)
<1> DEFINE W(k) == Walked(g[k], k, seed, src, dest, start)
           T == {k \in 0..n : ~W(k)}
<1>0. \A k \in 0..n : g[k] = IF k = 0 THEN [m \in {seed} |-> 0]
                             ELSE Wider(g[k - 1], k, Turn(k - 1, src, dest), start)
  BY DEF Growth
<1> SUFFICES ASSUME T # {} PROVE FALSE
  OBVIOUS
<1>1. T \in SUBSET Nat
  OBVIOUS
<1>2. PICK k \in T : k = 0 \/ k - 1 \notin T
  BY <1>1, FirstOf
<1>3. CASE k = 0
  <2>1. g[0] = [m \in {seed} |-> 0]
    BY <1>0
  <2> DEFINE near == g[0]
  <2>2. DOMAIN near = {seed} /\ near[seed] = 0
    BY <2>1
  <2> HIDE DEF near
  <2>3. Cardinality({seed}) = 1
    BY FS_Singleton
  <2>4. Walked(near, 0, seed, src, dest, start)
    BY <2>2, <2>3 DEF Walked
  <2> QED
    BY <1>2, <1>3, <2>4 DEF near
<1>4. CASE k # 0
  <2>1. k \in Nat /\ k \in 0..n /\ k - 1 \in 0..n
    BY <1>4
  <2>2. W(k - 1)
    BY <1>2, <1>4, <2>1
  <2>3. g[k] = Wider(g[k - 1], k, Turn(k - 1, src, dest), start)
    BY <1>0, <1>4, <2>1
  <2>4. W(k)
    BY <1>4, <2>1, <2>2, <2>3, WalkOn
  <2> QED
    BY <1>2, <2>4
<1> QED
  BY <1>3, <1>4

\* A chain is closed: whoever is in the way of a member, on the day that the
\* member moves to, is a member.
LEMMA ChainClosed ==
  ASSUME rows \in SUBSET Row, NEW seed \in Lessons, NEW src, NEW dest, NEW start,
         NEW to, to = ChainFrom(seed, src, dest, start)
  PROVE  /\ DOMAIN to \subseteq Lessons /\ seed \in DOMAIN to
         /\ \A m \in DOMAIN to : /\ to[m] \in {src, dest}
                                 /\ InTheWay(m, to[m], start) \subseteq DOMAIN to
<1> DEFINE N == Cardinality(Lessons)
<1>1. N \in Nat
  BY FS_CardinalityType, ProblemAssumption
<1>2. PICK g : /\ Growth(g, N, seed, src, dest, start)
               /\ to = [m \in DOMAIN g[N] |-> Turn(g[N][m], src, dest)]
  BY ChainIsGrowth
<1> DEFINE near == g[N]
<1> HIDE DEF N, near
<1>3. Walked(near, N, seed, src, dest, start)
  BY <1>1, <1>2, WalkedAll DEF near
<1>4. DOMAIN to = DOMAIN near /\ \A m \in DOMAIN near : to[m] = Turn(near[m], src, dest)
  BY <1>2 DEF near
<1>5. ASSUME NEW m \in DOMAIN near PROVE near[m] < N
  <2>1. near[m] \in Nat /\ near[m] <= N
    BY <1>3 DEF Walked
  <2>2. Cardinality(DOMAIN near) <= N /\ Cardinality(DOMAIN near) \in Nat
    BY <1>3, FS_Subset, FS_CardinalityType, ProblemAssumption DEF Walked, N
  <2>3. near[m] # N
    BY <1>1, <1>3, <2>2 DEF Walked
  <2> QED
    BY <1>1, <2>1, <2>3
<1> QED
  BY <1>3, <1>4, <1>5 DEF Walked, Turn

-----------------------------------------------------------------------------
(* The invariant.                                                           *)

\* What does not take part, what a rollback goes back to, and the rows of
\* members that have their new place already.
Staying == rows \ chain.added
Before == Staying \cup chain.ruined
Resettled == {r \in chain.ruined : r.lesson \notin chain.todo}

\* Who takes part.
Members == DOMAIN chain.day

\* The rows the attempt remembers.
ChainRows ==
    /\ chain.ruined \in SUBSET Row /\ chain.added \in SUBSET rows
    /\ Staying \cap chain.ruined = {}
    /\ \A r \in chain.ruined : r.lesson \in Members
    /\ \A m \in Members : Cardinality(RowsOf(chain.ruined, m)) = BlockSize[m]
    /\ \A r \in chain.added : /\ r.lesson \in Members \ chain.todo
                              /\ Day(r.slot) = chain.day[r.lesson]
    /\ SameHours(Resettled, chain.added)

\* Nobody is in a member's way: not another member of the same day, and not a
\* row that stays.
ClearWay ==
    /\ chain.todo \subseteq Members /\ Members \subseteq Lessons \ Frozen
    /\ chain.start \in Nat
    /\ \A m \in Members : Window(Target(m), BlockSize[m]) \subseteq Slots
    /\ \A k, m \in Members : k # m /\ chain.day[k] = chain.day[m] => ~Conflict(k, m)
    /\ \A m \in Members, q \in Staying :
         q.lesson # m /\ q.slot \in Window(Target(m), BlockSize[m]) => ~Conflict(m, q.lesson)

\* A rollback goes back to a schedule that was in order.
SoundBefore ==
    /\ Orderly(Before) /\ LocksHold(Before, tally.teacherLock)
    /\ Passing(Before) /\ LocksLive(Before, tally.teacherLock)

\* The record has the fields it begins with.
ChainShape ==
    chain = [day |-> chain.day, start |-> chain.start, todo |-> chain.todo,
             ruined |-> chain.ruined, added |-> chain.added, slice |-> chain.slice,
             cost |-> chain.cost, lessons |-> chain.lessons]

\* What holds half way through an attempt.
UnderWay ==
    /\ phase = "search" /\ ChainShape /\ ChainRows /\ ClearWay /\ SoundBefore
    /\ Tiled(rows) /\ SubjectCaps(rows) /\ Passing(best)

\* Between attempts everything the search promises; within one, that what is
\* left of the swap can be finished and can be taken back.
KempeInv ==
    /\ Inv
    /\ ~Swapping => VInv
    /\ Swapping => UnderWay

-----------------------------------------------------------------------------
(* Who teaches a lesson during a chain.                                     *)

\* The teacher of a row is the locked one.
LEMMA TeacherIsRows ==
  ASSUME NEW R \in SUBSET Row, LocksHold(R, tally.teacherLock), NEW r \in R
  PROVE  TeacherNow(r.lesson) = r.teacher
<1>1. r \in Row /\ r.teacher \in Teachers /\ r.teacher # NoTeacher /\ ClassesOf[r.lesson] # {}
  BY RowTriple, ProblemAssumption
<1>2. \A c \in ClassesOf[r.lesson] : tally.teacherLock[<<c, SubjectOf[r.lesson]>>] = r.teacher
  BY DEF LocksHold
<1>3. LockedTeachers(r.lesson) = {r.teacher}
  BY <1>1, <1>2 DEF LockedTeachers
<1> DEFINE L == LockedTeachers(r.lesson)
<1>4. (CHOOSE t \in L : TRUE) = r.teacher
  BY <1>3
<1> QED
  BY <1>3, <1>4 DEF TeacherNow

\* While the teacher locks stay, so do the conflicts.
LEMMA SameConflicts ==
  ASSUME tally'.teacherLock = tally.teacherLock
  PROVE  \A k, m : Conflict(k, m)' <=> Conflict(k, m)
<1>1. \A k : TeacherNow(k)' = TeacherNow(k)
  BY Zenon DEF TeacherNow, LockedTeachers
<1> QED
  BY <1>1, Zenon DEF Conflict

\* Rows without a conflict do not clash in a slot.
LEMMA NoConflictNoClash ==
  ASSUME NEW R \in SUBSET Row, LocksHold(R, tally.teacherLock), NEW r \in R,
         NEW l, ~Conflict(l, r.lesson)
  PROVE  r.teacher # TeacherNow(l) /\ ClassesOf[r.lesson] \cap ClassesOf[l] = {}
<1>1. TeacherNow(r.lesson) = r.teacher
  BY TeacherIsRows
<1> QED
  BY <1>1 DEF Conflict

\* Conflicts go both ways.
LEMMA ConflictsMutual == \A k, m : Conflict(k, m) => Conflict(m, k)
BY DEF Conflict

-----------------------------------------------------------------------------
(* Hours that moved, put together.                                          *)

\* To begin with, none.
LEMMA NoHoursMoved == SameHours({}, {})
<1> DEFINE f == [x \in {} |-> x]
<1>1. f \in [{} -> {}]
  OBVIOUS
<1>2. f \in Bijection({}, {})
  BY <1>1, Fun_IsBij
<1> QED
  BY <1>2 DEF SameHours

\* Two moves of disjoint rows to disjoint places.
LEMMA BothSameHours ==
  ASSUME NEW A, NEW B, SameHours(A, B), NEW C, NEW D, SameHours(C, D),
         A \cap C = {}, B \cap D = {}
  PROVE  SameHours(A \cup C, B \cup D)
<1>1. PICK f \in Bijection(A, B) : \A r \in A : f[r].lesson = r.lesson /\ f[r].teacher = r.teacher
  BY DEF SameHours
<1>2. PICK h \in Bijection(C, D) : \A r \in C : h[r].lesson = r.lesson /\ h[r].teacher = r.teacher
  BY DEF SameHours
<1>3. /\ f \in [A -> B] /\ \A r, q \in A : f[r] = f[q] => r = q
      /\ \A q \in B : \E r \in A : f[r] = q
  BY <1>1 DEF Bijection, Injection, Surjection, IsInjective
<1>4. /\ h \in [C -> D] /\ \A r, q \in C : h[r] = h[q] => r = q
      /\ \A q \in D : \E r \in C : h[r] = q
  BY <1>2 DEF Bijection, Injection, Surjection, IsInjective
<1> DEFINE S == A \cup C
           T == B \cup D
           g == [r \in S |-> IF r \in A THEN f[r] ELSE h[r]]
<1>5. \A r \in A : g[r] = f[r]
  OBVIOUS
<1>6. \A r \in C : g[r] = h[r]
  OBVIOUS
<1>7. g \in [S -> T]
  BY <1>3, <1>4
<1> HIDE DEF g
<1>8. \A r, q \in S : g[r] = g[q] => r = q
  BY <1>3, <1>4, <1>5, <1>6
<1>9. \A q \in T : \E r \in S : g[r] = q
  BY <1>3, <1>4, <1>5, <1>6
<1>10. \A r \in S : g[r].lesson = r.lesson /\ g[r].teacher = r.teacher
  BY <1>1, <1>2, <1>5, <1>6
<1> HIDE DEF S, T
<1>11. g \in Bijection(S, T)
  BY <1>7, <1>8, <1>9, Fun_IsBij
<1>12. SameHours(S, T)
  BY <1>10, <1>11 DEF SameHours
<1> QED
  BY <1>12 DEF S, T

-----------------------------------------------------------------------------
(* The members leave.                                                       *)

\* What KempeRuin finds: a chain that may swap, and the rows of its members on
\* the days they leave.
Departs(l, src, dest, start, to, R) ==
    /\ src \in Days /\ dest \in Days /\ src # dest /\ start \in Nat
    /\ to = ChainFrom(l, src, dest, start)
    /\ R = RowsLeaving(to, src, dest)
    /\ CanSwap(to, start, [m \in DOMAIN to |-> IF to[m] = dest THEN src ELSE dest])

\* A ruin takes a departing chain's rows out of the schedule and its books.
LEMMA RuinDeparts ==
  ASSUME rows \in SUBSET Row, NEW l, KempeRuin(l)
  PROVE  \E src, dest, start, to, R :
           /\ Departs(l, src, dest, start, to, R)
           /\ rows' = rows \ R /\ used' = Vacate(used, R) /\ Book(R, {})
           /\ tally' = FewerLessons(CountOut(tally, R), BlocksOf(R), 1)
           /\ chain' = [day |-> to, start |-> start,
                        todo |-> DOMAIN to, ruined |-> R, added |-> {},
                        slice |-> RunningSlice, cost |-> RunningCost,
                        lessons |-> tally.lessonsOn]
<1>1. PICK x \in Seeds(l) :
        LET src == Day(x[1].slot)
            dest == x[2]
            start == Pos(x[1].slot)
            to == ChainFrom(l, src, dest, start)
            R == RowsLeaving(to, src, dest)
        IN  /\ CanSwap(to, start, [m \in DOMAIN to |-> IF to[m] = dest THEN src ELSE dest])
            /\ rows' = rows \ R
            /\ used' = Vacate(used, R)
            /\ tally' = FewerLessons(CountOut(tally, R), BlocksOf(R), 1)
            /\ Book(R, {})
            /\ chain' = [day |-> to, start |-> start,
                         todo |-> DOMAIN to, ruined |-> R, added |-> {},
                         slice |-> RunningSlice, cost |-> RunningCost,
                         lessons |-> tally.lessonsOn]
  BY DEF KempeRuin
<1>2. x[1] \in Row /\ x[2] \in Days /\ x[2] # Day(x[1].slot)
  BY DEF Seeds
<1>3. x[1].slot \in Slots
  BY <1>2 DEF Row
<1>4. Day(x[1].slot) \in Days /\ Pos(x[1].slot) \in Nat
  BY <1>3, ProblemAssumption DEF Days, Pos
<1> DEFINE src == Day(x[1].slot)
           dest == x[2]
           start == Pos(x[1].slot)
           to == ChainFrom(l, src, dest, start)
           R == RowsLeaving(to, src, dest)
<1>5. Departs(l, src, dest, start, to, R)
  BY ONLY <1>1, <1>2, <1>4, Zenon DEF Departs
<1>6. /\ rows' = rows \ R /\ used' = Vacate(used, R) /\ Book(R, {})
      /\ tally' = FewerLessons(CountOut(tally, R), BlocksOf(R), 1)
      /\ chain' = [day |-> to, start |-> start,
                   todo |-> DOMAIN to, ruined |-> R, added |-> {},
                   slice |-> RunningSlice, cost |-> RunningCost,
                   lessons |-> tally.lessonsOn]
  BY ONLY <1>1, Zenon
<1> HIDE DEF src, dest, start, to, R
<1> QED
  BY ONLY <1>5, <1>6, Zenon

\* The rows that leave are whole blocks of members, one each, and nobody that
\* stays is in the way.
LEMMA LeavingRows ==
  ASSUME rows \in SUBSET Row, NEW l \in Lessons, NEW src, NEW dest, NEW start, NEW to, NEW R,
         Departs(l, src, dest, start, to, R)
  PROVE  /\ R \in SUBSET rows /\ R # {}
         /\ DOMAIN to \subseteq Lessons \ Frozen /\ start \in Nat
         /\ \A r \in R : r.lesson \in DOMAIN to
         /\ \A m \in DOMAIN to :
              /\ \E d : RowsOf(R, m) = RowsOfOn(rows, m, d)
              /\ Cardinality(RowsOf(R, m)) = BlockSize[m]
              /\ Window(<<to[m], start>>, BlockSize[m]) \subseteq Slots
         /\ \A k, m \in DOMAIN to : k # m /\ to[k] = to[m] => ~Conflict(k, m)
         /\ \A m \in DOMAIN to, q \in rows \ R :
              q.lesson # m /\ q.slot \in Window(<<to[m], start>>, BlockSize[m])
                => ~Conflict(m, q.lesson)
<1> DEFINE from(m) == IF to[m] = dest THEN src ELSE dest
           leaving(m) == RowsOfOn(rows, m, from(m))
           away == [m \in DOMAIN to |-> from(m)]
<1>1. /\ DOMAIN to \subseteq Lessons /\ l \in DOMAIN to
      /\ \A m \in DOMAIN to : /\ to[m] \in {src, dest}
                              /\ InTheWay(m, to[m], start) \subseteq DOMAIN to
  BY ChainClosed DEF Departs
<1>2. R = UNION {leaving(m) : m \in DOMAIN to} /\ src # dest /\ start \in Nat
  BY DEF Departs, RowsLeaving
<1>3. CanSwap(to, start, away)
  BY Zenon DEF Departs
<1>4. \A m \in DOMAIN to : away[m] = from(m)
  OBVIOUS
<1>5. ASSUME NEW m \in DOMAIN to
      PROVE  /\ m \notin Frozen /\ Window(<<to[m], start>>, BlockSize[m]) \subseteq Slots
             /\ Cardinality(leaving(m)) = BlockSize[m]
             /\ \A k \in DOMAIN to : k # m /\ to[k] = to[m] => ~Conflict(k, m)
  <2> HIDE DEF away
  <2>1. Cardinality(RowsOfOn(rows, m, away[m])) = BlockSize[m]
    BY <1>3 DEF CanSwap
  <2> QED
    BY <1>3, <1>4, <2>1 DEF CanSwap
<1>6. \A r : r \in R <=> r \in rows /\ r.lesson \in DOMAIN to /\ Day(r.slot) = from(r.lesson)
  BY <1>2 DEF RowsOfOn
<1>7. ASSUME NEW m \in DOMAIN to PROVE RowsOf(R, m) = leaving(m)
  BY <1>6 DEF RowsOf, RowsOfOn
<1>8. BlockSize[l] # 0 /\ Cardinality({}) = 0
  BY <1>1, BlockSizes, FS_EmptySet
<1>9. R # {}
  <2>1. leaving(l) # {}
    BY <1>1, <1>5, <1>8
  <2> QED
    BY <1>1, <1>2, <2>1
<1>10. ASSUME NEW m \in DOMAIN to, NEW q \in rows \ R, q.lesson # m,
              q.slot \in Window(<<to[m], start>>, BlockSize[m]), Conflict(m, q.lesson)
       PROVE  FALSE
  <2>1. q.lesson \in InTheWay(m, to[m], start)
    BY <1>10 DEF InTheWay
  <2>2. q.lesson \in DOMAIN to
    BY <1>1, <2>1
  <2>3. to[q.lesson] # to[m]
    BY <1>5, <1>10, <2>2, ConflictsMutual
  <2>4. from(q.lesson) = to[m]
    BY <1>1, <1>2, <2>2, <2>3
  <2>5. Day(q.slot) = to[m]
    BY <1>10 DEF Window, Day
  <2> QED
    BY <1>6, <1>10, <2>2, <2>4, <2>5
<1> QED
  BY <1>1, <1>2, <1>5, <1>6, <1>7, <1>9, <1>10

\* Taking whole days of lessons away leaves whole blocks.
LEMMA LeavingTiled ==
  ASSUME rows \in SUBSET Row, Tiled(rows), NEW R \in SUBSET rows, NEW M,
         \A r \in R : r.lesson \in M,
         \A m \in M : \E d : RowsOf(R, m) = RowsOfOn(rows, m, d)
  PROVE  Tiled(rows \ R)
<1>1. ASSUME NEW m \in Lessons \ Pinned, NEW d \in Days
      PROVE  RowsOfOn(rows \ R, m, d) \in {{}, RowsOfOn(rows, m, d)}
  <2>1. CASE m \notin M
    BY <2>1 DEF RowsOfOn
  <2>2. CASE m \in M
    <3>1. PICK e : RowsOf(R, m) = RowsOfOn(rows, m, e)
      BY <2>2
    <3>2. \A r : r \in R /\ r.lesson = m <=> r \in rows /\ r.lesson = m /\ Day(r.slot) = e
      BY <3>1 DEF RowsOf, RowsOfOn
    <3>3. CASE d = e
      BY <3>2, <3>3 DEF RowsOfOn
    <3>4. CASE d # e
      BY <3>2, <3>4 DEF RowsOfOn
    <3> QED
      BY <3>3, <3>4
  <2> QED
    BY <2>1, <2>2
<1> QED
  BY <1>1, PartTiled

\* What an attempt's own steps leave alone.
Aside == UNCHANGED <<phase, left, missed, best, attempt>>

\* The schedule half way through a chain.
LEMMA HalfwayInv ==
  ASSUME Inv, phase = "search", Aside, rows' \in SUBSET Row, Orderly(rows'), PinsIn(rows'),
         used' = Occupy(Nobody, rows'), tally' \in TallyType, Counted(rows', tally'),
         LocksHold(rows', tally'.teacherLock)
  PROVE  Inv'
<1>1. used' \in UsedType
  BY UsedTyping, EmptyType
<1>2. TypeOK'
  BY <1>1 DEF Inv, TypeOK, Aside
<1>3. phase' = "search" /\ left' = left /\ best' = best
  BY DEF Aside
<1>4. Mirrored(rows', used', tally')
  BY DEF Mirrored
<1>5. Orderly(best') /\ PinsIn(best') /\ \A l \in Pinned : left'[l] = 0
  BY <1>3 DEF Inv
<1> QED
  BY <1>2, <1>3, <1>4, <1>5 DEF Inv

\* No block of a pinned or grouped lesson leaves.
LEMMA MembersUnpinned ==
  ASSUME NEW R, NEW M, M \subseteq Lessons \ Frozen, \A r \in R : r.lesson \in M
  PROVE  Unpinned(R)
BY DEF Unpinned, Frozen

\* Taking unpinned rows out keeps what the search relies on.
LEMMA RuinInvKept ==
  ASSUME Inv, phase = "search", Aside, NEW R \in SUBSET rows, Unpinned(R),
         rows' = rows \ R, used' = Vacate(used, R),
         tally' = FewerLessons(CountOut(tally, R), BlocksOf(R), 1)
  PROVE  Inv' /\ tally'.teacherLock = tally.teacherLock
<1>1. rows \in SUBSET Row /\ R \in SUBSET Row /\ tally \in TallyType
  BY DEF Inv, TypeOK
<1>2. Orderly(rows) /\ PinsIn(rows) /\ Mirrored(rows, used, tally)
  BY DEF Inv
<1>3. Orderly(rows')
  BY <1>2, PartOfSound DEF Orderly
<1>4. used' = Occupy(Nobody, rows')
  BY <1>1, <1>2, VacateMirror DEF Mirrored, Orderly
<1> DEFINE b == CountOut(tally, R)
           Bs == BlocksOf(R)
<1>5. b \in TallyType /\ Counted(rows', b) /\ b.teacherLock = tally.teacherLock
  BY <1>1, <1>2, CountType, CountOutMirror, CountFields DEF Mirrored
<1>6. Bs \in SUBSET SUBSET Row
  BY <1>1 DEF BlocksOf, RowsOfOn
<1> HIDE DEF b, Bs
<1>7. /\ FewerLessons(b, Bs, 1) \in TallyType /\ Counted(rows', FewerLessons(b, Bs, 1))
      /\ FewerLessons(b, Bs, 1).teacherLock = tally.teacherLock
  BY <1>5, <1>6, LessonsType, CountedSame
<1>8. tally' = FewerLessons(b, Bs, 1)
  BY DEF b, Bs
<1>9. LocksHold(rows', tally'.teacherLock)
  BY <1>2, <1>7, <1>8 DEF Mirrored, LocksHold
<1>10. PinsIn(rows')
  <2>1. rows' = (rows \ R) \cup {} /\ Unpinned({})
    BY DEF Unpinned
  <2> QED
    BY <1>2, <2>1, PinsKept
<1>11. rows' \in SUBSET Row
  BY <1>1
<1>12. Inv'
  BY <1>3, <1>4, <1>7, <1>8, <1>9, <1>10, <1>11, HalfwayInv
<1> QED
  BY <1>7, <1>8, <1>12

\* A chain starts from a schedule in order.
LEMMA RuinKempeInv ==
  ASSUME KempeInv, NEW l \in Lessons, KempeRuin(l)
  PROVE  KempeInv'
<1>1. Inv /\ VInv /\ phase = "search" /\ Aside
  BY DEF KempeInv, KempeRuin, Aside
<1>2. /\ rows \in SUBSET Row /\ Orderly(rows) /\ LocksHold(rows, tally.teacherLock)
      /\ Passing(rows) /\ LocksLive(rows, tally.teacherLock) /\ Passing(best)
  BY <1>1 DEF Inv, TypeOK, VInv, Mirrored
<1>3. PICK src, dest, start, to, R :
        /\ Departs(l, src, dest, start, to, R)
        /\ rows' = rows \ R /\ used' = Vacate(used, R) /\ Book(R, {})
        /\ tally' = FewerLessons(CountOut(tally, R), BlocksOf(R), 1)
        /\ chain' = [day |-> to, start |-> start,
                     todo |-> DOMAIN to, ruined |-> R, added |-> {},
                     slice |-> RunningSlice, cost |-> RunningCost,
                     lessons |-> tally.lessonsOn]
  BY <1>2, RuinDeparts
<1>4. /\ R \in SUBSET rows /\ R # {}
      /\ DOMAIN to \subseteq Lessons \ Frozen /\ start \in Nat
      /\ \A r \in R : r.lesson \in DOMAIN to
      /\ \A m \in DOMAIN to :
           /\ \E d : RowsOf(R, m) = RowsOfOn(rows, m, d)
           /\ Cardinality(RowsOf(R, m)) = BlockSize[m]
           /\ Window(<<to[m], start>>, BlockSize[m]) \subseteq Slots
      /\ \A k, m \in DOMAIN to : k # m /\ to[k] = to[m] => ~Conflict(k, m)
      /\ \A m \in DOMAIN to, q \in rows \ R :
           q.lesson # m /\ q.slot \in Window(<<to[m], start>>, BlockSize[m])
             => ~Conflict(m, q.lesson)
  BY <1>2, <1>3, LeavingRows
<1>5. Unpinned(R)
  BY <1>4, MembersUnpinned
<1>6. Inv' /\ tally'.teacherLock = tally.teacherLock
  BY <1>1, <1>3, <1>4, <1>5, RuinInvKept
<1>7. /\ chain'.day = to /\ chain'.start = start /\ chain'.todo = DOMAIN to
      /\ chain'.ruined = R /\ chain'.added = {} /\ ChainShape'
  BY <1>3 DEF ChainShape
<1>8. /\ Staying' = rows \ R /\ Before' = rows /\ Resettled' = {} /\ Members' = DOMAIN to
      /\ \A m : Target(m)' = <<to[m], start>>
  BY <1>3, <1>4, <1>7 DEF Staying, Before, Resettled, Members, Target
<1>9. ChainRows'
  <2>1. SameHours(Resettled', chain'.added)
    BY <1>7, <1>8, NoHoursMoved
  <2> QED
    BY <1>2, <1>4, <1>7, <1>8, <2>1 DEF ChainRows
<1>10. ClearWay'
  <2>1. \A k, m : Conflict(k, m)' <=> Conflict(k, m)
    BY <1>6, SameConflicts
  <2> QED
    BY <1>4, <1>7, <1>8, <2>1 DEF ClearWay
<1>11. SoundBefore'
  BY <1>2, <1>6, <1>8 DEF SoundBefore
<1>12. Tiled(rows') /\ SubjectCaps(rows')
  BY <1>2, <1>3, <1>4, LeavingTiled, PartPassing DEF Passing
<1>13. phase' = "search" /\ Passing(best') /\ chain'.ruined # {}
  BY <1>1, <1>2, <1>4, <1>7 DEF Aside
<1> QED
  BY <1>6, <1>7, <1>9, <1>10, <1>11, <1>12, <1>13 DEF KempeInv, UnderWay, Swapping

-----------------------------------------------------------------------------
(* A member lands.                                                          *)

\* A member still taught by whoever taught the rows it left.
LEMMA MemberTeacher ==
  ASSUME Inv, UnderWay, NEW l \in Members
  PROVE  /\ TeacherNow(l) \in Teachers
         /\ \A r \in RowsOf(chain.ruined, l) : r.lesson = l /\ r.teacher = TeacherNow(l)
         /\ IsFiniteSet(RowsOf(chain.ruined, l))
<1>1. /\ chain.ruined \in SUBSET Row /\ Cardinality(RowsOf(chain.ruined, l)) = BlockSize[l]
      /\ l \in Lessons
  BY DEF UnderWay, ChainRows, ClearWay
<1>2. Before \in SUBSET Row /\ chain.ruined \subseteq Before
  BY <1>1 DEF Inv, TypeOK, Before, Staying
<1>3. LocksHold(Before, tally.teacherLock)
  BY DEF UnderWay, SoundBefore
<1>4. \A r \in RowsOf(chain.ruined, l) : r.lesson = l /\ r.teacher = TeacherNow(l)
  BY <1>2, <1>3, TeacherIsRows DEF RowsOf
<1>5. RowsOf(chain.ruined, l) # {}
  <2>1. BlockSize[l] # 0 /\ Cardinality({}) = 0
    BY <1>1, BlockSizes, FS_EmptySet
  <2> QED
    BY <1>1, <2>1
<1>6. PICK r \in RowsOf(chain.ruined, l) : r \in Row
  BY <1>1, <1>5 DEF RowsOf
<1>7. r.teacher \in Teachers
  BY <1>6, RowTriple
<1>8. RowsOf(chain.ruined, l) \in SUBSET Row
  BY <1>1 DEF RowsOf
<1> QED
  BY <1>4, <1>6, <1>7, <1>8, ScheduleFinite

\* The room that is picked is the one that the class has on that day.
LEMMA LandingRoom ==
  ASSUME Inv, phase = "search", NEW l, NEW room \in KempeRooms(l)
  PROVE  /\ room \in Rooms /\ RoomFits(l, room, Window(Target(l), BlockSize[l]))
         /\ \A r \in rows : /\ Day(r.slot) = chain.day[l]
                            /\ SubjectOf[r.lesson] = SubjectOf[l]
                            /\ ClassesOf[r.lesson] \cap ClassesOf[l] # {}
                            => r.room = room
<1> DEFINE W == Window(Target(l), BlockSize[l])
           old == (CHOOSE r \in RowsOf(chain.ruined, l) : TRUE).room
           held == {tally.lockRoom[x] : x \in {k \in LockKeys(l, chain.day[l]) : tally.lock[k] > 0}}
           fits == {q \in Rooms : RoomFits(l, q, W)}
<1>1. KempeRooms(l) = IF held # {} THEN {q \in fits : held = {q}}
                      ELSE IF old \in fits THEN {old} ELSE fits
  BY Zenon DEF KempeRooms
<1>2. \A x \in LockKeys(l, chain.day[l]) : tally.lock[x] > 0 => tally.lockRoom[x] \in held
  OBVIOUS
<1>3. \A q \in fits : q \in Rooms /\ RoomFits(l, q, W)
  OBVIOUS
<1> HIDE DEF W, old, held, fits
<1>4. room \in fits /\ \A q \in held : q = room
  BY <1>1
<1>5. Mirrored(rows, used, tally) /\ rows \in SUBSET Row
  BY DEF Inv, TypeOK
<1>6. ASSUME NEW r \in rows, Day(r.slot) = chain.day[l], SubjectOf[r.lesson] = SubjectOf[l],
             NEW c \in ClassesOf[r.lesson], c \in ClassesOf[l]
      PROVE  r.room = room
  <2> DEFINE x == <<c, Day(r.slot), SubjectOf[r.lesson]>>
  <2>1. x \in Triples /\ r \in TripleRows(rows, x[1], x[2], x[3]) /\ TripleCount(rows, x) # 0
    BY <1>5, SharedTriple
  <2>2. x \in LockKeys(l, chain.day[l])
    BY <1>6 DEF LockKeys
  <2>3. tally.lockRoom[x] = r.room /\ tally.lock[x] = TripleCount(rows, x)
    BY <1>5, <2>1 DEF Mirrored, Counted
  <2>4. TripleCount(rows, x) \in Nat
    BY <1>5, <2>1, EmptyTriple
  <2>5. tally.lock[x] > 0
    BY <2>1, <2>3, <2>4
  <2> QED
    BY <1>2, <1>4, <2>2, <2>3, <2>5
<1> QED
  BY <1>3, <1>4, <1>6 DEF W

\* The place that a member moves to.
LEMMA TargetSlot ==
  ASSUME UnderWay, NEW l \in Members
  PROVE  /\ l \in Lessons /\ Target(l) \in Slots /\ Day(Target(l)) = chain.day[l]
         /\ Window(Target(l), BlockSize[l]) \subseteq Slots
         /\ \A w \in Window(Target(l), BlockSize[l]) : Day(w) = chain.day[l]
<1>1. l \in Lessons /\ chain.start \in Nat /\ Window(Target(l), BlockSize[l]) \subseteq Slots
  BY DEF UnderWay, ClearWay
<1>2. BlockSize[l] \in Nat \ {0}
  BY <1>1, BlockSizes
<1>3. <<chain.day[l], chain.start + 0>> \in Window(Target(l), BlockSize[l])
  <2>1. 0 \in 0..(BlockSize[l] - 1)
    BY <1>2
  <2> QED
    BY <2>1 DEF Window, Target, Day, Pos
<1>4. chain.start + 0 = chain.start
  BY <1>1
<1> QED
  BY <1>1, <1>3, <1>4 DEF Target, Day, Window

\* What a block must find.
FreeFor(R, l, s, room, t) ==
    /\ \A r \in R : r.slot \in Window(s, BlockSize[l]) =>
         r.teacher # t /\ r.room # room /\ ClassesOf[r.lesson] \cap ClassesOf[l] = {}
    /\ \A r \in R : /\ Day(r.slot) = Day(s)
                     /\ SubjectOf[r.lesson] = SubjectOf[l]
                     /\ ClassesOf[r.lesson] \cap ClassesOf[l] # {}
                     => r.room = room

\* A block that finds it joins the schedule.
LEMMA AddFreeBlock ==
  ASSUME NEW R \in SUBSET Row, Orderly(R),
         NEW l \in Lessons, NEW s \in Slots, NEW room \in Rooms, NEW t \in Teachers,
         Window(s, BlockSize[l]) \subseteq Slots, FreeFor(R, l, s, room, t),
         NEW B, B = Block(l, s, room, t)
  PROVE  Orderly(R \cup B) /\ R \cap B = {}
BY AddBlockOrderly DEF FreeFor

\* Whoever was in the way has left, so the block finds its teacher and its
\* classes free although the step does not look.
LEMMA Landing ==
  ASSUME Inv, UnderWay, NEW l \in chain.todo, NEW room \in KempeRooms(l),
         NEW B, B = Block(l, Target(l), room, TeacherNow(l))
  PROVE  B \in SUBSET Row /\ Orderly(rows \cup B) /\ rows \cap B = {}
<1> DEFINE W == Window(Target(l), BlockSize[l])
           t == TeacherNow(l)
<1>1. l \in Members /\ phase = "search"
  BY DEF UnderWay, ClearWay
<1>2. /\ l \in Lessons /\ Target(l) \in Slots /\ Day(Target(l)) = chain.day[l] /\ W \subseteq Slots
      /\ \A w \in W : Day(w) = chain.day[l]
  BY <1>1, TargetSlot
<1>3. /\ room \in Rooms /\ RoomFits(l, room, W)
      /\ \A r \in rows : /\ Day(r.slot) = chain.day[l]
                         /\ SubjectOf[r.lesson] = SubjectOf[l]
                         /\ ClassesOf[r.lesson] \cap ClassesOf[l] # {}
                         => r.room = room
  BY <1>1, LandingRoom
<1>4. t \in Teachers
  BY <1>1, MemberTeacher
<1>5. /\ rows \in SUBSET Row /\ Orderly(rows) /\ used = Occupy(Nobody, rows)
      /\ LocksHold(rows, tally.teacherLock)
  BY <1>1 DEF Inv, TypeOK, Mirrored
<1>6. ASSUME NEW r \in rows, r.slot \in W
      PROVE  r.teacher # t /\ r.room # room /\ ClassesOf[r.lesson] \cap ClassesOf[l] = {}
  <2>1. <<r.room, r.slot>> \in used.room
    BY <1>5, FreeKeys
  <2>2. r.room # room
    BY <1>3, <1>6, <2>1 DEF RoomFits
  <2>3. r.lesson # l
    <3>1. ClassesOf[r.lesson] # {}
      BY <1>5, RowTriple
    <3> QED
      BY <1>2, <1>3, <1>6, <2>2, <3>1
  <2>4. CASE r \in chain.added
    <3>1. r.lesson \in Members /\ chain.day[r.lesson] = chain.day[l]
      BY <1>2, <1>6, <2>4 DEF UnderWay, ChainRows
    <3>2. ~Conflict(l, r.lesson)
      BY <1>1, <2>3, <3>1 DEF UnderWay, ClearWay
    <3> QED
      BY <1>5, <2>2, <3>2, NoConflictNoClash
  <2>5. CASE r \in Staying
    <3>1. ~Conflict(l, r.lesson)
      BY <1>1, <1>6, <2>3, <2>5 DEF UnderWay, ClearWay
    <3> QED
      BY <1>5, <2>2, <3>1, NoConflictNoClash
  <2> QED
    BY <2>4, <2>5 DEF Staying
<1>7. B \in SUBSET Row
  BY <1>2, <1>3, <1>4, BlockType
<1>8. /\ Target(l) \in Slots /\ room \in Rooms /\ t \in Teachers /\ l \in Lessons
      /\ Window(Target(l), BlockSize[l]) \subseteq Slots /\ rows \in SUBSET Row /\ Orderly(rows)
  BY <1>2, <1>3, <1>4, <1>5
<1>9. FreeFor(rows, l, Target(l), room, t)
  BY <1>2, <1>3, <1>6 DEF FreeFor
<1>10. B = Block(l, Target(l), room, t)
  OBVIOUS
<1> HIDE DEF W, t
<1>11. Orderly(rows \cup B) /\ rows \cap B = {}
  BY ONLY <1>8, <1>9, <1>10, AddFreeBlock
<1> QED
  BY <1>7, <1>11

\* No subject gets more hours on a day than its cap.
LEMMA LandingCaps ==
  ASSUME rows \in SUBSET Row, Mirrored(rows, used, tally), SubjectCaps(rows),
         NEW l \in Lessons, NEW s \in Slots, NEW room, NEW t, NEW B \in SUBSET Row,
         B = Block(l, s, room, t), rows \cap B = {}, UnderCaps(l, Day(s), BlockSize[l], 1)
  PROVE  SubjectCaps(rows \cup B)
<1> DEFINE n == BlockSize[l]
           S == rows \cup B
<1>0. Grows(rows, B, l, Day(s), t)
  BY BlockCounts
<1>1. \A x \in Triples :
        /\ TripleCount(S, x) = TripleCount(rows, x) + (IF x \in LockKeys(l, Day(s)) THEN n ELSE 0)
        /\ TripleCount(rows, x) \in Nat
  BY <1>0 DEF Grows
<1>2. \A x \in Triples : /\ TripleCount(rows, x) <= SubjectCap[x[3]]
                         /\ tally.subjectHours[x] = TripleCount(rows, x)
  BY TripleCaps DEF Mirrored, Counted
<1>3. ASSUME NEW x \in LockKeys(l, Day(s))
      PROVE  tally.subjectHours[x] + n <= SubjectCap[x[3]]
  <2>1. PICK c \in ClassesOf[l] : x = <<c, Day(s), SubjectOf[l]>>
    BY DEF LockKeys
  <2>2. tally.subjectHours[x] + n <= SubjectCap[SubjectOf[l]]
    BY <2>1 DEF UnderCaps
  <2> QED
    BY <2>1, <2>2
<1> HIDE DEF S, n
<1>4. ASSUME NEW x \in Triples PROVE TripleCount(S, x) <= SubjectCap[x[3]]
  <2>1. CASE x \in LockKeys(l, Day(s))
    <3>1. TripleCount(S, x) = TripleCount(rows, x) + n
      BY <1>1, <2>1
    <3> QED
      BY <1>2, <1>3, <2>1, <3>1
  <2>2. CASE x \notin LockKeys(l, Day(s))
    <3>1. TripleCount(S, x) = TripleCount(rows, x) + 0 /\ TripleCount(rows, x) \in Nat
      BY <1>1, <2>2
    <3>2. TripleCount(S, x) = TripleCount(rows, x)
      BY <3>1
    <3> QED
      BY <1>2, <3>2
  <2> QED
    BY <2>1, <2>2
<1>5. SubjectCaps(S)
  BY <1>4, TripleCaps
<1> QED
  BY <1>5 DEF S

\* The hours that l gave up, and those it gets.
LEMMA LandedHours ==
  ASSUME Inv, UnderWay, NEW l \in chain.todo, NEW room,
         NEW B \in SUBSET Row, B = Block(l, Target(l), room, TeacherNow(l)), rows \cap B = {}
  PROVE  /\ SameHours(Resettled \cup RowsOf(chain.ruined, l), chain.added \cup B)
         /\ \A r \in B : r.lesson = l /\ Day(r.slot) = chain.day[l]
<1>1. l \in Members /\ chain.added \subseteq rows
  BY DEF UnderWay, ClearWay, ChainRows
<1> DEFINE G == RowsOf(chain.ruined, l)
<1>2. /\ IsFiniteSet(G) /\ Cardinality(G) = BlockSize[l]
      /\ \A r \in G : r.lesson = l /\ r.teacher = TeacherNow(l)
  BY <1>1, MemberTeacher DEF UnderWay, ChainRows
<1>3. l \in Lessons /\ Target(l) \in Slots /\ Day(Target(l)) = chain.day[l]
  BY <1>1, TargetSlot
<1>4. /\ IsFiniteSet(B) /\ Cardinality(B) = BlockSize[l]
      /\ \A r \in B : r.lesson = l /\ r.teacher = TeacherNow(l) /\ Day(r.slot) = chain.day[l]
  BY <1>3, BlockOfRows
<1>5. Resettled \cap G = {} /\ chain.added \cap B = {}
  BY <1>1 DEF Resettled, RowsOf
<1>6. SameHours(Resettled, chain.added)
  BY DEF UnderWay, ChainRows
<1> HIDE DEF G
<1>7. SameHours(G, B)
  BY <1>2, <1>4, BlockSameHours
<1>8. SameHours(Resettled \cup G, chain.added \cup B)
  BY <1>5, <1>6, <1>7, BothSameHours
<1> QED
  BY <1>4, <1>8 DEF G

\* The mirrors of the schedule follow.
LEMMA LandingInv ==
  ASSUME Inv, phase = "search", Aside, NEW B \in SUBSET Row, Orderly(rows \cup B), rows \cap B = {},
         Unpinned(B), LocksHold(B, tally.teacherLock),
         rows' = rows \cup B, used' = Occupy(used, B),
         tally' = MoreLessons(CountIn(tally, B), {B}, 1)
  PROVE  Inv' /\ tally'.teacherLock = tally.teacherLock
<1>1. rows \in SUBSET Row /\ tally \in TallyType
  BY DEF Inv, TypeOK
<1>2. PinsIn(rows) /\ Mirrored(rows, used, tally)
  BY DEF Inv
<1>3. used' = Occupy(Nobody, rows')
  BY <1>2, OccupyMirror DEF Mirrored
<1> DEFINE b == CountIn(tally, B)
<1>4. b \in TallyType /\ Counted(rows', b) /\ b.teacherLock = tally.teacherLock
  BY <1>1, <1>2, CountType, CountInMirror, CountFields DEF Mirrored, Orderly
<1> HIDE DEF b
<1>5. {B} \in SUBSET SUBSET Row
  OBVIOUS
<1>6. /\ MoreLessons(b, {B}, 1) \in TallyType /\ Counted(rows', MoreLessons(b, {B}, 1))
      /\ MoreLessons(b, {B}, 1).teacherLock = tally.teacherLock
  BY <1>4, <1>5, LessonsType, CountedSame
<1>7. tally' = MoreLessons(b, {B}, 1)
  BY DEF b
<1>8. LocksHold(rows', tally'.teacherLock)
  BY <1>2, <1>6, <1>7 DEF Mirrored, LocksHold
<1>9. PinsIn(rows')
  <2>1. rows' = (rows \ {}) \cup B /\ Unpinned({})
    BY DEF Unpinned
  <2> QED
    BY <1>2, <2>1, PinsKept
<1>10. rows' \in SUBSET Row
  BY <1>1
<1>11. Inv'
  BY <1>3, <1>6, <1>7, <1>8, <1>9, <1>10, HalfwayInv
<1> QED
  BY <1>6, <1>7, <1>11

\* The block's teacher is the locked one.
LEMMA LandingLocks ==
  ASSUME Inv, UnderWay, NEW l \in Members, NEW B,
         \A r \in B : r.lesson = l /\ r.teacher = TeacherNow(l)
  PROVE  LocksHold(B, tally.teacherLock)
<1>1. PICK q \in RowsOf(chain.ruined, l) : TRUE
  <2>1. l \in Lessons /\ Cardinality(RowsOf(chain.ruined, l)) = BlockSize[l]
    BY DEF UnderWay, ChainRows, ClearWay
  <2>2. BlockSize[l] # 0 /\ Cardinality({}) = 0
    BY <2>1, BlockSizes, FS_EmptySet
  <2> QED
    BY <2>1, <2>2
<1>2. q.lesson = l /\ q.teacher = TeacherNow(l) /\ q \in Before
  BY <1>1, MemberTeacher DEF RowsOf, Before
<1>3. LocksHold(Before, tally.teacherLock)
  BY DEF UnderWay, SoundBefore
<1>4. \A c \in ClassesOf[l] : tally.teacherLock[<<c, SubjectOf[l]>>] = TeacherNow(l)
  BY <1>2, <1>3 DEF LocksHold
<1> QED
  BY <1>4 DEF LocksHold

\* The chain goes on.
LEMMA PlaceKempeInv ==
  ASSUME KempeInv, NEW l \in Lessons, KempePlace(l)
  PROVE  KempeInv'
<1>1. Inv /\ UnderWay /\ phase = "search" /\ Aside /\ l \in chain.todo /\ Swapping
  BY DEF KempeInv, KempePlace, Due, UnderWay, Aside
<1>2. PICK room \in KempeRooms(l) :
        LET B == Block(l, Target(l), room, TeacherNow(l))
        IN  /\ rows' = rows \cup B
            /\ used' = Occupy(used, B)
            /\ tally' = MoreLessons(CountIn(tally, B), {B}, 1)
            /\ chain' = [chain EXCEPT !.todo = @ \ {l}, !.added = @ \cup B]
  BY Zenon DEF KempePlace
<1> DEFINE B == Block(l, Target(l), room, TeacherNow(l))
           G == RowsOf(chain.ruined, l)
<1>3. /\ rows' = rows \cup B /\ used' = Occupy(used, B)
      /\ tally' = MoreLessons(CountIn(tally, B), {B}, 1)
      /\ chain' = [chain EXCEPT !.todo = @ \ {l}, !.added = @ \cup B]
  BY <1>2
<1>4. l \in Members /\ l \notin Frozen /\ Members = DOMAIN chain.day
  BY <1>1 DEF UnderWay, ClearWay, Members
<1>5. /\ Target(l) \in Slots /\ Day(Target(l)) = chain.day[l]
      /\ TeacherNow(l) \in Teachers
  BY <1>1, <1>4, TargetSlot, MemberTeacher
<1>6. B = Block(l, Target(l), room, TeacherNow(l))
  OBVIOUS
<1> HIDE DEF B
<1>7. B \in SUBSET Row /\ Orderly(rows \cup B) /\ rows \cap B = {}
  BY <1>1, <1>6, Landing
<1>8. /\ SameHours(Resettled \cup G, chain.added \cup B)
      /\ \A r \in B : r.lesson = l /\ Day(r.slot) = chain.day[l]
  BY <1>1, <1>6, <1>7, LandedHours
<1>9. \A r \in B : r.lesson = l /\ r.teacher = TeacherNow(l)
  BY <1>6, BlockRows
<1>10. Unpinned(B) /\ LocksHold(B, tally.teacherLock)
  BY <1>1, <1>4, <1>9, LandingLocks DEF Unpinned, Frozen
<1>11. Mirrored(rows, used, tally) /\ rows \in SUBSET Row /\ Tiled(rows) /\ SubjectCaps(rows)
  BY <1>1 DEF Inv, TypeOK, UnderWay
<1>12. UnderCaps(l, chain.day[l], BlockSize[l], 1)
  BY DEF KempePlace, CanLand
<1>13. SubjectCaps(rows')
  BY <1>3, <1>5, <1>6, <1>7, <1>11, <1>12, LandingCaps
<1>14. Tiled(rows')
  BY <1>3, <1>5, <1>6, <1>7, <1>11, BlockTiled DEF Orderly
<1>15. Inv' /\ tally'.teacherLock = tally.teacherLock
  BY <1>1, <1>3, <1>7, <1>10, LandingInv
<1>16. /\ chain'.day = chain.day /\ chain'.start = chain.start
       /\ chain'.todo = chain.todo \ {l} /\ chain'.added = chain.added \cup B
       /\ chain'.ruined = chain.ruined /\ ChainShape'
  BY <1>1, <1>3 DEF UnderWay, ChainShape
<1>17. chain.added \subseteq rows
  BY <1>1 DEF UnderWay, ChainRows
<1>18. /\ Staying' = Staying /\ Before' = Before /\ Members' = Members
       /\ \A m : Target(m)' = Target(m)
       /\ Resettled' = Resettled \cup G
  BY <1>1, <1>3, <1>7, <1>16, <1>17 DEF Staying, Before, Members, Target, Resettled, RowsOf
<1>19. ChainRows'
  <2>1. /\ chain.ruined \in SUBSET Row /\ Staying \cap chain.ruined = {}
        /\ \A r \in chain.ruined : r.lesson \in Members
        /\ \A m \in Members : Cardinality(RowsOf(chain.ruined, m)) = BlockSize[m]
        /\ \A r \in chain.added : /\ r.lesson \in Members \ chain.todo
                                  /\ Day(r.slot) = chain.day[r.lesson]
    BY <1>1 DEF UnderWay, ChainRows
  <2>2. chain'.added \in SUBSET rows'
    BY <1>3, <1>16, <1>17
  <2>3. \A r \in chain'.added : /\ r.lesson \in Members \ chain'.todo
                                /\ Day(r.slot) = chain.day[r.lesson]
    BY <1>4, <1>8, <1>16, <2>1
  <2>4. SameHours(Resettled', chain'.added)
    BY <1>8, <1>16, <1>18
  <2> QED
    BY <1>16, <1>18, <2>1, <2>2, <2>3, <2>4 DEF ChainRows
<1>20. ClearWay'
  <2>1. \A k, m : Conflict(k, m)' <=> Conflict(k, m)
    BY <1>15, SameConflicts
  <2>2. ClearWay
    BY <1>1 DEF UnderWay
  <2> QED
    BY <1>16, <1>18, <2>1, <2>2 DEF ClearWay
<1>21. SoundBefore'
  BY <1>1, <1>15, <1>18 DEF UnderWay, SoundBefore
<1>22. phase' = "search" /\ Passing(best') /\ chain'.ruined # {}
  BY <1>1, <1>16 DEF Aside, UnderWay, Swapping
<1> QED
  BY <1>13, <1>14, <1>15, <1>16, <1>19, <1>20, <1>21, <1>22 DEF KempeInv, UnderWay, Swapping

-----------------------------------------------------------------------------
(* The attempt ends.                                                        *)

\* A schedule in order at the end of an attempt satisfies the invariant.
LEMMA AttemptEnds ==
  ASSUME Inv, phase = "search", UNCHANGED <<phase, left, missed, attempt>>,
         chain' = NoChain, EndIteration(rows'),
         rows' \in SUBSET Row, Orderly(rows'), PinsIn(rows'),
         used' = Occupy(Nobody, rows'), tally' \in TallyType, Counted(rows', tally'),
         LocksHold(rows', tally'.teacherLock),
         Passing(rows'), LocksLive(rows', tally'.teacherLock), Passing(best)
  PROVE  KempeInv' /\ ~Swapping'
<1>1. used' \in UsedType
  BY UsedTyping, EmptyType
<1>2. best' \in SUBSET Row
  BY EndIterationType DEF Inv, TypeOK
<1>3. TypeOK'
  BY <1>1, <1>2 DEF Inv, TypeOK
<1>4. Inv'
  BY <1>3, MovedInv DEF Mirrored
<1>5. Passing(best') /\ phase' = "search"
  BY DEF EndIteration
<1>6. VInv'
  BY <1>5 DEF VInv
<1>7. ~Swapping'
  BY DEF Swapping, NoChain
<1> QED
  BY <1>4, <1>6, <1>7 DEF KempeInv

\* The blocks of a set of rows are sets of rows.
LEMMA BlocksOfType ==
  ASSUME NEW R \in SUBSET Row
  PROVE  BlocksOf(R) \in SUBSET SUBSET Row
BY DEF BlocksOf, RowsOfOn

\* The counters after a rollback.
LEMMA RecountKeeps ==
  ASSUME Inv, phase = "search", chain.added \in SUBSET rows, chain.ruined \in SUBSET Row,
         Staying \cap chain.ruined = {}, Orderly(Before)
  PROVE  /\ Occupy(Vacate(used, chain.added), chain.ruined) = Occupy(Nobody, Before)
         /\ KempeRecount \in TallyType /\ Counted(Before, KempeRecount)
         /\ KempeRecount.teacherLock = tally.teacherLock
<1> DEFINE O == chain.added
           N == chain.ruined
           b == Recount(tally, O, N)
           Os == BlocksOf(O)
           Ns == BlocksOf(N)
<1>1. rows \in SUBSET Row /\ tally \in TallyType /\ Orderly(rows) /\ Mirrored(rows, used, tally)
  BY DEF Inv, TypeOK
<1>2. Os \in SUBSET SUBSET Row /\ Ns \in SUBSET SUBSET Row
  BY <1>1, BlocksOfType
<1>3. Before = (rows \ O) \cup N
  BY DEF Before, Staying
<1>4. /\ O \in SUBSET rows /\ N \in SUBSET Row /\ (rows \ O) \cap N = {}
      /\ Orderly((rows \ O) \cup N)
  BY <1>3 DEF Staying
<1>5. KempeRecount = MoreLessons(FewerLessons(b, Os, 1), Ns, 1)
  BY DEF KempeRecount
<1> HIDE DEF O, N, Os, Ns
<1>6. used = Occupy(Nobody, rows) /\ Counted(rows, tally)
  BY <1>1 DEF Mirrored
<1>7. /\ Occupy(Vacate(used, O), N) = Occupy(Nobody, (rows \ O) \cup N)
      /\ Counted((rows \ O) \cup N, Recount(tally, O, N))
      /\ Recount(tally, O, N) \in TallyType
      /\ Recount(tally, O, N).teacherLock = tally.teacherLock
  BY ONLY <1>1, <1>4, <1>6, ReplaceKeeps
<1>8. Counted(Before, b) /\ b \in TallyType /\ b.teacherLock = tally.teacherLock
  BY <1>3, <1>7
<1> HIDE DEF b
<1> DEFINE c == FewerLessons(b, Os, 1)
<1>9. c \in TallyType /\ Counted(Before, c) /\ c.teacherLock = tally.teacherLock
  BY <1>2, <1>8, LessonsType, CountedSame
<1> HIDE DEF c
<1>10. /\ MoreLessons(c, Ns, 1) \in TallyType /\ Counted(Before, MoreLessons(c, Ns, 1))
       /\ MoreLessons(c, Ns, 1).teacherLock = tally.teacherLock
  BY <1>2, <1>9, LessonsType, CountedSame
<1> QED
  BY <1>3, <1>5, <1>7, <1>10 DEF c, O, N

\* What the attempt may take back and put back is of members.
LEMMA ChainUnpinned ==
  ASSUME UnderWay
  PROVE  /\ Unpinned(chain.added) /\ Unpinned(chain.ruined) /\ chain.added \in SUBSET rows
         /\ chain.ruined \in SUBSET Row /\ Staying \cap chain.ruined = {}
<1>1. /\ Members \subseteq Lessons \ Frozen
      /\ \A r \in chain.added : r.lesson \in Members
      /\ \A r \in chain.ruined : r.lesson \in Members
  BY DEF UnderWay, ChainRows, ClearWay
<1>2. Unpinned(chain.added) /\ Unpinned(chain.ruined)
  BY <1>1, MembersUnpinned
<1> QED
  BY <1>2 DEF UnderWay, ChainRows

\* A rollback.
LEMMA UndoKempeInv ==
  ASSUME KempeInv, KempeUndo
  PROVE  KempeInv' /\ ~Swapping' /\ rows' = Before
<1>1. Inv /\ UnderWay /\ phase = "search"
  BY DEF KempeInv, KempeUndo, Stuck, Swapped, UnderWay
<1>2. /\ rows' = (rows \ chain.added) \cup chain.ruined
      /\ used' = Occupy(Vacate(used, chain.added), chain.ruined)
      /\ tally' = KempeRecount /\ EndIteration(rows') /\ chain' = NoChain
      /\ UNCHANGED <<phase, left, missed, attempt>>
  BY DEF KempeUndo
<1>3. /\ Unpinned(chain.added) /\ Unpinned(chain.ruined) /\ chain.added \in SUBSET rows
      /\ chain.ruined \in SUBSET Row /\ Staying \cap chain.ruined = {}
  BY <1>1, ChainUnpinned
<1>4. /\ Orderly(Before) /\ LocksHold(Before, tally.teacherLock)
      /\ Passing(Before) /\ LocksLive(Before, tally.teacherLock) /\ Passing(best)
  BY <1>1 DEF UnderWay, SoundBefore
<1>5. /\ Occupy(Vacate(used, chain.added), chain.ruined) = Occupy(Nobody, Before)
      /\ KempeRecount \in TallyType /\ Counted(Before, KempeRecount)
      /\ KempeRecount.teacherLock = tally.teacherLock
  BY <1>1, <1>3, <1>4, RecountKeeps
<1>6. rows \in SUBSET Row /\ PinsIn(rows)
  BY <1>1 DEF Inv, TypeOK
<1>7. rows' = Before /\ Before \in SUBSET Row
  BY <1>2, <1>3, <1>6 DEF Before, Staying
<1>8. PinsIn(rows')
  BY <1>2, <1>3, <1>6, PinsKept
<1>9. /\ rows' \in SUBSET Row /\ Orderly(rows') /\ used' = Occupy(Nobody, rows')
      /\ tally' \in TallyType /\ Counted(rows', tally')
      /\ LocksHold(rows', tally'.teacherLock)
      /\ Passing(rows') /\ LocksLive(rows', tally'.teacherLock)
  BY <1>2, <1>4, <1>5, <1>7
<1> QED
  BY <1>1, <1>2, <1>4, <1>7, <1>8, <1>9, AttemptEnds

\* What is swapped has the hours it had, and a schedule in order.
LEMMA SwappedPassing ==
  ASSUME Inv, UnderWay, chain.todo = {}
  PROVE  /\ SameHours(chain.ruined, chain.added)
         /\ Passing(rows) /\ LocksLive(rows, tally.teacherLock)
<1>1. /\ chain.ruined \in SUBSET Row /\ chain.added \in SUBSET rows
      /\ Staying \cap chain.ruined = {} /\ SameHours(Resettled, chain.added)
  BY DEF UnderWay, ChainRows
<1>2. Resettled = chain.ruined
  BY DEF Resettled
<1>3. SameHours(chain.ruined, chain.added)
  BY <1>1, <1>2
<1>4. rows \in SUBSET Row
  BY DEF Inv, TypeOK
<1> DEFINE O == chain.ruined
           N == chain.added
<1>5. /\ Before \in SUBSET Row /\ O \in SUBSET Before /\ N \in SUBSET Row
      /\ (Before \ O) \cap N = {} /\ rows = (Before \ O) \cup N
  BY <1>1, <1>4 DEF Before, Staying
<1>6. /\ Passing(Before) /\ LocksLive(Before, tally.teacherLock)
      /\ Tiled(rows) /\ SubjectCaps(rows)
  BY DEF UnderWay, SoundBefore
<1> HIDE DEF O, N
<1>7. SameHours(O, N)
  BY <1>3 DEF O, N
<1>8. Passing(rows) /\ LocksLive(rows, tally.teacherLock)
  BY ONLY <1>5, <1>6, <1>7, MovedPassing
<1> QED
  BY <1>3, <1>8

\* A swap that is kept.
LEMMA KeepKempeInv ==
  ASSUME KempeInv, KempeKeep
  PROVE  KempeInv' /\ ~Swapping' /\ rows' = rows /\ SameHours(chain.ruined, chain.added)
<1>1. Inv /\ UnderWay /\ phase = "search" /\ chain.todo = {}
  BY DEF KempeInv, KempeKeep, Swapped, UnderWay
<1>2. /\ EndIteration(rows) /\ chain' = NoChain
      /\ UNCHANGED <<phase, rows, used, tally, left, missed, attempt>>
  BY DEF KempeKeep
<1>3. /\ SameHours(chain.ruined, chain.added)
      /\ Passing(rows) /\ LocksLive(rows, tally.teacherLock)
  BY <1>1, SwappedPassing
<1>4. /\ rows \in SUBSET Row /\ Orderly(rows) /\ PinsIn(rows) /\ tally \in TallyType
      /\ Mirrored(rows, used, tally) /\ Passing(best)
  BY <1>1 DEF Inv, TypeOK, UnderWay
<1>5. /\ rows' \in SUBSET Row /\ Orderly(rows') /\ PinsIn(rows')
      /\ used' = Occupy(Nobody, rows')
      /\ tally' \in TallyType /\ Counted(rows', tally')
      /\ LocksHold(rows', tally'.teacherLock)
      /\ Passing(rows') /\ LocksLive(rows', tally'.teacherLock) /\ EndIteration(rows')
  BY <1>2, <1>3, <1>4 DEF Mirrored
<1>6. KempeInv' /\ ~Swapping'
  BY <1>1, <1>2, <1>4, <1>5, AttemptEnds
<1> QED
  BY <1>2, <1>3, <1>6

\* A step that leaves every variable alone leaves the attempt where it is.
LEMMA RestingUnderWay ==
  ASSUME UnderWay, UNCHANGED allVars
  PROVE  UnderWay'
<1>1. UNCHANGED <<phase, rows, tally, best, chain>>
  BY DEF allVars, vars
<1>2. /\ Staying' = Staying /\ Before' = Before /\ Resettled' = Resettled
      /\ Members' = Members /\ \A m : Target(m)' = Target(m)
  BY <1>1 DEF Staying, Before, Resettled, Members, Target
<1>3. \A k, m : Conflict(k, m)' <=> Conflict(k, m)
  BY <1>1, SameConflicts
<1>4. ChainRows'
  <2>1. ChainRows
    BY DEF UnderWay
  <2> QED
    BY <1>1, <1>2, <2>1 DEF ChainRows
<1>5. ClearWay'
  <2>1. ClearWay
    BY DEF UnderWay
  <2> QED
    BY <1>1, <1>2, <1>3, <2>1 DEF ClearWay
<1>6. ChainShape' /\ SoundBefore'
  BY <1>1, <1>2 DEF UnderWay, ChainShape, SoundBefore
<1> QED
  BY <1>1, <1>4, <1>5, <1>6 DEF UnderWay

\* An attempt begins with no attempt under way.
LEMMA KempeInitInv == KempeInit => KempeInv
<1> SUFFICES ASSUME Init, chain = NoChain PROVE KempeInv
  BY DEF KempeInit, ScoredInit
<1>1. ~Swapping
  BY DEF Swapping, NoChain
<1> QED
  BY <1>1, InitInv, InitPassing DEF KempeInv

\* A move of the search is made while no attempt is under way.
LEMMA MoveKempeInv ==
  ASSUME KempeInv, ~Swapping, ScoredNext, UNCHANGED chain
  PROVE  KempeInv' /\ ~Swapping'
<1>1. [Next]_vars /\ Inv /\ VInv
  BY ScoredStep DEF KempeInv
<1>2. Inv' /\ VInv'
  BY <1>1, NextInv, NextPassing
<1>3. ~Swapping'
  BY DEF Swapping
<1> QED
  BY <1>2, <1>3 DEF KempeInv

\* Every step keeps the invariant, in the middle of an attempt too.
LEMMA KempeNextInv == KempeInv /\ [KempeNext]_allVars => KempeInv'
<1> SUFFICES ASSUME KempeInv, [KempeNext]_allVars PROVE KempeInv'
  OBVIOUS
<1>1. CASE UNCHANGED allVars
  <2>1. UNCHANGED vars /\ Swapping' = Swapping
    BY <1>1 DEF allVars, Swapping
  <2>2. Inv'
    BY <2>1, NextInv DEF KempeInv
  <2>3. CASE Swapping
    BY <1>1, <2>1, <2>2, <2>3, RestingUnderWay DEF KempeInv
  <2>4. CASE ~Swapping
    <3>1. VInv'
      BY <2>1, <2>4, NextPassing DEF KempeInv
    <3> QED
      BY <2>1, <2>2, <2>4, <3>1 DEF KempeInv
  <2> QED
    BY <2>3, <2>4
<1>2. CASE ~Swapping /\ ScoredNext /\ UNCHANGED chain
  BY <1>2, MoveKempeInv
<1>3. CASE \E l \in Lessons : KempeRuin(l) \/ KempePlace(l)
  BY <1>3, RuinKempeInv, PlaceKempeInv
<1>4. CASE KempeKeep \/ KempeUndo
  BY <1>4, KeepKempeInv, UndoKempeInv
<1> QED
  BY <1>1, <1>2, <1>3, <1>4 DEF KempeNext

\* What a chain relies on holds at every moment of the search.
THEOREM KempeInvariance == KempeSpec => []KempeInv
BY KempeInitInv, KempeNextInv, PTL DEF KempeSpec

-----------------------------------------------------------------------------
(* What follows for a search with chains.                                   *)

\* No teacher, room or class holds two rows in one slot, half way through a
\* chain either.
THEOREM ChainsNoConflicts == KempeSpec => []NeverDoubleBooked
<1>1. KempeInv => NeverDoubleBooked
  BY DEF KempeInv, Inv, Orderly, NeverDoubleBooked
<1> QED
  BY <1>1, KempeInvariance, PTL

\* The used sets are the keys of the placements after every step of a chain,
\* its rollback included.
THEOREM ChainsUsedExact == KempeSpec => []UsedMirrorsRows
<1>1. KempeInv => UsedMirrorsRows
  BY DEF KempeInv, Inv, Mirrored, UsedMirrorsRows
<1> QED
  BY <1>1, KempeInvariance, PTL

\* So are the counters and room locks a recount of the placements.
THEOREM ChainsCountersExact == KempeSpec => []CountersMirrorRows
<1>1. KempeInv => CountersMirrorRows
  BY CountersRecounted DEF KempeInv
<1> QED
  BY <1>1, KempeInvariance, PTL

\* A ruin books the members' rows out.
LEMMA RuinPositions ==
  ASSUME Inv, PosInv, TypeOK', NEW l \in Lessons, KempeRuin(l)
  PROVE  PosInv'
<1>1. rows \in SUBSET Row /\ phase = "search"
  BY DEF Inv, TypeOK, KempeRuin
<1>2. PICK src, dest, start, to, R :
        /\ Departs(l, src, dest, start, to, R)
        /\ rows' = rows \ R /\ Book(R, {})
  BY <1>1, RuinDeparts
<1>3. R \in SUBSET rows
  BY ONLY <1>1, <1>2, LeavingRows
<1>4. Book(R, {}) /\ rows' = (rows \ R) \cup {}
  BY <1>2
<1> QED
  BY <1>1, <1>3, <1>4, BookedPositions

\* A landing books its block in.
LEMMA PlacePositions ==
  ASSUME KempeInv, PosInv, TypeOK', NEW l \in Lessons, KempePlace(l)
  PROVE  PosInv'
<1>1. Swapping /\ l \in chain.todo
  BY DEF KempePlace, Due
<1>2. Inv /\ UnderWay /\ phase = "search"
  BY <1>1 DEF KempeInv, UnderWay
<1>3. PICK room \in KempeRooms(l) :
        LET B == Block(l, Target(l), room, TeacherNow(l))
        IN  rows' = rows \cup B /\ Book({}, B)
  BY DEF KempePlace
<1>4. PICK B : /\ B = Block(l, Target(l), room, TeacherNow(l))
               /\ rows' = rows \cup B /\ Book({}, B)
  BY <1>3
<1>5. B \in SUBSET Row
  BY <1>1, <1>2, <1>4, Landing
<1>6. {} \in SUBSET rows /\ rows' = (rows \ {}) \cup B
  BY <1>4
<1> QED
  BY <1>2, <1>4, <1>5, <1>6, BookedPositions

\* A rollback books the members' rows back in.
LEMMA UndoPositions ==
  ASSUME KempeInv, PosInv, TypeOK', KempeUndo
  PROVE  PosInv'
<1>1. /\ Swapping /\ Book(chain.added, chain.ruined)
      /\ rows' = (rows \ chain.added) \cup chain.ruined
  BY DEF KempeUndo, Stuck, Swapped
<1>2. Inv /\ phase = "search" /\ chain.added \in SUBSET rows /\ chain.ruined \in SUBSET Row
  BY <1>1 DEF KempeInv, UnderWay, ChainRows
<1> QED
  BY <1>1, <1>2, BookedPositions

\* The positions that costs are read from are those of the placements after
\* every step of a chain.
THEOREM ChainsPositionsExact == KempeSpec => []PositionsMirrorRows
<1>1. KempeInit => PosInv
  BY DEF KempeInit, ScoredInit, Init, PosInv
<1>2. KempeInv /\ KempeInv' /\ PosInv /\ [KempeNext]_allVars => PosInv'
  <2> SUFFICES ASSUME KempeInv, KempeInv', PosInv, [KempeNext]_allVars PROVE PosInv'
    OBVIOUS
  <2>1. Inv /\ TypeOK'
    BY DEF KempeInv, Inv
  <2>2. CASE UNCHANGED allVars
    BY <2>2 DEF allVars, vars, costVars, PosInv
  <2>3. CASE ~Swapping /\ ScoredNext /\ UNCHANGED chain
    BY <2>1, <2>3, NextPositions
  <2>4. CASE \E l \in Lessons : KempeRuin(l) \/ KempePlace(l)
    BY <2>1, <2>4, RuinPositions, PlacePositions
  <2>5. CASE KempeKeep
    <3>1. /\ phase # "done" /\ UNCHANGED <<rows, classPos, teacherPos>>
      BY <2>5 DEF KempeKeep, Swapped, KempeInv, UnderWay
    <3> QED
      BY <3>1, RestingPositions
  <2>6. CASE KempeUndo
    BY <2>1, <2>6, UndoPositions
  <2> QED
    BY <2>2, <2>3, <2>4, <2>5, <2>6 DEF KempeNext
<1>3. PosInv => PositionsMirrorRows
  BY DEF PosInv, PositionsMirrorRows
<1> QED
  BY <1>1, <1>2, <1>3, KempeInvariance, PTL DEF KempeSpec

\* A step of an attempt that ends it keeps or undoes the swap.
LEMMA AttemptEndsBy ==
  ASSUME KempeInv, [KempeNext]_allVars, Swapping, ~Swapping'
  PROVE  KempeKeep \/ KempeUndo
<1>1. ASSUME NEW l, KempeRuin(l) PROVE FALSE
  BY <1>1 DEF KempeRuin
<1>2. ASSUME NEW l, KempePlace(l) PROVE FALSE
  <2>1. chain'.ruined = chain.ruined
    <3>1. ChainShape
      BY DEF KempeInv, UnderWay
    <3>2. \E B : chain' = [chain EXCEPT !.todo = @ \ {l}, !.added = @ \cup B]
      BY <1>2 DEF KempePlace
    <3> QED
      BY ONLY <3>1, <3>2 DEF ChainShape
  <2> QED
    BY <2>1 DEF Swapping
<1>3. ~(UNCHANGED chain)
  BY DEF Swapping
<1>4. ~(UNCHANGED allVars)
  BY <1>3 DEF allVars
<1> QED
  BY <1>1, <1>2, <1>3, <1>4 DEF KempeNext

\* Rows between a ruin and the landing of the last member: those the schedule
\* had, but for the members that are still to land.
LEMMA HalfwayHours ==
  ASSUME Inv, UnderWay
  PROVE  /\ Staying \cup Resettled \in SUBSET Before
         /\ Before \in SUBSET Row /\ rows \in SUBSET Row
         /\ SameHours(Staying \cup Resettled, rows)
<1>1. /\ chain.ruined \in SUBSET Row /\ chain.added \in SUBSET rows /\ rows \in SUBSET Row
      /\ Staying \cap chain.ruined = {} /\ SameHours(Resettled, chain.added)
  BY DEF UnderWay, ChainRows, Inv, TypeOK
<1>2. Resettled \in SUBSET chain.ruined
  BY DEF Resettled
<1> DEFINE S == Staying \cup Resettled
<1>3. /\ S \ Resettled = Staying /\ Resettled \in SUBSET S
      /\ rows = Staying \cup chain.added /\ Staying \cap chain.added = {}
  BY <1>1, <1>2 DEF Staying
<1>4. S \in SUBSET Before /\ Before \in SUBSET Row
  BY <1>1, <1>2 DEF Before, Staying
<1> HIDE DEF S
<1>5. SameHours(S, rows)
  BY ONLY <1>1, <1>3, SameHoursBeside
<1> QED
  BY <1>1, <1>4, <1>5 DEF S

\* A swap that was kept or taken back leaves every lesson the hours it had: no
\* member is lost between the two days, and none is doubled.
THEOREM ChainsKeepHours == KempeSpec => ChainKeepsHours
<1>1. KempeInv /\ [KempeNext]_allVars
        => [Swapping /\ ~Swapping' =>
              \A l \in Lessons :
                Cardinality(RowsOf(rows', l))
                  = Cardinality(RowsOf((rows \ chain.added) \cup chain.ruined, l))]_allVars
  <2> SUFFICES ASSUME KempeInv, [KempeNext]_allVars, Swapping, ~Swapping', NEW l \in Lessons
               PROVE  Cardinality(RowsOf(rows', l)) = Cardinality(RowsOf(Before, l))
    BY DEF Before, Staying
  <2>1. KempeKeep \/ KempeUndo
    BY AttemptEndsBy
  <2>2. CASE KempeUndo
    BY <2>2, UndoKempeInv
  <2>3. CASE KempeKeep
    <3>1. rows' = rows
      BY <2>3, KeepKempeInv
    <3>2. Inv /\ UnderWay
      BY DEF KempeInv
    <3>3. Staying \cup Resettled = Before
      BY <2>3 DEF Resettled, Before, KempeKeep, Swapped
    <3>4. Before \in SUBSET Row /\ rows \in SUBSET Row /\ SameHours(Before, rows)
      BY <3>2, <3>3, HalfwayHours
    <3>5. Cardinality(RowsOf(rows, l)) = Cardinality(RowsOf(Before, l))
      BY ONLY <3>4, SameHoursCount
    <3> QED
      BY <3>1, <3>5
  <2> QED
    BY <2>1, <2>2, <2>3
<1> QED
  BY <1>1, KempeInvariance, PTL DEF KempeSpec, ChainKeepsHours

\* No one teaches beyond the weekly maximum, pins aside, half way through a
\* chain either: a landing does not look at the hours and adds none.
THEOREM ChainsKeepTeachersHours == KempeSpec => []TeacherHoursCapped
<1>1. ASSUME KempeInv PROVE HoursCapped(rows)
  <2>1. CASE ~Swapping
    BY <1>1, <2>1 DEF KempeInv, VInv, Passing
  <2>2. CASE Swapping
    <3> DEFINE S == Staying \cup Resettled
    <3>1. Inv /\ UnderWay
      BY <1>1, <2>2 DEF KempeInv
    <3>2. /\ S \in SUBSET Before /\ Before \in SUBSET Row /\ rows \in SUBSET Row
          /\ SameHours(S, rows)
      BY <3>1, HalfwayHours
    <3>3. Passing(Before)
      BY <3>1 DEF UnderWay, SoundBefore
    <3> HIDE DEF S
    <3>4. HoursCapped(S)
      BY ONLY <3>2, <3>3, PartPassing
    <3>5. S \in SUBSET Row
      BY ONLY <3>2
    <3>6. /\ \A t : Cardinality({r \in rows : r.teacher = t}) = Cardinality({r \in S : r.teacher = t})
          /\ \A q \in rows : \E r \in S : q.lesson = r.lesson /\ q.teacher = r.teacher
      BY ONLY <3>2, <3>5, SameHoursCount
    <3> QED
      BY ONLY <3>4, <3>6 DEF HoursCapped
  <2> QED
    BY <2>1, <2>2
<1>2. KempeInv => TeacherHoursCapped
  <2> SUFFICES ASSUME KempeInv, NEW t \in Teachers,
                      {r \in rows : r.teacher = t /\ r.lesson \notin Pinned} # {}
               PROVE  Cardinality({r \in rows : r.teacher = t}) <= TeacherMax[t]
    BY DEF TeacherHoursCapped
  <2> QED
    BY <1>1 DEF HoursCapped
<1> QED
  BY <1>2, KempeInvariance, PTL

\* Pins stay where they are, and every class keeps one teacher per subject.
THEOREM ChainsKeepPinsAndTeachers == KempeSpec => [](PinsNeverMove /\ TeacherLocksHold)
<1>1. KempeInv => PinsNeverMove
  BY DEF KempeInv, Inv, PinsIn, PinsNeverMove
<1>2. KempeInv => TeacherLocksHold
  BY DEF KempeInv, Inv, Mirrored, LocksHold, TeacherLocksHold
<1> QED
  BY <1>1, <1>2, KempeInvariance, PTL

\* What a solve with chains returns passes every post-solve validator but those
\* of the class cap and of travel time.
THEOREM ChainsReturnAccepted ==
  ASSUME Unambiguous
  PROVE  KempeSpec => []ReturnedPassesValidators
<1>1. KempeInv => ReturnedPassesValidators
  <2>1. CASE phase = "done"
    <3>1. KempeInv => Inv /\ VInv
      BY <2>1 DEF KempeInv, UnderWay
    <3> QED
      BY <3>1, FinishedAccepted
  <2>2. CASE phase # "done"
    BY <2>2 DEF ReturnedPassesValidators
  <2> QED
    BY <2>1, <2>2
<1> QED
  BY <1>1, KempeInvariance, PTL

-----------------------------------------------------------------------------
(* What a chain costs.                                                      *)

\* The axes that a chain is priced on, read off a schedule.
ChainCost(R) ==
      SliceCost(R)
    + HomeRoomTotal(R)
    + Weight["balance"] * ClassDayBalance(R)
    + Weight["worstSpread"] * WorstClassSpread(R)
    + Weight["worstGaps"] * WorstClassGaps(R)

\* The weights for which these and the class teachers are all there is.
NoRota == Weight["supervision"] = 0 /\ Weight["softPin"] = 0

\* The running totals are read from the positions, which are exact.
LEMMA RunningExact ==
  ASSUME PosInv, phase # "done"
  PROVE  RunningSlice = SliceCost(rows) /\ RunningCost = ChainCost(rows)
<1>1. classPos = ClassPositions(rows) /\ teacherPos = TeacherPositions(rows)
  BY DEF PosInv
<1>2. RunningSlice = SliceCost(rows)
  BY <1>1 DEF RunningSlice, SliceCost
<1>3. SumFunction([c \in Classes |-> BalanceOf(classPos, c)]) = ClassDayBalance(rows)
  BY <1>1 DEF ClassDayBalance
<1> QED
  BY ONLY <1>2, <1>3 DEF RunningCost, ChainCost

\* Beside what a chain is priced on there are the class teachers.
LEMMA ChainCostRest ==
  ASSUME NEW R \in SUBSET Row
  PROVE  /\ SliceCost(R) \in Nat /\ ChainCost(R) \in Nat /\ ScoreSolution(R) \in Nat
         /\ ClassTeacherMisses(R) \in Nat /\ Weight["classTeacher"] * ClassTeacherMisses(R) \in Nat
         /\ NoRota => ScoreSolution(R) = ChainCost(R)
                                         + Weight["classTeacher"] * ClassTeacherMisses(R)
<1>1. /\ SliceCost(R) \in Nat /\ HomeRoomTotal(R) \in Nat /\ ClassDayBalance(R) \in Nat
      /\ WorstClassSpread(R) \in Nat /\ WorstClassGaps(R) \in Nat
      /\ ClassTeacherMisses(R) \in Nat /\ SoftPinMisses(R) \in Nat /\ SupervisionSpread(R) \in Nat
      /\ ScoreSolution(R) \in Nat
  BY PriceNat, BalanceNat, WorstSpreadNat, WorstGapsNat, MissesNat, SupervisionNat
<1>2. /\ Weight["balance"] \in Nat /\ Weight["worstSpread"] \in Nat /\ Weight["worstGaps"] \in Nat
      /\ Weight["classTeacher"] \in Nat
  BY WeightAssumption DEF Axes
<1>3. \A m, n \in Nat : m * n \in Nat
  OBVIOUS
<1> DEFINE b == Weight["balance"] * ClassDayBalance(R)
           s == Weight["worstSpread"] * WorstClassSpread(R)
           g == Weight["worstGaps"] * WorstClassGaps(R)
           t == Weight["classTeacher"] * ClassTeacherMisses(R)
           p == Weight["softPin"] * SoftPinMisses(R)
           v == Weight["supervision"] * SupervisionSpread(R)
<1>4. b \in Nat /\ s \in Nat /\ g \in Nat /\ t \in Nat
  BY ONLY <1>1, <1>2, <1>3
<1>5. NoRota => p = 0 /\ v = 0
  BY <1>1 DEF NoRota
<1>6. /\ ScoreSolution(R) = SliceCost(R) + b + s + g + HomeRoomTotal(R) + p + t + v
      /\ ChainCost(R) = SliceCost(R) + HomeRoomTotal(R) + b + s + g
  BY DEF ScoreSolution, ChainCost
<1> HIDE DEF b, s, g, t, p, v
<1>7. NoRota => ScoreSolution(R) = ChainCost(R) + t
  BY ONLY <1>1, <1>4, <1>5, <1>6
<1>8. ChainCost(R) \in Nat
  BY ONLY <1>1, <1>4, <1>6
<1> QED
  BY <1>1, <1>4, <1>7, <1>8 DEF t

\* Who teaches a class what does not depend on the hours.
LEMMA SameTeachersMiss ==
  ASSUME NEW R, NEW S, SameHours(R, S)
  PROVE  ClassTeacherMisses(R) = ClassTeacherMisses(S)
<1> DEFINE misses(Q, x) == \E r \in ClassRows(Q, x[1]) :
                             /\ SubjectOf[r.lesson] = x[2]
                             /\ PrefersOwn(x[1], x[2], r.teacher)
<1>1. PICK f \in Bijection(R, S) : \A r \in R : f[r].lesson = r.lesson /\ f[r].teacher = r.teacher
  BY DEF SameHours
<1>2. (\A r \in R : f[r] \in S) /\ (\A q \in S : \E r \in R : f[r] = q)
  BY DEF Bijection, Injection, Surjection, IsInjective
<1>3. ASSUME NEW x PROVE misses(R, x) <=> misses(S, x)
  <2>1. ASSUME NEW r \in ClassRows(R, x[1]), SubjectOf[r.lesson] = x[2],
               PrefersOwn(x[1], x[2], r.teacher)
        PROVE  misses(S, x)
    <3>1. r \in R /\ x[1] \in ClassesOf[r.lesson]
      BY DEF ClassRows
    <3>2. f[r] \in S /\ f[r].lesson = r.lesson /\ f[r].teacher = r.teacher
      BY ONLY <1>1, <1>2, <3>1
    <3>3. f[r] \in ClassRows(S, x[1])
      BY ONLY <3>1, <3>2 DEF ClassRows
    <3> QED
      BY <2>1, <3>2, <3>3
  <2>2. ASSUME NEW q \in ClassRows(S, x[1]), SubjectOf[q.lesson] = x[2],
               PrefersOwn(x[1], x[2], q.teacher)
        PROVE  misses(R, x)
    <3>1. q \in S /\ x[1] \in ClassesOf[q.lesson]
      BY DEF ClassRows
    <3>2. PICK r \in R : q = f[r]
      BY ONLY <1>2, <3>1
    <3>3. q.lesson = r.lesson /\ q.teacher = r.teacher
      BY ONLY <1>1, <3>2
    <3>4. r \in ClassRows(R, x[1])
      BY ONLY <3>1, <3>3 DEF ClassRows
    <3> QED
      BY <2>2, <3>3, <3>4
  <2> QED
    BY <2>1, <2>2
<1>4. /\ ClassTeacherMisses(R) = Cardinality({x \in Classes \X Subjects : misses(R, x)})
      /\ ClassTeacherMisses(S) = Cardinality({x \in Classes \X Subjects : misses(S, x)})
  BY DEF ClassTeacherMisses
<1> HIDE DEF misses
<1>5. {x \in Classes \X Subjects : misses(R, x)} = {x \in Classes \X Subjects : misses(S, x)}
  BY ONLY <1>3
<1> QED
  BY ONLY <1>4, <1>5

\* While a chain is under way the totals are those of the schedule before it;
\* otherwise they are those of the placements.
PriceInv ==
    /\ ~Swapping => SliceInv /\ (NoRota => CanonInv)
    /\ Swapping => /\ chain.slice = SliceCost(Before) /\ chain.cost = ChainCost(Before)
                   /\ PinnedRows = {} => slice = SliceCost(Before)
                   /\ NoRota => canonical = ScoreSolution(Before)

\* At the start nothing is priced.
LEMMA StartPrice == KempeInit => PriceInv
<1>1. ScoredInit => SliceInv
  BY NoRowsNoSlice DEF ScoredInit, Init, SliceInv
<1>2. ScoredInit => CanonInv
  BY DEF ScoredInit, Init, CanonInv
<1>3. chain = NoChain => ~Swapping
  BY DEF Swapping, NoChain
<1> QED
  BY <1>1, <1>2, <1>3 DEF KempeInit, PriceInv

\* The moves without chains.
LEMMA MovePrice ==
  ASSUME KempeInv, KempeInv', PosInv, PriceInv, ~Swapping, ScoredNext, UNCHANGED chain
  PROVE  PriceInv'
<1>1. Inv /\ Inv' /\ SliceInv /\ (NoRota => CanonInv)
  BY DEF KempeInv, PriceInv
<1>2. SliceInv'
  <2>1. CASE PinnedRows = {}
    BY <1>1, <2>1, NextSlice
  <2>2. CASE PinnedRows # {}
    BY <2>2 DEF SliceInv
  <2> QED
    BY <2>1, <2>2
<1>3. NoRota => CanonInv'
  BY <1>1, NextCanonical
<1>4. ~Swapping'
  BY DEF Swapping
<1> QED
  BY <1>2, <1>3, <1>4 DEF PriceInv, NoRota

\* A ruin notes what the schedule costs.
LEMMA RuinPrice ==
  ASSUME KempeInv, KempeInv', PosInv, PriceInv, NEW l \in Lessons, KempeRuin(l)
  PROVE  PriceInv'
<1>1. Inv /\ phase = "search" /\ ~Swapping /\ rows \in SUBSET Row
  BY DEF KempeRuin, KempeInv, Inv, TypeOK
<1>2. PICK src, dest, start, to, R :
         /\ Departs(l, src, dest, start, to, R) /\ rows' = rows \ R
         /\ chain' = [day |-> to, start |-> start,
                      todo |-> DOMAIN to, ruined |-> R, added |-> {},
                      slice |-> RunningSlice, cost |-> RunningCost,
                      lessons |-> tally.lessonsOn]
  BY <1>1, RuinDeparts
<1>3. R \in SUBSET rows /\ R # {}
  BY <1>1, <1>2, LeavingRows
<1>4. /\ chain'.ruined = R /\ chain'.added = {}
      /\ chain'.slice = RunningSlice /\ chain'.cost = RunningCost
  BY <1>2
<1>5. Swapping' /\ Before' = rows
  BY <1>2, <1>3, <1>4 DEF Swapping, Before, Staying
<1>6. RunningSlice = SliceCost(rows) /\ RunningCost = ChainCost(rows)
  BY <1>1, RunningExact
<1>7. UNCHANGED <<slice, canonical>>
  BY DEF KempeRuin
<1>8. /\ PinnedRows = {} => slice = SliceCost(rows)
      /\ NoRota => canonical = ScoreSolution(rows)
  BY <1>1 DEF PriceInv, SliceInv, CanonInv
<1>9. /\ chain'.slice = SliceCost(Before') /\ chain'.cost = ChainCost(Before')
      /\ PinnedRows = {} => slice' = SliceCost(Before')
      /\ NoRota => canonical' = ScoreSolution(Before')
  BY <1>4, <1>5, <1>6, <1>7, <1>8
<1> QED
  BY <1>5, <1>9 DEF PriceInv, NoRota

\* A landing leaves what was before the chain as it was.
LEMMA PlacePrice ==
  ASSUME KempeInv, KempeInv', PosInv, PriceInv, NEW l \in Lessons, KempePlace(l)
  PROVE  PriceInv'
<1>1. Swapping /\ Inv /\ UnderWay /\ l \in chain.todo
  BY DEF KempePlace, Due, KempeInv
<1>2. PICK room \in KempeRooms(l) :
        LET B == Block(l, Target(l), room, TeacherNow(l))
        IN  /\ rows' = rows \cup B
            /\ chain' = [chain EXCEPT !.todo = @ \ {l}, !.added = @ \cup B]
  BY DEF KempePlace
<1>3. PICK B : /\ B = Block(l, Target(l), room, TeacherNow(l)) /\ rows' = rows \cup B
               /\ chain' = [chain EXCEPT !.todo = @ \ {l}, !.added = @ \cup B]
  BY <1>2
<1>4. rows \cap B = {}
  BY <1>1, <1>3, Landing
<1>5. /\ chain'.added = chain.added \cup B /\ chain'.ruined = chain.ruined
      /\ chain'.slice = chain.slice /\ chain'.cost = chain.cost
  BY <1>1, <1>3 DEF UnderWay, ChainShape
<1>6. Swapping' /\ Before' = Before
  BY <1>1, <1>3, <1>4, <1>5 DEF Swapping, Before, Staying
<1>7. UNCHANGED <<slice, canonical>>
  BY DEF KempePlace
<1> QED
  BY <1>1, <1>5, <1>6, <1>7 DEF PriceInv, NoRota

\* A swap that is kept is booked at the difference of two full prices.
LEMMA KeepPrice ==
  ASSUME KempeInv, KempeInv', PosInv, PriceInv, KempeKeep
  PROVE  PriceInv'
<1>1. Swapping /\ Inv /\ UnderWay /\ phase = "search" /\ phase' = "search"
  BY DEF KempeKeep, Swapped, KempeInv, UnderWay
<1>2. ~Swapping' /\ rows' = rows /\ SameHours(chain.ruined, chain.added)
  BY KeepKempeInv
<1>3. /\ chain.slice = SliceCost(Before) /\ chain.cost = ChainCost(Before)
      /\ PinnedRows = {} => slice = SliceCost(Before)
      /\ NoRota => canonical = ScoreSolution(Before)
  BY <1>1 DEF PriceInv
<1>4. RunningSlice = SliceCost(rows) /\ RunningCost = ChainCost(rows)
  BY <1>1, RunningExact
<1>5. /\ slice' = Floor0(slice + RunningSlice - chain.slice)
      /\ canonical' = Floor0(canonical + RunningCost - chain.cost)
  BY DEF KempeKeep, CostAfter
<1>6. /\ chain.ruined \in SUBSET Row /\ chain.added \in SUBSET rows
      /\ Staying \cap chain.ruined = {} /\ rows \in SUBSET Row
  BY <1>1 DEF UnderWay, ChainRows, Inv, TypeOK
<1>7. ClassTeacherMisses(Before) = ClassTeacherMisses(rows)
  <2> DEFINE O == chain.ruined
             N == chain.added
  <2>1. O \in SUBSET Before /\ (Before \ O) \cap N = {} /\ rows = (Before \ O) \cup N
    BY <1>6 DEF Before, Staying
  <2>2. SameHours(O, N)
    BY <1>2
  <2> HIDE DEF O, N
  <2>3. SameHours(Before, rows)
    BY ONLY <2>1, <2>2, SameHoursBeside
  <2> QED
    BY <2>3, SameTeachersMiss
<1>8. Before \in SUBSET Row
  BY <1>6 DEF Before, Staying
<1>9. /\ SliceCost(rows) \in Nat /\ ChainCost(rows) \in Nat /\ ScoreSolution(rows) \in Nat
      /\ Weight["classTeacher"] * ClassTeacherMisses(rows) \in Nat
      /\ NoRota => ScoreSolution(rows) = ChainCost(rows)
                                         + Weight["classTeacher"] * ClassTeacherMisses(rows)
  BY ONLY <1>6, ChainCostRest
<1>10. /\ SliceCost(Before) \in Nat /\ ChainCost(Before) \in Nat
       /\ NoRota => ScoreSolution(Before) = ChainCost(Before)
                                            + Weight["classTeacher"] * ClassTeacherMisses(Before)
  BY ONLY <1>8, ChainCostRest
<1>11. PinnedRows = {} => slice' = SliceCost(rows)
  BY ONLY <1>3, <1>4, <1>5, <1>9, <1>10 DEF Floor0, Higher
<1>12. NoRota => canonical' = ScoreSolution(rows)
  <2>1. ASSUME NoRota PROVE canonical' = Floor0(ScoreSolution(rows))
    BY ONLY <1>3, <1>4, <1>5, <1>7, <1>9, <1>10, <2>1
  <2> QED
    BY ONLY <1>9, <2>1 DEF Floor0, Higher
<1>13. SliceInv' /\ (NoRota => CanonInv')
  BY <1>1, <1>2, <1>11, <1>12 DEF SliceInv, CanonInv
<1> QED
  BY <1>2, <1>13 DEF PriceInv, NoRota

\* A rollback needs no price.
LEMMA UndoPrice ==
  ASSUME KempeInv, KempeInv', PosInv, PriceInv, KempeUndo
  PROVE  PriceInv'
<1>1. Swapping /\ phase = "search" /\ phase' = "search" /\ UNCHANGED <<slice, canonical>>
  BY DEF KempeUndo, Stuck, Swapped, KempeInv, UnderWay
<1>2. ~Swapping' /\ rows' = Before
  BY UndoKempeInv
<1>3. SliceInv' /\ (NoRota => CanonInv')
  BY <1>1, <1>2 DEF PriceInv, SliceInv, CanonInv
<1> QED
  BY <1>2, <1>3 DEF PriceInv, NoRota

\* So it is after every step.
LEMMA PriceInvariance == KempeSpec => []PriceInv
<1>1. KempeInit => PriceInv
  BY StartPrice
<1>2. KempeInv /\ KempeInv' /\ PositionsMirrorRows /\ PriceInv /\ [KempeNext]_allVars => PriceInv'
  <2> SUFFICES ASSUME KempeInv, KempeInv', PositionsMirrorRows, PriceInv, [KempeNext]_allVars
               PROVE  PriceInv'
    OBVIOUS
  <2>1. PosInv
    BY DEF PosInv, PositionsMirrorRows
  <2>2. CASE UNCHANGED allVars
    BY <2>2 DEF allVars, vars, costVars, PriceInv, SliceInv, CanonInv, Swapping, Before,
                Staying, Base, NoRota
  <2>3. CASE ~Swapping /\ ScoredNext /\ UNCHANGED chain
    BY <2>1, <2>3, MovePrice
  <2>4. CASE \E l \in Lessons : KempeRuin(l) \/ KempePlace(l)
    BY <2>1, <2>4, RuinPrice, PlacePrice
  <2>5. CASE KempeKeep
    BY <2>1, <2>5, KeepPrice
  <2>6. CASE KempeUndo
    BY <2>1, <2>6, UndoPrice
  <2> QED
    BY <2>2, <2>3, <2>4, <2>5, <2>6 DEF KempeNext
<1> QED
  BY <1>1, <1>2, KempeInvariance, ChainsPositionsExact, PTL DEF KempeSpec

\* Without a rota and soft pins to price, the running cost is that of the
\* placements whenever no chain is under way, pins or not: a chain's difference
\* is that of two full prices, and after a rollback the old one is right again.
THEOREM ChainsCostExact ==
  ASSUME NoRota
  PROVE  KempeSpec => [](~Swapping => CanonicalExact)
<1>1. PriceInv => (~Swapping => CanonicalExact)
  BY DEF PriceInv, CanonInv, CanonicalExact
<1> QED
  BY <1>1, PriceInvariance, PTL

\* Without pins the running slice is exact, too.
THEOREM ChainsPricedExactly ==
  ASSUME NoRota, PinnedRows = {}
  PROVE  KempeSpec => []ChainPricedExactly
<1>1. PriceInv => ChainPricedExactly
  BY DEF PriceInv, SliceInv, CanonInv, ChainPricedExactly
<1> QED
  BY <1>1, PriceInvariance, PTL

\* The tail of an attempt chooses the running best by exact prices.
LEMMA EndPromised ==
  ASSUME NoRota, KempeInv, KempeInv', PriceInv', PromisedInv, KempeKeep \/ KempeUndo
  PROVE  PromisedInv' /\ IterationEnds /\ (ScoreIsPrice => BestPriced)
<1>1. Swapping /\ Tick /\ phase' = phase
  BY DEF KempeKeep, KempeUndo, Stuck, Swapped
<1>2. IterationEnds /\ phase = "search"
  BY <1>1 DEF KempeInv, UnderWay, IterationEnds
<1>3. ~Swapping'
  BY KeepKempeInv, UndoKempeInv DEF KempeKeep, NoChain, Swapping
<1>4. Inv /\ Inv' /\ CanonInv'
  BY <1>3 DEF KempeInv, PriceInv, NoRota
<1> QED
  BY <1>1, <1>2, <1>4, TailPriced

\* Every step sees to it, and keeps the promise.
LEMMA KempeKeepsPromise ==
  ASSUME NoRota, ScoreIsPrice, KempeInv, KempeInv', PriceInv, PriceInv', PromisedInv,
         [KempeNext]_allVars
  PROVE  PromisedInv' /\ [Promise!Next]_<<best, Stage>>
<1>1. Inv /\ Inv'
  BY DEF KempeInv
<1>2. ASSUME [PricedNext]_vars PROVE [Promise!Next]_<<best, Stage>>
  BY <1>1, <1>2, StepKeepsPromise
<1>3. CASE UNCHANGED allVars
  <2>1. UNCHANGED vars /\ PromisedInv'
    BY <1>3 DEF allVars, vars, costVars, PromisedInv
  <2> QED
    BY <1>2, <2>1
<1>4. CASE ~Swapping /\ ScoredNext /\ UNCHANGED chain
  <2>1. CanonInv'
    <3>1. ~Swapping'
      BY <1>4 DEF Swapping
    <3> QED
      BY <3>1 DEF PriceInv, NoRota
  <2>2. PromisedInv' /\ BestPriced
    BY <1>1, <1>4, <2>1, NextPromised
  <2>3. [PricedNext]_vars
    BY <1>4, <2>2, ScoredStep DEF PricedNext
  <2> QED
    BY <1>2, <2>2, <2>3
<1>5. CASE \E l \in Lessons : KempeRuin(l) \/ KempePlace(l)
  <2>1. UNCHANGED <<phase, best, promised>>
    BY <1>5 DEF KempeRuin, KempePlace
  <2>2. UNCHANGED <<best, Stage>> /\ PromisedInv'
    BY <2>1 DEF Stage, PromisedInv
  <2> QED
    BY <2>2
<1>6. CASE KempeKeep \/ KempeUndo
  <2>1. PromisedInv' /\ IterationEnds /\ BestPriced
    BY <1>6, EndPromised
  <2>2. phase = "search" /\ phase' = "search"
    BY <1>6, <2>1 DEF KempeKeep, KempeUndo, IterationEnds
  <2>3. Promise!Improve \/ UNCHANGED <<best, Stage>>
    BY <1>1, <2>1, <2>2, IterationKeepsPromise DEF Phases
  <2> QED
    BY <2>1, <2>3 DEF Promise!Next
<1> QED
  BY <1>3, <1>4, <1>5, <1>6 DEF KempeNext

\* Without a rota and soft pins to price, a solve with chains keeps the anytime
\* promise: what a cancellation would return only ever improves, and is never a
\* half-swapped schedule with a conflict or without a pin.  (With them a
\* kept chain leaves a running cost that is none of its schedule, and the
\* running best may be replaced by a dearer one.)
THEOREM ChainsAnytime ==
  ASSUME NoRota, ScoreIsPrice
  PROVE  KempeSpec => KeepsPromise
<1>1. KempeInit => Promise!Init /\ PromisedInv
  BY DEF KempeInit, ScoredInit, Init, Promise!Init, Stage, PromisedInv
<1>2. /\ KempeInv /\ KempeInv' /\ PriceInv /\ PriceInv' /\ PromisedInv /\ [KempeNext]_allVars
      => PromisedInv' /\ [Promise!Next]_<<best, Stage>>
  BY KempeKeepsPromise
<1> QED
  BY <1>1, <1>2, KempeInvariance, PriceInvariance, PTL
     DEF KempeSpec, KeepsPromise, Promise!Spec

-----------------------------------------------------------------------------
(* Class caps and the lesson counter, where every block is one hour.         *)

\* No lesson has two rows.
Lone(R) == \A r, q \in R : r.lesson = q.lesson => r = q

\* Then as many blocks touch a class's day as it has hours.
LEMMA LoneBlocks ==
  ASSUME NEW R \in SUBSET Row, Lone(R), NEW x
  PROVE  BlocksAt(BlocksOf(R), x) = HoursAt(R, x) /\ HoursAt(R, x) \in Nat
<1> DEFINE A == Attended(R, x)
           T == {B \in BlocksOf(R) : \E r \in B : x[1] \in ClassesOf[r.lesson]
                                                  /\ Day(r.slot) = x[2]}
           f == [r \in A |-> {r}]
<1>1. \A r \in R : RowsOfOn(R, r.lesson, Day(r.slot)) = {r}
  BY DEF Lone, RowsOfOn
<1>2. BlocksOf(R) = {{r} : r \in R}
  BY <1>1 DEF BlocksOf
<1>3. T = {{r} : r \in A}
  BY <1>2 DEF Attended
<1>4. A \in SUBSET Row
  BY DEF Attended
<1>5. IsFiniteSet(A) /\ Cardinality(A) \in Nat
  BY <1>4, ScheduleFinite
<1> HIDE DEF A, T
<1>6. f \in Bijection(A, T)
  <2>1. f \in [A -> T] /\ \A B \in T : \E r \in A : f[r] = B
    BY <1>3
  <2>2. \A r, q \in A : f[r] = f[q] => r = q
    OBVIOUS
  <2> HIDE DEF f
  <2> QED
    BY <2>1, <2>2, Zenon DEF Bijection, Injection, Surjection, IsInjective
<1> HIDE DEF f
<1>7. Cardinality(T) = Cardinality(A)
  BY <1>5, <1>6, FS_Bijection DEF ExistsBijection
<1> QED
  BY <1>5, <1>7 DEF HoursAt, BlocksAt, A, T

\* Members with one row each.
LEMMA LoneMembers ==
  ASSUME NEW R \in SUBSET Row, \A r \in R : Cardinality(RowsOf(R, r.lesson)) = 1
  PROVE  Lone(R)
<1> SUFFICES ASSUME NEW r \in R, NEW q \in R, r.lesson = q.lesson PROVE r = q
  BY DEF Lone
<1>1. RowsOf(R, r.lesson) \in SUBSET Row /\ {r, q} \subseteq RowsOf(R, r.lesson)
  BY DEF RowsOf
<1>2. IsFiniteSet(RowsOf(R, r.lesson)) /\ Cardinality(RowsOf(R, r.lesson)) = 1
  BY <1>1, ScheduleFinite
<1>3. PICK p : RowsOf(R, r.lesson) = {p}
  BY <1>2, FS_Singleton
<1> QED
  BY <1>1, <1>3

\* No rows, no hours.
LEMMA NoHours == \A x : HoursAt({}, x) = 0
<1>1. \A x : Attended({}, x) = {}
  BY DEF Attended
<1> QED
  BY <1>1, FS_EmptySet DEF HoursAt

\* The lesson counter between a ruin and its end: what it was, less the hours
\* that are out, and the schedule a rollback goes back to keeps the class caps.
Tracked ==
    /\ Lone(chain.ruined) /\ Lone(chain.added) /\ ClassHours(Before)
    /\ \A x \in Classes \X Days :
         /\ chain.lessons[x] \in Nat
         /\ tally.lessonsOn[x] + HoursAt(chain.ruined, x)
              = chain.lessons[x] + HoursAt(chain.added, x)

LessonInv == ClassInv /\ (Swapping => Tracked)

\* A ruin discounts exactly the hours it takes out.
LEMMA RuinLessons ==
  ASSUME OneHourBlocks, KempeInv, LessonInv, NEW l \in Lessons, KempeRuin(l)
  PROVE  LessonInv'
<1>1. Inv /\ phase = "search" /\ phase' = "search" /\ UNCHANGED best
  BY DEF KempeInv, KempeRuin
<1>2. /\ rows \in SUBSET Row /\ tally \in TallyType
      /\ HoursCovered(rows, tally) /\ ClassHours(rows) /\ ClassHours(best)
  BY <1>1 DEF Inv, TypeOK, LessonInv, ClassInv
<1>3. PICK src, dest, start, to, R :
        /\ Departs(l, src, dest, start, to, R)
        /\ rows' = rows \ R
        /\ tally' = FewerLessons(CountOut(tally, R), BlocksOf(R), 1)
        /\ chain' = [day |-> to, start |-> start,
                     todo |-> DOMAIN to, ruined |-> R, added |-> {},
                     slice |-> RunningSlice, cost |-> RunningCost,
                     lessons |-> tally.lessonsOn]
  BY <1>2, RuinDeparts
<1>4. /\ R \in SUBSET rows /\ R \in SUBSET Row /\ DOMAIN to \subseteq Lessons
      /\ \A r \in R : r.lesson \in DOMAIN to
      /\ \A m \in DOMAIN to : Cardinality(RowsOf(R, m)) = BlockSize[m]
  <2>1. rows \in SUBSET Row /\ Departs(l, src, dest, start, to, R)
    BY <1>2, <1>3
  <2>2. R \in SUBSET rows /\ DOMAIN to \subseteq Lessons \ Frozen
    BY ONLY <2>1, LeavingRows
  <2>3. \A r \in R : r.lesson \in DOMAIN to
    BY ONLY <2>1, LeavingRows
  <2>4. \A m \in DOMAIN to :
          /\ \E d : RowsOf(R, m) = RowsOfOn(rows, m, d)
          /\ Cardinality(RowsOf(R, m)) = BlockSize[m]
          /\ Window(<<to[m], start>>, BlockSize[m]) \subseteq Slots
    BY ONLY <2>1, LeavingRows
  <2>5. \A m \in DOMAIN to : Cardinality(RowsOf(R, m)) = BlockSize[m]
    BY ONLY <2>4
  <2> QED
    BY ONLY <2>1, <2>2, <2>3, <2>5
<1>5. Lone(R)
  <2>1. \A r \in R : Cardinality(RowsOf(R, r.lesson)) = 1
    BY <1>4 DEF OneHourBlocks
  <2> QED
    BY ONLY <1>4, <2>1, LoneMembers
<1>6. /\ chain'.ruined = R /\ chain'.added = {} /\ chain'.lessons = tally.lessonsOn
      /\ Before' = rows
  BY <1>3, <1>4 DEF Before, Staying
<1>7. ASSUME NEW x \in Classes \X Days
      PROVE  /\ tally.lessonsOn[x] \in Nat
             /\ tally'.lessonsOn[x] + HoursAt(R, x) = tally.lessonsOn[x]
             /\ HoursAt(rows \ R, x) <= tally'.lessonsOn[x]
  <2> DEFINE b == CountOut(tally, R)
             v == tally.lessonsOn[x]
             w == tally'.lessonsOn[x]
  <2>1. b \in TallyType /\ b.lessonsOn = tally.lessonsOn
    BY <1>2, <1>4, CountType, LessonsUntouched
  <2>2. FewerLessons(b, BlocksOf(R), 1).lessonsOn[x] = SatSub(b.lessonsOn[x], 1 * BlocksAt(BlocksOf(R), x))
    BY <2>1, LessonFields
  <2>3. BlocksAt(BlocksOf(R), x) = HoursAt(R, x) /\ HoursAt(R, x) \in Nat
    BY <1>4, <1>5, LoneBlocks
  <2>4. w = SatSub(v, 1 * HoursAt(R, x))
    BY <1>3, <2>1, <2>2, <2>3
  <2>5. v \in Nat /\ HoursAt(rows, x) <= v
    BY <1>2, LessonFields DEF HoursCovered
  <2>6. /\ HoursAt(rows, x) = HoursAt(rows \ R, x) + HoursAt(R, x)
        /\ HoursAt(rows \ R, x) \in Nat
    BY <1>2, <1>4, HoursLeft
  <2> HIDE DEF v, w
  <2>7. w = v - HoursAt(R, x)
    BY <2>3, <2>4, <2>5, <2>6 DEF SatSub
  <2>8. v \in Nat /\ w + HoursAt(R, x) = v /\ HoursAt(rows \ R, x) <= w
    BY <2>3, <2>5, <2>6, <2>7
  <2> QED
    BY <2>8 DEF v, w
<1>8. HoursCovered(rows', tally') /\ ClassHours(rows')
  <2>1. ClassHours(rows \ R)
    BY <1>2, <1>4, PartClassHours
  <2> QED
    BY <1>3, <1>7, <2>1 DEF HoursCovered
<1>9. Tracked'
  <2>1. \A x \in Classes \X Days :
          /\ chain'.lessons[x] \in Nat
          /\ tally'.lessonsOn[x] + HoursAt(chain'.ruined, x)
               = chain'.lessons[x] + HoursAt(chain'.added, x)
    <3> SUFFICES ASSUME NEW x \in Classes \X Days
                 PROVE  /\ tally.lessonsOn[x] \in Nat
                        /\ tally'.lessonsOn[x] + HoursAt(R, x) = tally.lessonsOn[x] + HoursAt({}, x)
      BY <1>6
    <3>1. HoursAt({}, x) = 0
      BY NoHours
    <3> QED
      BY <1>7, <3>1
  <2> QED
    BY <1>2, <1>5, <1>6, <2>1 DEF Tracked, Lone
<1>10. ClassInv'
  BY <1>1, <1>2, <1>8 DEF ClassInv
<1> QED
  BY <1>9, <1>10 DEF LessonInv

\* A landing counts the hour in once the caps have room for it.
LEMMA LandLessons ==
  ASSUME OneHourBlocks, KempeInv, LessonInv, NEW l \in Lessons, KempePlace(l)
  PROVE  LessonInv'
<1>1. Inv /\ UnderWay /\ phase = "search" /\ Aside /\ l \in chain.todo /\ Swapping
  BY DEF KempeInv, KempePlace, Due, UnderWay, Aside
<1>2. /\ TypeOK /\ rows \in SUBSET Row /\ tally \in TallyType
      /\ HoursCovered(rows, tally) /\ ClassHours(rows) /\ ClassHours(best) /\ Tracked
  BY <1>1 DEF Inv, TypeOK, LessonInv, ClassInv
<1>3. PICK room \in KempeRooms(l) :
        LET B == Block(l, Target(l), room, TeacherNow(l))
        IN  /\ rows' = rows \cup B
            /\ used' = Occupy(used, B)
            /\ tally' = MoreLessons(CountIn(tally, B), {B}, 1)
            /\ chain' = [chain EXCEPT !.todo = @ \ {l}, !.added = @ \cup B]
  BY Zenon DEF KempePlace
<1> DEFINE B == Block(l, Target(l), room, TeacherNow(l))
<1>4. /\ rows' = rows \cup B
      /\ tally' = MoreLessons(CountIn(tally, B), {B}, 1)
      /\ chain' = [chain EXCEPT !.todo = @ \ {l}, !.added = @ \cup B]
  BY <1>3
<1>5. l \in Members /\ Target(l) \in Slots /\ Day(Target(l)) = chain.day[l]
  <2>1. l \in Members
    BY <1>1 DEF UnderWay, ClearWay
  <2> QED
    BY <1>1, <2>1, TargetSlot
<1>6. B = Block(l, Target(l), room, TeacherNow(l))
  OBVIOUS
<1> HIDE DEF B
<1>7. B \in SUBSET Row /\ Orderly(rows \cup B) /\ rows \cap B = {}
  BY <1>1, <1>6, Landing
<1>8. PICK q : B = {q} /\ q.lesson = l /\ Day(q.slot) = Day(Target(l))
  BY <1>5, <1>6, SingleRow
<1>9. q \in Row /\ q \notin rows /\ rows' = rows \cup {q}
  BY <1>4, <1>7, <1>8
<1>10. \A x \in Classes \X Days : tally'.lessonsOn[x] = tally.lessonsOn[x] + BlocksAt({{q}}, x)
  <2> SUFFICES ASSUME NEW x \in Classes \X Days
               PROVE  tally'.lessonsOn[x] = tally.lessonsOn[x] + BlocksAt({{q}}, x)
    OBVIOUS
  <2> DEFINE b == CountIn(tally, B)
  <2>1. b \in TallyType /\ b.lessonsOn = tally.lessonsOn
    BY <1>2, <1>7, CountType, LessonsUntouched
  <2> HIDE DEF b
  <2>2. MoreLessons(b, {B}, 1).lessonsOn[x] = b.lessonsOn[x] + 1 * BlocksAt({B}, x)
    BY <2>1, LessonFields
  <2>3. BlocksAt({B}, x) \in Nat
    <3>1. BlocksAt({{q}}, x) = Hit(q, x) /\ Hit(q, x) \in Nat
      BY HoursOfOne DEF Hit
    <3> QED
      BY <1>8, <3>1
  <2>4. 1 * BlocksAt({B}, x) = BlocksAt({B}, x)
    BY <2>3
  <2> QED
    BY <1>4, <1>8, <2>1, <2>2, <2>4 DEF b
<1>11. HoursCovered(rows', tally') /\ ClassHours(rows')
  <2>1. UnderCaps(q.lesson, Day(q.slot), BlockSize[l], 1)
    BY <1>5, <1>8 DEF KempePlace, CanLand
  <2> QED
    BY <1>2, <1>9, <1>10, <2>1, HourPlaced
<1>12. /\ chain'.ruined = chain.ruined /\ chain'.lessons = chain.lessons
       /\ chain'.added = chain.added \cup {q}
  <2>1. ChainShape
    BY <1>1 DEF UnderWay
  <2> QED
    BY ONLY <1>4, <1>8, <2>1 DEF ChainShape
<1>13. chain.added \in SUBSET rows /\ \A r \in chain.added : r.lesson # l
  BY <1>1 DEF UnderWay, ChainRows
<1>14. Before' = Before
  BY <1>9, <1>12, <1>13 DEF Before, Staying
<1>15. Tracked'
  <2>1. Lone(chain'.added)
    BY <1>2, <1>8, <1>12, <1>13 DEF Tracked, Lone
  <2>2. ASSUME NEW x \in Classes \X Days
        PROVE  /\ chain.lessons[x] \in Nat
               /\ tally'.lessonsOn[x] + HoursAt(chain.ruined, x)
                    = chain.lessons[x] + HoursAt(chain.added \cup {q}, x)
    <3>1. /\ HoursAt(chain.added \cup {q}, x) = HoursAt(chain.added, x) + HoursAt({q}, x)
          /\ HoursAt(chain.added, x) \in Nat /\ HoursAt({q}, x) \in Nat
      <4>1. chain.added \in SUBSET Row /\ {q} \in SUBSET Row /\ chain.added \cap {q} = {}
        BY <1>2, <1>9, <1>13
      <4> QED
        BY ONLY <4>1, HoursOfUnion
    <3>2. HoursAt({q}, x) = BlocksAt({{q}}, x)
      BY HoursOfOne
    <3>3. tally.lessonsOn[x] \in Nat
      BY <1>2, LessonFields
    <3>4. HoursAt(chain.ruined, x) \in Nat
      <4>1. chain.ruined \in SUBSET Row
        BY <1>1, ChainUnpinned
      <4> QED
        BY <4>1, HoursLeft
    <3>5. /\ chain.lessons[x] \in Nat
          /\ tally.lessonsOn[x] + HoursAt(chain.ruined, x)
               = chain.lessons[x] + HoursAt(chain.added, x)
      BY <1>2 DEF Tracked
    <3>6. tally'.lessonsOn[x] = tally.lessonsOn[x] + HoursAt({q}, x)
      BY <1>10, <3>2
    <3> QED
      BY <3>1, <3>3, <3>4, <3>5, <3>6
  <2>3. Lone(chain.ruined) /\ ClassHours(Before)
    BY <1>2 DEF Tracked
  <2> QED
    BY <1>12, <1>14, <2>1, <2>2, <2>3 DEF Tracked
<1>16. ClassInv'
  BY <1>1, <1>2, <1>11 DEF ClassInv, Aside
<1> QED
  BY <1>15, <1>16 DEF LessonInv

\* A rollback counts the blocks that came out and those that left back in.
LEMMA UndoneLessons ==
  ASSUME OneHourBlocks, KempeInv, LessonInv, KempeUndo
  PROVE  \A x \in Classes \X Days : tally'.lessonsOn[x] = chain.lessons[x]
<1>1. Swapping /\ tally' = KempeRecount
  BY DEF KempeUndo, Stuck, Swapped
<1>2. Inv /\ UnderWay /\ Tracked /\ phase = "search"
  BY <1>1 DEF KempeInv, UnderWay, LessonInv
<1>3. /\ tally \in TallyType /\ HoursCovered(rows, tally) /\ rows \in SUBSET Row
      /\ chain.added \in SUBSET rows /\ chain.ruined \in SUBSET Row
  BY <1>2, ChainUnpinned DEF Inv, TypeOK, LessonInv, ClassInv
<1> DEFINE A == chain.added
           R == chain.ruined
           b == Recount(tally, A, R)
           m == FewerLessons(b, BlocksOf(A), 1)
<1>4. A \in SUBSET rows /\ A \in SUBSET Row /\ R \in SUBSET Row
  BY <1>3
<1>5. b \in TallyType /\ b.lessonsOn = tally.lessonsOn
  <2>1. CountOut(tally, A) \in TallyType /\ CountOut(tally, A).lessonsOn = tally.lessonsOn
    BY <1>3, <1>4, CountType, LessonsUntouched
  <2> QED
    BY <1>4, <2>1, CountType, LessonsUntouched DEF Recount
<1>6. BlocksOf(A) \in SUBSET SUBSET Row
  BY <1>4, BlocksOfType
<1> HIDE DEF b
<1>7. m \in TallyType
  BY <1>5, <1>6, LessonsType
<1>8. tally' = MoreLessons(m, BlocksOf(R), 1)
  BY <1>1 DEF KempeRecount, b
<1> SUFFICES ASSUME NEW x \in Classes \X Days PROVE tally'.lessonsOn[x] = chain.lessons[x]
  OBVIOUS
<1>9. m.lessonsOn[x] = SatSub(tally.lessonsOn[x], 1 * BlocksAt(BlocksOf(A), x))
  BY <1>5, LessonFields
<1> HIDE DEF m
<1>10. tally'.lessonsOn[x] = m.lessonsOn[x] + 1 * BlocksAt(BlocksOf(R), x)
  BY <1>7, <1>8, LessonFields
<1>11. /\ BlocksAt(BlocksOf(A), x) = HoursAt(A, x) /\ HoursAt(A, x) \in Nat
       /\ BlocksAt(BlocksOf(R), x) = HoursAt(R, x) /\ HoursAt(R, x) \in Nat
  <2>1. Lone(A) /\ Lone(R)
    BY <1>2 DEF Tracked
  <2> QED
    BY <1>4, <2>1, LoneBlocks
<1>12. /\ HoursAt(rows, x) = HoursAt(rows \ A, x) + HoursAt(A, x)
       /\ HoursAt(rows \ A, x) \in Nat
  BY <1>3, <1>4, HoursLeft
<1>13. tally.lessonsOn[x] \in Nat /\ HoursAt(rows, x) <= tally.lessonsOn[x]
  BY <1>3, LessonFields DEF HoursCovered
<1>14. /\ chain.lessons[x] \in Nat
       /\ tally.lessonsOn[x] + HoursAt(R, x) = chain.lessons[x] + HoursAt(A, x)
  BY <1>2 DEF Tracked
<1> HIDE DEF A, R
<1>15. m.lessonsOn[x] = tally.lessonsOn[x] - HoursAt(A, x)
  BY <1>9, <1>11, <1>12, <1>13 DEF SatSub
<1> QED
  BY <1>10, <1>11, <1>12, <1>13, <1>14, <1>15

\* An attempt ends: kept, the schedule stays as it is; undone, it and its
\* counter are as before.
LEMMA EndLessons ==
  ASSUME OneHourBlocks, KempeInv, LessonInv, KempeKeep \/ KempeUndo
  PROVE  LessonInv'
<1>1. /\ Swapping /\ phase' = "search" /\ EndIteration(rows') /\ ~Swapping'
  BY KeepKempeInv, UndoKempeInv DEF KempeKeep, KempeUndo, Stuck, Swapped, KempeInv, UnderWay, EndIteration
<1>2. Inv /\ UnderWay /\ Tracked /\ phase = "search" /\ ClassInv
  BY <1>1 DEF KempeInv, UnderWay, LessonInv
<1>3. HoursCovered(rows', tally') /\ ClassHours(rows')
  <2>1. CASE KempeKeep
    <3>1. UNCHANGED <<rows, tally>>
      BY <2>1 DEF KempeKeep
    <3> QED
      BY <1>2, <3>1 DEF ClassInv
  <2>2. CASE KempeUndo
    <3>1. rows' = Before /\ ClassHours(Before)
      BY <1>2, <2>2, UndoKempeInv DEF Tracked
    <3>2. ASSUME NEW x \in Classes \X Days PROVE HoursAt(Before, x) <= tally'.lessonsOn[x]
      <4> DEFINE A == chain.added
                 R == chain.ruined
                 v == tally.lessonsOn[x]
      <4>1. /\ rows \in SUBSET Row /\ A \in SUBSET rows /\ R \in SUBSET Row
            /\ (rows \ A) \cap R = {} /\ Before = (rows \ A) \cup R
            /\ tally \in TallyType /\ HoursCovered(rows, tally)
        BY <1>2, ChainUnpinned DEF Inv, TypeOK, ClassInv, Before, Staying
      <4>2. /\ HoursAt(rows, x) = HoursAt(rows \ A, x) + HoursAt(A, x)
            /\ HoursAt(rows \ A, x) \in Nat /\ HoursAt(A, x) \in Nat
        BY ONLY <4>1, HoursLeft
      <4>3. /\ HoursAt(Before, x) = HoursAt(rows \ A, x) + HoursAt(R, x)
            /\ HoursAt(R, x) \in Nat
        <5>1. TwoParts(Before, rows \ A, R)
          BY <4>1 DEF TwoParts
        <5> QED
          BY ONLY <5>1, HoursOfParts
      <4>4. v \in Nat /\ HoursAt(rows, x) <= v
        BY <4>1, LessonFields DEF HoursCovered
      <4>5. chain.lessons[x] \in Nat /\ v + HoursAt(R, x) = chain.lessons[x] + HoursAt(A, x)
        BY <1>2 DEF Tracked
      <4>6. tally'.lessonsOn[x] = chain.lessons[x]
        BY <2>2, UndoneLessons
      <4> HIDE DEF A, R, v
      <4> QED
        BY <4>2, <4>3, <4>4, <4>5, <4>6
    <3> QED
      BY <3>1, <3>2 DEF HoursCovered
  <2> QED
    BY <2>1, <2>2
<1>4. ClassInv'
  BY <1>1, <1>2, <1>3, SearchClassInv
<1> QED
  BY <1>1, <1>4 DEF LessonInv

\* Where every block is one hour, counter and class caps hold throughout a
\* search with chains.
LEMMA LessonInvariance ==
  ASSUME OneHourBlocks
  PROVE  KempeSpec => [](KempeInv /\ LessonInv)
<1>1. KempeInit => LessonInv
  <2>1. KempeInit => Init /\ ~Swapping
    BY DEF KempeInit, ScoredInit, NoChain, Swapping
  <2> QED
    BY <2>1, InitClassInv DEF LessonInv
<1>2. KempeInv /\ LessonInv /\ [KempeNext]_allVars => LessonInv'
  <2> SUFFICES ASSUME KempeInv, LessonInv, [KempeNext]_allVars PROVE LessonInv'
    OBVIOUS
  <2>1. CASE UNCHANGED allVars
    <3>1. UNCHANGED vars /\ UNCHANGED chain /\ UNCHANGED <<rows, tally>>
      BY <2>1 DEF allVars, vars
    <3>2. Inv /\ ClassInv /\ [Next]_vars
      BY <3>1 DEF KempeInv, LessonInv
    <3>3. Swapping' = Swapping /\ (Tracked => Tracked')
      BY <3>1 DEF Swapping, Tracked, Before, Staying
    <3> QED
      BY <3>2, <3>3, NextClassInv DEF LessonInv
  <2>2. CASE ~Swapping /\ ScoredNext /\ UNCHANGED chain
    <3>1. Inv /\ ClassInv /\ [Next]_vars /\ ~Swapping'
      BY <2>2, ScoredStep DEF KempeInv, LessonInv, Swapping
    <3> QED
      BY <3>1, NextClassInv DEF LessonInv
  <2>3. CASE \E l \in Lessons : KempeRuin(l) \/ KempePlace(l)
    BY <2>3, RuinLessons, LandLessons
  <2>4. CASE KempeKeep \/ KempeUndo
    BY <2>4, EndLessons
  <2> QED
    BY <2>1, <2>2, <2>3, <2>4 DEF KempeNext
<1> QED
  BY <1>1, <1>2, KempeInitInv, KempeNextInv, PTL DEF KempeSpec

\* Where every block is one hour, a chain that was kept has moved the lesson
\* counter by the blocks that came and those that went, and one that was rolled
\* back has not moved it: the counter never saturates in between.
THEOREM ChainsKeepLessonCount ==
  ASSUME OneHourBlocks
  PROVE  KempeSpec => ChainKeepsLessonCount
<1> DEFINE Kept(x) ==
             tally'.lessonsOn[x] =
               IF chain.ruined \subseteq rows' THEN chain.lessons[x]
               ELSE chain.lessons[x] + BlocksAt(BlocksOf(chain.added), x)
                                     - BlocksAt(BlocksOf(chain.ruined), x)
<1>1. KempeInv /\ LessonInv /\ [KempeNext]_allVars
        => [Swapping /\ ~Swapping' => \A x \in Classes \X Days : Kept(x)]_allVars
  <2> SUFFICES ASSUME KempeInv, LessonInv, [KempeNext]_allVars, Swapping, ~Swapping',
                      NEW x \in Classes \X Days
               PROVE  Kept(x)
    OBVIOUS
  <2>1. KempeKeep \/ KempeUndo
    BY AttemptEndsBy
  <2>2. CASE KempeUndo
    <3>1. chain.ruined \subseteq rows'
      BY <2>2, UndoKempeInv DEF Before
    <3>2. tally'.lessonsOn[x] = chain.lessons[x]
      BY <2>2, UndoneLessons
    <3> QED
      BY <3>1, <3>2
  <2>3. CASE KempeKeep
    <3> DEFINE A == chain.added
               R == chain.ruined
               v == tally.lessonsOn[x]
    <3>1. Inv /\ UnderWay /\ Tracked /\ UNCHANGED <<rows, tally>>
      BY <2>3 DEF KempeInv, LessonInv, KempeKeep
    <3>2. A \in SUBSET Row /\ R \in SUBSET Row
      BY <3>1, ChainUnpinned DEF Inv, TypeOK
    <3>3. /\ BlocksAt(BlocksOf(A), x) = HoursAt(A, x) /\ HoursAt(A, x) \in Nat
          /\ BlocksAt(BlocksOf(R), x) = HoursAt(R, x) /\ HoursAt(R, x) \in Nat
      <4>1. Lone(A) /\ Lone(R)
        BY <3>1 DEF Tracked
      <4> QED
        BY <3>2, <4>1, LoneBlocks
    <3>4. v \in Nat
      BY <3>1, LessonFields DEF Inv, TypeOK
    <3>5. chain.lessons[x] \in Nat /\ v + HoursAt(R, x) = chain.lessons[x] + HoursAt(A, x)
      BY <3>1 DEF Tracked
    <3>6. tally'.lessonsOn[x] = v
      BY <3>1
    <3>7. R \subseteq rows' => R = A
      <4> SUFFICES ASSUME R \subseteq rows PROVE R = A
        BY <3>1
      <4>1. R \subseteq A
        BY <3>1 DEF UnderWay, ChainRows, Staying
      <4>2. \A q \in A : \E r \in R : q.lesson = r.lesson
        <5>1. SameHours(R, A)
          BY <2>3, <3>1, KeepKempeInv
        <5> QED
          BY ONLY <3>2, <5>1, SameHoursCount
      <4>3. Lone(A)
        BY <3>1 DEF Tracked
      <4> QED
        BY ONLY <4>1, <4>2, <4>3 DEF Lone
    <3> HIDE DEF A, R, v
    <3>8. v = IF R \subseteq rows' THEN chain.lessons[x]
              ELSE chain.lessons[x] + HoursAt(A, x) - HoursAt(R, x)
      <4>1. CASE R \subseteq rows'
        BY <3>3, <3>4, <3>5, <3>7, <4>1
      <4>2. CASE ~(R \subseteq rows')
        BY <3>3, <3>4, <3>5, <4>2
      <4> QED
        BY <4>1, <4>2
    <3> QED
      BY <3>3, <3>6, <3>8 DEF A, R
  <2> QED
    BY <2>1, <2>2, <2>3
<1> QED
  BY <1>1, LessonInvariance, PTL DEF KempeSpec, ChainKeepsLessonCount

\* Where every block is one hour, the counter that the caps are looked up in
\* covers the lessons of the day half way through a chain too, and what is
\* returned keeps every class under its cap, if the pins by themselves do.
THEOREM ChainsKeepClassCaps ==
  ASSUME OneHourBlocks, ClassCaps(PinnedRows)
  PROVE  KempeSpec => [](LessonCounterCovers /\ ReturnedRespectsClassCaps)
<1>1. KempeInv /\ LessonInv => LessonCounterCovers /\ ReturnedRespectsClassCaps
  BY CoveredRuns, CappedRuns DEF KempeInv, LessonInv
<1> QED
  BY <1>1, LessonInvariance, PTL
=============================================================================
