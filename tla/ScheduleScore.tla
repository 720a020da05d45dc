---------------------------- MODULE ScheduleScore ----------------------------
(***************************************************************************)
(* What a schedule costs: score_solution (solver-core/src/score.rs), the   *)
(* supervision rota it contains (supervision.rs), the shortcuts that price *)
(* a single move without pricing the schedule again, and the quality       *)
(* report (quality.rs).                                                    *)
(*                                                                         *)
(* The code keeps sorted vectors of positions per class and day and per    *)
(* teacher and day; here they are sets.  Sums saturate at 2^32 in the code *)
(* and do not in the model.                                                *)
(***************************************************************************)
EXTENDS Timetable, FiniteSetsExt, Functions

CONSTANTS
    Weight,        \* ConstraintWeights: axis -> weight
    Wish,          \* subject -> its own weight on the four period axes
    ClassTeacher,  \* class -> class teacher, or NoTeacher
    Qualified,     \* <<teacher, subject>> pairs
    SoftPins,      \* {<<lesson, slot>>}
    TeacherId      \* teacher -> the order of the ids

Axes == {"classGap", "teacherGap", "early", "first", "last", "late", "homeRoom",
         "balance", "worstSpread", "worstGaps", "classTeacher", "supervision",
         "softPin"}

ASSUME WeightAssumption ==
    /\ Weight \in [Axes -> Nat]
    /\ Wish \in [Subjects -> [early : Nat, first : Nat, last : Nat, late : Nat]]
    /\ ClassTeacher \in [Classes -> Teachers \cup {NoTeacher}]
    /\ TeacherId \in [Teachers -> Nat]
    /\ IsFiniteSet(Breaks) /\ IsFiniteSet(SoftPins)

TimeBlocks == Slots \cup Breaks
LastPos(d) == Max({Pos(s) : s \in {b \in TimeBlocks : Day(b) = d}})
DayCount == Max({Day(s) : s \in TimeBlocks} \cup {-1}) + 1
AllDays == 0..(DayCount - 1)

PositionsOf(R, d) == {Pos(r.slot) : r \in {q \in R : Day(q.slot) = d}}
ClassRows(R, c) == {r \in R : c \in ClassesOf[r.lesson]}
TeacherRows(R, t) == {r \in R : r.teacher = t}

\* class_positions and teacher_positions of a schedule
ClassPositions(R) == [x \in Classes \X AllDays |-> PositionsOf(ClassRows(R, x[1]), x[2])]
TeacherPositions(R) == [x \in Teachers \X AllDays |-> PositionsOf(TeacherRows(R, x[1]), x[2])]

-----------------------------------------------------------------------------
(* Gap-hours of one day, and what inserting or removing an hour makes of    *)
(* them.                                                                    *)

Lower(m, n) == IF m < n THEN m ELSE n
Higher(m, n) == IF m > n THEN m ELSE n
Floor0(n) == Higher(n, 0)
AbsDiff(m, n) == IF m > n THEN m - n ELSE n - m

GapCount(P) ==
    IF Cardinality(P) < 2 THEN 0 ELSE Max(P) - Min(P) + 1 - Cardinality(P)

\* n hours that start at p, in free positions
GapAfterWindow(P, p, n) ==
    IF P = {} THEN 0
    ELSE Floor0(Higher(Max(P), p + n - 1) - Lower(Min(P), p) + 1 - (Cardinality(P) + n))

\* Broken variant: an hour before the first one does not widen the day.
GapAfterInsertInside(P, p) ==
    IF P = {} THEN 0
    ELSE Floor0(Higher(Max(P), p) - Min(P) + 1
                - (Cardinality(P) + IF p \in P THEN 0 ELSE 1))

GapAfterInsert(P, p) ==
    LET size == Cardinality(P) + IF p \in P THEN 0 ELSE 1
    IN  IF P = {} \/ size < 2 THEN 0
        ELSE Higher(Max(P), p) - Lower(Min(P), p) + 1 - size

\* The end that remains when p leaves; P has at least two positions.
FirstWithout(P, p) == IF p = Min(P) THEN Min(P \ {p}) ELSE Min(P)
LastWithout(P, p) == IF p = Max(P) THEN Max(P \ {p}) ELSE Max(P)

GapAfterRemove(P, p) ==
    IF p \notin P THEN GapCount(P)
    ELSE IF Cardinality(P) < 3 THEN 0
    ELSE LastWithout(P, p) - FirstWithout(P, p) + 1 - (Cardinality(P) - 1)

GapAfterSwap(P, old, new) ==
    LET size == IF new \in P THEN Cardinality(P) - 1 ELSE Cardinality(P)
    IN  IF old = new \/ old \notin P THEN GapCount(P)
        ELSE IF size < 2 THEN 0
        ELSE Higher(LastWithout(P, old), new) - Lower(FirstWithout(P, old), new) + 1 - size

\* One class's or teacher's hour moves from slot `old` to slot `new`.
PartitionDelta(P, Q, old, new) ==
    IF Day(old) = Day(new)
    THEN GapAfterSwap(P, Pos(old), Pos(new)) - GapCount(P)
    ELSE   (GapAfterRemove(P, Pos(old)) - GapCount(P))
         + (GapAfterInsert(Q, Pos(new)) - GapCount(Q))

-----------------------------------------------------------------------------
(* Daily load of one class: the L1 distance from an even spread, scaled by  *)
(* the number of days.                                                      *)

Spread(count) ==
    LET sum == SumFunction(count)
    IN  IF sum = 0 THEN 0
        ELSE SumFunction([d \in AllDays |-> AbsDiff(count[d] * DayCount, sum)]) \div DayCount

Loads(positions, c) == [d \in AllDays |-> Cardinality(positions[<<c, d>>])]

BalanceOf(positions, c) == Spread(Loads(positions, c))

BalanceAfterMove(positions, c, from, to) ==
    LET n == Loads(positions, c)
    IN  IF from = to THEN Spread(n)
        ELSE Spread([d \in AllDays |-> CASE d = from -> Floor0(n[d] - 1)
                                         [] d = to -> n[d] + 1
                                         [] OTHER -> n[d]])

BalanceAfterAdd(positions, c, day, n) ==
    Spread([Loads(positions, c) EXCEPT ![day] = @ + n])

-----------------------------------------------------------------------------
(* The axes.                                                                *)

SubjectPreference(subject, s) ==
      Weight["early"] * Wish[subject].early * Pos(s)
    + (IF Pos(s) = 0 THEN Weight["first"] * Wish[subject].first ELSE 0)
    + (IF Pos(s) = LastPos(Day(s)) THEN Weight["last"] * Wish[subject].last ELSE 0)
    + Weight["late"] * Wish[subject].late * (LastPos(Day(s)) - Pos(s))

StrangeRoom(c, room) == HomeRoom[c] \notin {NoRoom, room}

HomeRoomPenalty(l, room) ==
    Weight["homeRoom"] * Cardinality({c \in ClassesOf[l] : StrangeRoom(c, room)})

RowPreference(R) ==
    SumFunction([r \in R |-> SubjectPreference(SubjectOf[r.lesson], r.slot)])

GapHours(positions) ==
    SumFunction([x \in DOMAIN positions |-> GapCount(positions[x])])

\* slice_recompute and running_slice_from_placements: class gaps, teacher gaps
\* and subject preferences.
SliceCost(R) ==
      Weight["classGap"] * GapHours(ClassPositions(R))
    + Weight["teacherGap"] * GapHours(TeacherPositions(R))
    + RowPreference(R)

ClassDayBalance(R) ==
    LET positions == ClassPositions(R)
    IN  SumFunction([c \in Classes |-> BalanceOf(positions, c)])

\* The gap-hours of one class in the whole week.
GapHoursOf(positions, c) == SumFunction([d \in AllDays |-> GapCount(positions[<<c, d>>])])

\* The worst class only; Monday to Friday, every row counts.
WorstClassSpread(R) ==
    LET load(c, d) == Cardinality({r \in ClassRows(R, c) : Day(r.slot) = d})
        loads(c) == {load(c, d) : d \in 0..4}
        busy == {c \in Classes : \E r \in ClassRows(R, c) : Day(r.slot) < 5}
    IN  Max({0} \cup {Max(loads(c)) - Min(loads(c)) : c \in busy})

WorstClassGaps(R) ==
    LET positions == ClassPositions(R)
    IN  Max({0} \cup {GapHoursOf(positions, c) : c \in Classes})

HomeRoomTotal(R) == SumFunction([r \in R |-> HomeRoomPenalty(r.lesson, r.room)])

\* The class teacher could teach the subject, another teacher does.
PrefersOwn(c, subject, t) ==
    /\ ClassTeacher[c] \notin {NoTeacher, t}
    /\ <<ClassTeacher[c], subject>> \in Qualified

ClassTeacherMisses(R) ==
    Cardinality({x \in Classes \X Subjects : \E r \in ClassRows(R, x[1]) :
                    /\ SubjectOf[r.lesson] = x[2]
                    /\ PrefersOwn(x[1], x[2], r.teacher)})

SoftPinMisses(R) ==
    Cardinality({k \in SoftPins : ~\E r \in R : r.lesson = k[1] /\ r.slot = k[2]})

-----------------------------------------------------------------------------
(* The supervision rota: break by break, the teacher with the fewest        *)
(* supervisions among those who teach right before or after it.             *)

CanSupervise(R, b) ==
    LET teaching(s) == {r.teacher : r \in {q \in R : q.slot = s}}
    IN  (teaching(<<Day(b), Pos(b) - 1>>) \cup teaching(<<Day(b), Pos(b) + 1>>)) \ teaching(b)

Supervisor(count, E) ==
    CHOOSE t \in E : \A u \in E :
        \/ count[t] < count[u]
        \/ count[t] = count[u] /\ TeacherId[t] <= TeacherId[u]

Eligible(R) == [b \in Breaks |-> CanSupervise(R, b)]

\* One more for whoever supervises b, if anyone can.
Assign(eligible, b, count) ==
    IF eligible[b] = {} THEN count
    ELSE [count EXCEPT ![Supervisor(count, eligible[b])] = @ + 1]

Latest(B) ==
    CHOOSE b \in B : \A x \in B : Day(x) < Day(b) \/ (Day(x) = Day(b) /\ Pos(x) <= Pos(b))

\* The fold applies the break it picks first at the end.
Rota(eligible) ==
    MapThenFoldSet(LAMBDA b, count : Assign(eligible, b, count),
                   [t \in Teachers |-> 0], LAMBDA b : b, Latest, Breaks)

SupervisionSpread(R) ==
    LET count == Rota(Eligible(R))
        loads == {count[t] : t \in Teachers} \ {0}
    IN  IF loads = {} THEN 0 ELSE Max(loads) - Min(loads)

-----------------------------------------------------------------------------
(* The full objective, and its breakdown for the caller.                    *)

\* Broken variant: the rota is left out, as in the predictions of a Change.
ScoreWithoutRota(R) ==
      SliceCost(R)
    + Weight["balance"] * ClassDayBalance(R)
    + Weight["worstSpread"] * WorstClassSpread(R)
    + Weight["worstGaps"] * WorstClassGaps(R)
    + HomeRoomTotal(R)
    + Weight["softPin"] * SoftPinMisses(R)
    + Weight["classTeacher"] * ClassTeacherMisses(R)

ScoreSolution(R) ==
      SliceCost(R)
    + Weight["balance"] * ClassDayBalance(R)
    + Weight["worstSpread"] * WorstClassSpread(R)
    + Weight["worstGaps"] * WorstClassGaps(R)
    + HomeRoomTotal(R)
    + Weight["softPin"] * SoftPinMisses(R)
    + Weight["classTeacher"] * ClassTeacherMisses(R)
    + Weight["supervision"] * SupervisionSpread(R)

\* quality_report: unweighted units per axis.  First those that are counted
\* for every class on its own,
ByClass(R) ==
    LET class == ClassPositions(R)
    IN  [classGap |-> [c \in Classes |-> GapHoursOf(class, c)],
         balance  |-> [c \in Classes |-> BalanceOf(class, c)],
         homeRoom |-> [c \in Classes |->
                         Cardinality({r \in ClassRows(R, c) : StrangeRoom(c, r.room)})]]

\* and those that are counted row by row.
PeriodUnits(R) ==
    LET wish(r) == Wish[SubjectOf[r.lesson]]
        last(r) == LastPos(Day(r.slot))
    IN  [early |-> SumFunction([r \in R |-> wish(r).early * Pos(r.slot)]),
         first |-> SumFunction([r \in R |-> IF Pos(r.slot) = 0 THEN wish(r).first ELSE 0]),
         last  |-> SumFunction([r \in R |-> IF Pos(r.slot) = last(r) THEN wish(r).last ELSE 0]),
         late  |-> SumFunction([r \in R |-> wish(r).late * (last(r) - Pos(r.slot))])]

Report(R) ==
    LET class == ByClass(R)
        period == PeriodUnits(R)
    IN  [early        |-> period.early,
         first        |-> period.first,
         last         |-> period.last,
         late         |-> period.late,
         classGap     |-> SumFunction(class.classGap),
         teacherGap   |-> GapHours(TeacherPositions(R)),
         homeRoom     |-> SumFunction(class.homeRoom),
         balance      |-> SumFunction(class.balance),
         worstSpread  |-> WorstClassSpread(R),
         worstGaps    |-> WorstClassGaps(R),
         classTeacher |-> ClassTeacherMisses(R),
         supervision  |-> SupervisionSpread(R),
         softPin      |-> SoftPinMisses(R)]

\* weighted_score: the wishes and the home rooms are weighted row by row.
ReportedScore(R) ==
    LET report == Report(R)
        weighted == Axes \ {"early", "first", "last", "late", "homeRoom"}
    IN  SumFunction([a \in weighted |-> Weight[a] * report[a]])
        + RowPreference(R) + HomeRoomTotal(R)
=============================================================================
