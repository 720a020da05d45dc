------------------------ MODULE ScheduleService_proofs ------------------------
(***************************************************************************)
(* What the requests, the registry and the stored timetable keep between    *)
(* them: the inductive invariant of ScheduleService and the safety          *)
(* properties that follow from it, for any number of requests, classes and  *)
(* edits.                                                                  *)
(***************************************************************************)
EXTENDS ScheduleService, Timetable_proofs

Scopes == Classes \cup {WholeSchool}

Stages == {"new", "solving", "returned", "crashed", "solved", "persisting"} \cup Over

RequestType ==
    [stage : Stages, scope : Scopes, siblings : SUBSET StoredRow, own : SUBSET StoredRow,
     fixed : SUBSET Row, solution : SUBSET Row, victims : SUBSET StoredRow,
     waits : SUBSET Requests, keys : SUBSET (Lessons \X Slots),
     rotaTaken : BOOLEAN, fresh : BOOLEAN]

ServiceTypeOK ==
    /\ stored \in SUBSET StoredRow
    /\ rota \in BOOLEAN
    /\ request \in [Requests -> RequestType]
    /\ registry \in [Classes -> Requests \cup {Nobody}]
    /\ cancelled \in SUBSET Requests
    /\ edits \in Nat
    /\ serial \in BOOLEAN

UnderWay(k) == request[k].stage \notin Over \cup {"new"}

\* What came back from the solver keeps the pins that validate_pins let through.
Answered(k) == 
    request[k].stage \in {"returned", "solved", "persisting"} =>
        /\ request[k].fixed \in Bound(k)
        /\ request[k].solution \in Solutions(request[k].fixed)

\* Own pins belong to the class, and their keys are among those that become hard.
\* A pin of a lesson that other classes attend was read twice.
OwnKept(k) ==
    /\ request[k].scope \in Classes =>
         \A r \in request[k].own :
            /\ Attends(request[k].scope, r)
            /\ ClassesOf[r.lesson] \ {request[k].scope} # {} => r \in request[k].siblings
    /\ request[k].scope \in Classes =>
         \A r \in request[k].siblings : ClassesOf[r.lesson] \ {request[k].scope} # {}
    /\ Persisting(k) => Keys(request[k].own) \subseteq request[k].keys

\* As long as nobody has stored anything, what a request has read and taken is
\* what it would read and take now.
UpToDate(k) ==
    UnderWay(k) /\ request[k].fresh =>
        /\ request[k].scope \in Classes =>
              /\ request[k].siblings = SiblingRows(request[k].scope)
              /\ request[k].own \subseteq stored
        /\ Persisting(k) => request[k].victims = Replaced(k)

\* Lessons are stored wholly or not at all: otherwise validate_pins drops
\* sibling rows, and a class is solved as if they were not there.
StoredWhole == serial => Passes(Schedule(stored)) /\ Whole(Schedule(stored))

ServiceInv ==
    /\ ServiceTypeOK
    /\ NoDeadEntry
    /\ \A k \in Requests : Answered(k) /\ OwnKept(k) /\ UpToDate(k)
    /\ StoredWhole
-----------------------------------------------------------------------------
(* What the validators say of a part of a schedule, and validate_pins of    *)
(* rows that are all there.                                                 *)

\* A schedule of some lessons of an accepted schedule is accepted.
LEMMA PartPasses ==
  ASSUME NEW R \in SUBSET Row, NEW T, SomeLessons(T, R), Passes(R)
  PROVE  Passes(T)
<1>1. T \subseteq R
  BY DEF SomeLessons
<1>2. TeachersAllowed(T)
  BY <1>1 DEF Passes, TeachersAllowed
<1> QED
  BY <1>1, <1>2, PartOfSound, PartBlockShape, PartCardinality, PartSubjectCaps,
     PartClassCaps, PartTravelBuffers DEF Passes

\* Rows without their pin are placement rows.
LEMMA ScheduleRows ==
  ASSUME NEW R \in SUBSET StoredRow
  PROVE  Schedule(R) \in SUBSET Row
BY DEF Schedule, Plain, StoredRow, Row

\* The stored rows of a lesson, one by one.
LEMMA ScheduleLesson ==
  ASSUME NEW R, NEW r \in R
  PROVE  /\ Plain(r) \in Schedule(R)
         /\ Plain(r).lesson = r.lesson /\ Plain(r).slot = r.slot
         /\ Plain(r).room = r.room /\ Plain(r).teacher = r.teacher
BY DEF Schedule, Plain

\* An accepted complete schedule has all hours of every lesson.
LEMMA CompleteHours ==
  ASSUME NEW R \in SUBSET Row, Passes(R), Complete(R), NEW l \in Lessons
  PROVE  Cardinality(RowsOf(R, l)) = Hours[l] /\ RowsOf(R, l) # {}
<1>1. RowsOf(R, l) \in SUBSET Row
  BY DEF RowsOf
<1>2. Cardinality(RowsOf(R, l)) \in Nat /\ Hours[l] \in Nat \ {0}
  BY <1>1, ScheduleFinite, ProblemAssumption DEF ValidLessons
<1>3. Cardinality(RowsOf(R, l)) <= Hours[l]
  BY DEF Passes, LessonCardinality
<1>4. ~(Cardinality(RowsOf(R, l)) < Hours[l])
  BY DEF Complete, Underplaced
<1> QED
  BY <1>2, <1>3, <1>4, FS_EmptySet

\* The rows of a whole lesson in an accepted schedule have a good shape taken
\* by themselves, as validate_pins takes them.
LEMMA LessonShape ==
  ASSUME NEW R \in SUBSET Row, BlockShape(R), NEW l \in Lessons
  PROVE  BlockShape(RowsOf(R, l))
<1>1. SomeLessons(RowsOf(R, l), R)
  BY DEF SomeLessons, RowsOf
<1> QED
  BY <1>1, PartBlockShape

\* validate_pins keeps every row of `first` when those are whole lessons without
\* a conflict and what is pinned besides belongs to other lessons.
LEMMA WholePinsKept ==
  ASSUME NEW first \in SUBSET Row, NoDoubleBooking(first), BlockShape(first), Whole(first),
         NEW second \in SUBSET Row,
         \A q \in second : (\E r \in first : r.lesson = q.lesson) => q \in first,
         NEW P \in Undoubled(first, second)
  PROVE  /\ first \subseteq WholeLessons(P)
         /\ \A r \in first : RowsOf(WholeLessons(P), r.lesson) = RowsOf(first, r.lesson)
<1> DEFINE place(r) == <<r.slot, r.room>>
           places(R) == {place(r) : r \in R}
<1>1. P \subseteq first \cup second /\ places(P \cap first) = places(first)
  BY DEF Undoubled
<1>2. first \subseteq P
  <2> SUFFICES ASSUME NEW r \in first PROVE r \in P
    OBVIOUS
  <2>1. place(r) \in places(first)
    OBVIOUS
  <2>2. PICK q \in P \cap first : place(q) = place(r)
    BY <2>1, <1>1
  <2>3. q.slot = r.slot /\ q.room = r.room
    BY <2>2
  <2>4. q = r
    BY <2>3, <2>2 DEF NoDoubleBooking, Clash
  <2> QED
    BY <2>2, <2>4
<1>3. ASSUME NEW r \in first
      PROVE  /\ RowsOf(P, r.lesson) = RowsOf(first, r.lesson)
             /\ RowsOf(P, r.lesson) \subseteq WholeLessons(P)
  <2>1. r.lesson \in Lessons /\ r \in RowsOf(first, r.lesson)
    BY DEF RowsOf, Row
  <2>2. RowsOf(P, r.lesson) = RowsOf(first, r.lesson)
    BY <1>1, <1>2 DEF RowsOf
  <2>3. Cardinality(RowsOf(P, r.lesson)) = Hours[r.lesson]
    BY <2>1, <2>2 DEF Whole
  <2>4. BlockShape(RowsOf(P, r.lesson))
    BY <2>1, <2>2, LessonShape
  <2>5. ASSUME NEW q \in RowsOf(P, r.lesson) PROVE q \in WholeLessons(P)
    <3>1. q \in P /\ q.lesson = r.lesson
      BY <2>5 DEF RowsOf
    <3> QED
      BY <3>1, <2>3, <2>4 DEF WholeLessons
  <2> QED
    BY <2>2, <2>5
<1>4. WholeLessons(P) \subseteq P
  BY DEF WholeLessons
<1>5. ASSUME NEW r \in first
      PROVE  RowsOf(WholeLessons(P), r.lesson) = RowsOf(first, r.lesson)
  BY <1>3, <1>4 DEF RowsOf
<1>6. first \subseteq WholeLessons(P)
  BY <1>2, <1>3 DEF RowsOf
<1> QED
  BY <1>5, <1>6

-----------------------------------------------------------------------------
(* Commit: the part of the solution that concerns the class, beside what    *)
(* was there, is some lessons of the solution.                              *)

\* Storing rows with their pins stores those rows.
LEMMA StoredRows ==
  ASSUME NEW A, NEW N \in SUBSET Row, NEW K
  PROVE  Schedule(A \cup {[lesson |-> r.lesson, slot |-> r.slot, room |-> r.room,
                           teacher |-> r.teacher,
                           pin |-> IF Key(r) \in K THEN "hard" ELSE "none"] : r \in N})
           = Schedule(A) \cup N
<1> DEFINE f(r) == [lesson |-> r.lesson, slot |-> r.slot, room |-> r.room,
                    teacher |-> r.teacher,
                    pin |-> IF Key(r) \in K THEN "hard" ELSE "none"]
<1>1. ASSUME NEW r \in N PROVE Plain(f(r)) = r
  BY DEF Plain, Row
<1> HIDE DEF f
<1>2. ASSUME NEW x \in Schedule(A \cup {f(r) : r \in N}) PROVE x \in Schedule(A) \cup N
  BY <1>1, <1>2 DEF Schedule
<1>3. ASSUME NEW x \in Schedule(A) \cup N PROVE x \in Schedule(A \cup {f(r) : r \in N})
  <2>1. CASE x \in Schedule(A)
    BY <2>1 DEF Schedule
  <2>2. CASE x \in N
    <3>1. Plain(f(x)) = x /\ f(x) \in A \cup {f(r) : r \in N}
      BY <2>2, <1>1
    <3> QED
      BY <3>1 DEF Schedule
  <2> QED
    BY <1>3, <2>1, <2>2
<1>4. Schedule(A \cup {f(r) : r \in N}) = Schedule(A) \cup N
  BY <1>2, <1>3
<1> QED
  BY <1>4 DEF f

\* After a commit the new rows stand where the taken ones stood.
LEMMA CommitStores ==
  ASSUME ServiceInv, NEW k \in Requests, Commit(k)
  PROVE  Schedule(stored') = Schedule(stored \ request[k].victims) \cup NewRows(k)
<1>1. NewRows(k) \in SUBSET Row
  BY DEF ServiceInv, ServiceTypeOK, RequestType, NewRows
<1>2. stored' = (stored \ request[k].victims)
        \cup {[lesson |-> r.lesson, slot |-> r.slot, room |-> r.room, teacher |-> r.teacher,
               pin |-> IF Key(r) \in request[k].keys THEN "hard" ELSE "none"] : r \in NewRows(k)}
  BY DEF Commit
<1> QED
  BY ONLY <1>1, <1>2, StoredRows

\* A request for the whole school that is still up to date replaces all rows.
LEMMA WholeSchoolCommit ==
  ASSUME ServiceInv, NEW k \in Requests, Commit(k), serial', request[k].scope = WholeSchool
  PROVE  Schedule(stored') = request[k].solution
<1> DEFINE R == request[k].solution
<1>1. /\ Persisting(k) /\ UnderWay(k) /\ request[k].fresh /\ Complete(R)
  BY DEF Commit, Granted, Persisting, UnderWay, Over
<1>2. R \in SUBSET Row /\ Passes(R)
  <2>1. R \in Solutions(request[k].fixed)
    BY <1>1 DEF ServiceInv, Answered, Persisting
  <2> QED
    BY <2>1 DEF Solutions, Passing
<1>3. request[k].victims = stored
  <2>1. request[k].victims = {r \in stored : \E q \in R : q.lesson = r.lesson}
    BY <1>1 DEF ServiceInv, UpToDate, Replaced
  <2>2. ASSUME NEW r \in stored PROVE \E q \in R : q.lesson = r.lesson
    <3>1. r.lesson \in Lessons
      BY DEF ServiceInv, ServiceTypeOK, StoredRow
    <3>2. RowsOf(R, r.lesson) # {}
      BY <1>1, <1>2, <3>1, CompleteHours
    <3> QED
      BY <3>2 DEF RowsOf
  <2> QED
    BY <2>1, <2>2
<1>4. Schedule(stored \ request[k].victims) = {}
  BY <1>3 DEF Schedule
<1>5. NewRows(k) = R
  BY DEF NewRows
<1> QED
  BY <1>4, <1>5, CommitStores

\* Sibling rows that are whole lessons without a conflict are in the solution
\* with all their mates: validate_pins keeps them, and the solver keeps pins.
LEMMA SiblingsFixed ==
  ASSUME ServiceInv, NEW k \in Requests, request[k].scope \in Classes,
         request[k].stage \in {"returned", "solved", "persisting"},
         NEW others, others = Schedule(request[k].siblings),
         NoDoubleBooking(others), BlockShape(others), Whole(others)
  PROVE  \A r \in others : /\ r \in request[k].solution
                           /\ RowsOf(request[k].solution, r.lesson) = RowsOf(others, r.lesson)
<1> DEFINE R == request[k].solution
           hard == Schedule({r \in request[k].own : r.pin = "hard"})
<1>1. R \in Solutions(request[k].fixed) /\ request[k].fixed \in Bound(k)
  BY DEF ServiceInv, Answered
<1>2. request[k].siblings \in SUBSET StoredRow /\ request[k].own \in SUBSET StoredRow
  BY DEF ServiceInv, ServiceTypeOK, RequestType
<1>3. others \in SUBSET Row /\ hard \in SUBSET Row
  BY <1>2, ScheduleRows
<1>4. PICK P \in Undoubled(others, hard) : request[k].fixed = WholeLessons(P)
  BY <1>1 DEF Bound
<1>5. ASSUME NEW q \in hard, NEW r \in others, r.lesson = q.lesson PROVE q \in others
  <2>1. PICK p \in request[k].own : q = Plain(p)
    BY <1>5 DEF Schedule
  <2>2. PICK o \in request[k].siblings : r = Plain(o)
    BY <1>5 DEF Schedule
  <2>3. p.lesson = o.lesson
    BY <1>5, <2>1, <2>2 DEF Plain
  <2>4. p \in request[k].siblings
    BY <2>1, <2>2, <2>3 DEF ServiceInv, OwnKept
  <2> QED
    BY <2>1, <2>4 DEF Schedule
<1> HIDE DEF R, hard
<1>6. /\ others \subseteq request[k].fixed
      /\ \A r \in others : RowsOf(request[k].fixed, r.lesson) = RowsOf(others, r.lesson)
  BY <1>3, <1>4, <1>5, WholePinsKept
<1>7. ASSUME NEW r \in others
      PROVE  RowsOf(R, r.lesson) = RowsOf(others, r.lesson) /\ r \in R
  <2>1. RowsOf(R, r.lesson) = RowsOf(request[k].fixed, r.lesson)
    BY <1>1, <1>6 DEF Solutions
  <2>2. r \in RowsOf(others, r.lesson)
    BY DEF RowsOf
  <2> QED
    BY <1>6, <2>1, <2>2 DEF RowsOf
<1> QED
  BY <1>7 DEF R

\* The rows of the other classes are in the solution of a request that is up to
\* date with a serial timetable: their lessons are stored with all their hours.
LEMMA SiblingsInSolution ==
  ASSUME ServiceInv, NEW k \in Requests, request[k].scope \in Classes,
         request[k].stage \in {"returned", "solved", "persisting"},
         request[k].fresh, serial
  PROVE  \A r \in Schedule(SiblingRows(request[k].scope)) :
           /\ r \in request[k].solution
           /\ RowsOf(request[k].solution, r.lesson)
                = RowsOf(Schedule(SiblingRows(request[k].scope)), r.lesson)
<1> DEFINE c == request[k].scope
           S == Schedule(stored)
           others == Schedule(SiblingRows(c))
<1>1. request[k].siblings = SiblingRows(c)
  BY DEF ServiceInv, UpToDate, UnderWay, Over
<1>2. Passes(S) /\ Whole(S) /\ S \in SUBSET Row
  BY ScheduleRows DEF ServiceInv, ServiceTypeOK, StoredWhole
<1>3. SomeLessons(others, S)
  <2>1. others \subseteq S
    BY DEF Schedule, SiblingRows
  <2>2. ASSUME NEW l \in Lessons PROVE RowsOf(others, l) = {} \/ RowsOf(others, l) = RowsOf(S, l)
    <3>1. CASE ClassesOf[l] \ {c} = {}
      <4>1. ASSUME NEW r \in RowsOf(others, l) PROVE FALSE
        BY <3>1, <4>1 DEF RowsOf, Schedule, Plain, SiblingRows
      <4> QED
        BY <4>1
    <3>2. CASE ClassesOf[l] \ {c} # {}
      <4>1. ASSUME NEW r \in RowsOf(S, l) PROVE r \in RowsOf(others, l)
        <5>1. r \in S /\ r.lesson = l
          BY <4>1 DEF RowsOf
        <5>2. PICK p \in stored : r = Plain(p)
          BY <5>1 DEF Schedule
        <5>3. p.lesson = l
          BY <5>1, <5>2 DEF Plain
        <5>4. p \in SiblingRows(c)
          BY <5>2, <5>3, <3>2 DEF SiblingRows
        <5> QED
          BY <5>1, <5>2, <5>4 DEF RowsOf, Schedule
      <4> QED
        BY <4>1, <2>1 DEF RowsOf
    <3> QED
      BY <3>1, <3>2
  <2> QED
    BY <2>1, <2>2 DEF SomeLessons
<1> HIDE DEF S, others
<1>4. Passes(others) /\ Whole(others)
  BY <1>2, <1>3, PartPasses DEF Whole, SomeLessons
<1>5. others = Schedule(request[k].siblings)
  BY <1>1 DEF others
<1>6. NoDoubleBooking(others) /\ BlockShape(others)
  BY <1>4 DEF Passes
<1>7. \A r \in others : /\ r \in request[k].solution
                        /\ RowsOf(request[k].solution, r.lesson) = RowsOf(others, r.lesson)
  BY <1>4, <1>5, <1>6, SiblingsFixed
<1> QED
  BY <1>7 DEF others

\* What a class request stores beside the rows of the other classes.
LEMMA ClassCommit ==
  ASSUME ServiceInv, NEW k \in Requests, Commit(k), serial', request[k].scope \in Classes
  PROVE  SomeLessons(Schedule(stored'), request[k].solution)
<1> DEFINE R == request[k].solution
           c == request[k].scope
           others == Schedule(SiblingRows(c))
           T == Schedule(stored')
<1>1. /\ Persisting(k) /\ UnderWay(k) /\ request[k].fresh /\ serial
  BY DEF Commit, Granted, Persisting, UnderWay, Over
<1>2. R \in SUBSET Row
  BY DEF ServiceInv, ServiceTypeOK, RequestType
<1>3. c # WholeSchool /\ c \in Classes
  BY ServiceAssumption
<1>4. NewRows(k) = {r \in R : Attends(c, r)}
  BY <1>3 DEF NewRows
<1>5. request[k].victims = {r \in stored : Attends(c, r)} /\ stored \in SUBSET StoredRow
  BY <1>1, <1>3 DEF ServiceInv, ServiceTypeOK, UpToDate, Replaced
<1>6. ASSUME NEW r \in stored, ~Attends(c, r) PROVE r \in SiblingRows(c)
  <2>1. ClassesOf[r.lesson] # {}
    BY <1>5, ProblemAssumption DEF StoredRow, ValidLessons
  <2> QED
    BY <1>6, <2>1 DEF SiblingRows, Attends
<1>7. ASSUME NEW r \in others
      PROVE  RowsOf(R, r.lesson) = RowsOf(others, r.lesson) /\ r \in R
  BY <1>1, SiblingsInSolution DEF Persisting
<1> HIDE DEF R, c, others, T
<1>8. T = Schedule(stored \ request[k].victims) \cup NewRows(k)
  BY CommitStores DEF T
<1>9. ASSUME NEW r \in Schedule(stored \ request[k].victims)
      PROVE  r \in others /\ c \notin ClassesOf[r.lesson]
  <2>1. PICK p \in stored \ request[k].victims : r = Plain(p)
    BY <1>9 DEF Schedule
  <2>2. p \in stored /\ ~Attends(c, p)
    BY <2>1, <1>5
  <2>3. p \in SiblingRows(c)
    BY <1>6, <2>2
  <2>4. r.lesson = p.lesson
    BY <2>1 DEF Plain
  <2> QED
    BY <2>1, <2>2, <2>3, <2>4 DEF Schedule, others, Attends
<1>10. ASSUME NEW r \in others, c \notin ClassesOf[r.lesson]
       PROVE  r \in Schedule(stored \ request[k].victims)
  <2>1. PICK p \in SiblingRows(c) : r = Plain(p)
    BY <1>10 DEF Schedule, others
  <2>2. p \in stored /\ ~Attends(c, p)
    BY <2>1, <1>10 DEF SiblingRows, Plain, Attends
  <2>3. p \in stored \ request[k].victims
    BY <2>2, <1>5
  <2> QED
    BY <2>1, <2>3 DEF Schedule
<1>11. T \subseteq R
  BY <1>8, <1>9, <1>7, <1>4
<1>12. ASSUME NEW l \in Lessons, c \in ClassesOf[l] PROVE RowsOf(T, l) = RowsOf(R, l)
  <2>1. ASSUME NEW r \in RowsOf(R, l) PROVE r \in T
    BY <1>8, <1>4, <1>12, <2>1 DEF RowsOf, Attends
  <2> QED
    BY <2>1, <1>11 DEF RowsOf
<1>13. ASSUME NEW l \in Lessons, c \notin ClassesOf[l]
       PROVE  RowsOf(T, l) = {} \/ RowsOf(T, l) = RowsOf(R, l)
  <2> SUFFICES ASSUME NEW r \in RowsOf(T, l), NEW q \in RowsOf(R, l) PROVE q \in T
    BY <1>11 DEF RowsOf
  <2>1. r \in T /\ r.lesson = l /\ q \in R /\ q.lesson = l
    BY DEF RowsOf
  <2>2. r \notin NewRows(k)
    BY <2>1, <1>13, <1>4 DEF Attends
  <2>3. r \in others
    BY <2>1, <2>2, <1>8, <1>9
  <2>4. q \in RowsOf(others, l)
    BY <2>1, <2>3, <1>7
  <2>5. q \in others
    BY <2>4 DEF RowsOf
  <2>6. q \in Schedule(stored \ request[k].victims)
    BY <2>5, <2>1, <1>13, <1>10
  <2> QED
    BY <2>6, <1>8
<1> QED
  BY <1>11, <1>12, <1>13 DEF SomeLessons, R, T

\* A commit that leaves the timetable serial leaves it accepted and whole.
LEMMA CommitStoresWhole ==
  ASSUME ServiceInv, NEW k \in Requests, Commit(k)
  PROVE  StoredWhole'
<1> SUFFICES ASSUME serial' PROVE Passes(Schedule(stored')) /\ Whole(Schedule(stored'))
  BY DEF StoredWhole
<1> DEFINE R == request[k].solution
<1>1. R \in Solutions(request[k].fixed) /\ Complete(R)
  BY DEF Commit, Granted, ServiceInv, Answered, Persisting
<1>2. R \in SUBSET Row /\ Passes(R)
  BY <1>1 DEF Solutions, Passing
<1>3. request[k].scope = WholeSchool \/ request[k].scope \in Classes
  BY DEF ServiceInv, ServiceTypeOK, RequestType, Scopes
<1> HIDE DEF R
<1>4. SomeLessons(Schedule(stored'), R)
  <2>1. CASE request[k].scope = WholeSchool
    BY <2>1, WholeSchoolCommit DEF SomeLessons, R
  <2>2. CASE request[k].scope \in Classes
    BY <2>2, ClassCommit DEF R
  <2> QED
    BY <1>3, <2>1, <2>2
<1>5. Passes(Schedule(stored'))
  BY <1>2, <1>4, PartPasses
<1>6. Whole(Schedule(stored'))
  BY <1>1, <1>2, <1>4, CompleteHours DEF Whole, SomeLessons
<1> QED
  BY <1>5, <1>6

-----------------------------------------------------------------------------
(* Typing.                                                                  *)

\* An idle request, and one that has ended.
LEMMA IdleTyped ==
  /\ Idle \in RequestType
  /\ \A stage \in Stages : Ended(stage) \in RequestType /\ Ended(stage).stage = stage
  /\ Idle.stage = "new"
BY DEF Idle, Ended, RequestType, Stages, Scopes, Over

\* What validate_pins lets through are rows.
LEMMA BoundTyped ==
  ASSUME ServiceTypeOK, NEW k \in Requests, NEW F \in Bound(k)
  PROVE  F \in SUBSET Row
<1> DEFINE hard == {r \in request[k].own : r.pin = "hard"}
<1>1. request[k].siblings \in SUBSET StoredRow /\ hard \in SUBSET StoredRow
  BY DEF ServiceTypeOK, RequestType
<1>2. PICK P \in Undoubled(Schedule(request[k].siblings), Schedule(hard)) : F = WholeLessons(P)
  BY DEF Bound
<1>3. P \in SUBSET Row
  BY <1>1, <1>2, ScheduleRows DEF Undoubled
<1> QED
  BY <1>2, <1>3 DEF WholeLessons

\* What the solver returns are rows, and a schedule that keeps the pins has them.
LEMMA SolutionsTyped ==
  ASSUME NEW F \in SUBSET Row, NEW R \in Solutions(F)
  PROVE  R \in SUBSET Row /\ Passes(R) /\ F \subseteq R
<1>1. R \in SUBSET Row /\ Passes(R)
  BY DEF Solutions, Passing
<1>2. ASSUME NEW r \in F PROVE r \in R
  BY DEF Solutions, RowsOf
<1> QED
  BY <1>1, <1>2

\* A request whose working data a step leaves alone keeps what is known of it;
\* what it has read may be out of date then, if the step says so.
LEMMA Untouched ==
  ASSUME NEW k, Answered(k), OwnKept(k), UpToDate(k),
         request'[k].stage = request[k].stage, request'[k].scope = request[k].scope,
         request'[k].siblings = request[k].siblings, request'[k].own = request[k].own,
         request'[k].fixed = request[k].fixed, request'[k].solution = request[k].solution,
         request'[k].keys = request[k].keys,
         \/ request'[k].fresh = FALSE
         \/ /\ stored' = stored
            /\ request'[k].fresh = request[k].fresh
            /\ request'[k].victims = request[k].victims
  PROVE  Answered(k)' /\ OwnKept(k)' /\ UpToDate(k)'
<1>1. Bound(k)' = Bound(k)
  BY DEF Bound
<1>2. Answered(k)'
  BY <1>1 DEF Answered
<1>3. OwnKept(k)'
  BY DEF OwnKept, Persisting
<1>4. UpToDate(k)'
  <2>1. CASE request'[k].fresh = FALSE
    BY <2>1 DEF UpToDate
  <2>2. CASE /\ stored' = stored
             /\ request'[k].fresh = request[k].fresh
             /\ request'[k].victims = request[k].victims
    <3>1. Replaced(k)' = Replaced(k) /\ SiblingRows(request[k].scope)' = SiblingRows(request[k].scope)
      BY <2>2 DEF Replaced, SiblingRows
    <3> QED
      BY <2>2, <3>1 DEF UpToDate, UnderWay, Persisting
  <2> QED
    BY <2>1, <2>2
<1> QED
  BY <1>2, <1>3, <1>4

\* A request that goes on after nothing was stored stays up to date.
LEMMA SameReading ==
  ASSUME NEW k, UpToDate(k), UnderWay(k), UNCHANGED stored,
         request'[k].scope = request[k].scope, request'[k].own = request[k].own,
         request'[k].siblings = request[k].siblings, request'[k].fresh = request[k].fresh,
         request'[k].stage # "persisting"
  PROVE  UpToDate(k)'
<1>1. SiblingRows(request[k].scope) = SiblingRows(request[k].scope)'
  BY DEF SiblingRows
<1> QED
  BY <1>1 DEF UpToDate, Persisting

\* Entries stay alive while the solves they name go on.
LEMMA EntriesKept ==
  ASSUME ServiceTypeOK, NoDeadEntry, registry' = registry,
         \A j \in Requests : Solving(j) =>
             Solving(j)' /\ request'[j].scope = request[j].scope
  PROVE  NoDeadEntry'
<1> SUFFICES ASSUME NEW c \in Classes, registry[c] # Nobody
             PROVE  Solving(registry[c])' /\ request'[registry[c]].scope = c
  BY DEF NoDeadEntry, Solving
<1>1. registry[c] \in Requests
  BY DEF ServiceTypeOK
<1> QED
  BY <1>1 DEF NoDeadEntry

\* A request that is not under way has nothing to answer for.
LEMMA NotUnderWay ==
  ASSUME NEW k \in Requests, request'[k] = Idle \/ \E stage \in Over : request'[k] = Ended(stage)
  PROVE  Answered(k)' /\ OwnKept(k)' /\ UpToDate(k)'
<1>1. request'[k].stage \in Over \cup {"new"} /\ request'[k].scope = WholeSchool
  BY DEF Idle, Ended, Over
<1> QED
  BY <1>1, ServiceAssumption DEF Answered, OwnKept, UpToDate, UnderWay, Persisting, Over

-----------------------------------------------------------------------------
(* Every step keeps the invariant.                                          *)

\* A class request reads the timetable as it is and takes over the entry of
\* its class.
LEMMA StartClassInv ==
  ASSUME ServiceInv, NEW k \in Requests, NEW c \in Classes, StartClass(k, c)
  PROVE  ServiceInv'
<1> USE DEF ServiceInv
<1> DEFINE new == [Idle EXCEPT !.stage = "solving", !.scope = c,
                               !.siblings = SiblingRows(c), !.own = OwnPins(c)]
<1>1. /\ request[k].stage = "new" /\ request' = [request EXCEPT ![k] = new]
      /\ registry' = [registry EXCEPT ![c] = k]
      /\ UNCHANGED <<stored, rota, cancelled, edits, serial>>
  BY DEF StartClass
<1>2. SiblingRows(c) \in SUBSET StoredRow /\ OwnPins(c) \in SUBSET StoredRow
  BY DEF ServiceTypeOK, SiblingRows, OwnPins, Pinning
<1>3. /\ new \in RequestType /\ new.stage = "solving" /\ new.scope = c
      /\ new.siblings = SiblingRows(c) /\ new.own = OwnPins(c)
  BY <1>2 DEF Idle, RequestType, Stages, Scopes
<1> HIDE DEF new
<1>4. request'[k] = new /\ \A j \in Requests \ {k} : request'[j] = request[j]
  BY <1>1 DEF ServiceTypeOK
<1>5. ServiceTypeOK'
  BY <1>1, <1>3 DEF ServiceTypeOK
<1>6. NoDeadEntry'
  BY <1>1, <1>3, <1>4, ServiceAssumption DEF NoDeadEntry, Solving, ServiceTypeOK
<1>7. ASSUME NEW j \in Requests PROVE Answered(j)' /\ OwnKept(j)' /\ UpToDate(j)'
  <2>1. CASE j = k
    <3>1. SiblingRows(c)' = SiblingRows(c) /\ OwnPins(c) \subseteq stored
      BY <1>1 DEF SiblingRows, OwnPins, Pinning
    <3>2. Answered(k)' /\ UpToDate(k)'
      BY <1>1, <1>3, <1>4, <3>1 DEF Answered, UpToDate, Persisting
    <3>3. OwnKept(k)'
      BY <1>3, <1>4 DEF OwnKept, Persisting, OwnPins, Pinning, SiblingRows
    <3> QED
      BY <2>1, <3>2, <3>3
  <2>2. CASE j # k
    BY <1>1, <1>4, <2>2, Untouched
  <2> QED
    BY <2>1, <2>2
<1>8. StoredWhole'
  BY <1>1 DEF StoredWhole, Whole, Passes
<1> QED
  BY <1>5, <1>6, <1>7, <1>8

\* A request for the whole school has no entry; its pins are of any class.
LEMMA StartWholeSchoolInv ==
  ASSUME ServiceInv, NEW k \in Requests, NEW respect \in BOOLEAN, StartWholeSchool(k, respect)
  PROVE  ServiceInv'
<1> USE DEF ServiceInv
<1> DEFINE new == [Idle EXCEPT !.stage = "solving",
                               !.own = IF respect THEN Pinning(stored) ELSE {}]
<1>1. /\ request[k].stage = "new" /\ request' = [request EXCEPT ![k] = new]
      /\ UNCHANGED <<stored, rota, registry, cancelled, edits, serial>>
  BY DEF StartWholeSchool
<1>2. Pinning(stored) \in SUBSET StoredRow
  BY DEF ServiceTypeOK, Pinning
<1>3. new \in RequestType /\ new.stage = "solving" /\ new.scope = WholeSchool
  BY <1>2 DEF Idle, RequestType, Stages, Scopes
<1> HIDE DEF new
<1>4. request'[k] = new /\ \A j \in Requests \ {k} : request'[j] = request[j]
  BY <1>1 DEF ServiceTypeOK
<1>5. ServiceTypeOK'
  BY <1>1, <1>3 DEF ServiceTypeOK
<1>6. NoDeadEntry'
  BY <1>1, <1>3, <1>4, ServiceAssumption DEF NoDeadEntry, Solving, ServiceTypeOK
<1>7. ASSUME NEW j \in Requests PROVE Answered(j)' /\ OwnKept(j)' /\ UpToDate(j)'
  <2>1. CASE j = k
    BY <1>3, <1>4, <2>1, ServiceAssumption DEF Answered, OwnKept, UpToDate, Persisting
  <2>2. CASE j # k
    BY <1>1, <1>4, <2>2, Untouched
  <2> QED
    BY <2>1, <2>2
<1>8. StoredWhole'
  BY <1>1 DEF StoredWhole, Whole, Passes
<1> QED
  BY <1>5, <1>6, <1>7, <1>8

\* The solver returns something that keeps its pins.
LEMMA ReturnInv ==
  ASSUME ServiceInv, NEW k \in Requests, Return(k)
  PROVE  ServiceInv'
<1> USE DEF ServiceInv
<1>1. PICK F \in Bound(k) : \E R \in Solutions(F) :
        request' = [request EXCEPT ![k].stage = "returned", ![k].fixed = F, ![k].solution = R]
  BY DEF Return
<1>2. PICK R \in Solutions(F) :
        request' = [request EXCEPT ![k].stage = "returned", ![k].fixed = F, ![k].solution = R]
  BY <1>1
<1>3. /\ request[k].stage = "solving"
      /\ UNCHANGED <<stored, rota, registry, cancelled, edits, serial>>
  BY DEF Return
<1>4. F \in SUBSET Row /\ R \in SUBSET Row
  BY BoundTyped, SolutionsTyped
<1>5. request[k] \in RequestType /\ request \in [Requests -> RequestType]
  BY DEF ServiceTypeOK
<1>6. /\ request'[k] = [request[k] EXCEPT !.stage = "returned", !.fixed = F, !.solution = R]
      /\ \A j \in Requests \ {k} : request'[j] = request[j]
  BY <1>2, <1>5
<1>7. /\ request'[k] \in RequestType /\ request'[k].stage = "returned"
      /\ request'[k].scope = request[k].scope /\ request'[k].own = request[k].own
      /\ request'[k].siblings = request[k].siblings /\ request'[k].fresh = request[k].fresh
      /\ request'[k].fixed = F /\ request'[k].solution = R
  BY ONLY <1>4, <1>5, <1>6 DEF RequestType, Stages
<1>8. ServiceTypeOK'
  <2>1. request' \in [Requests -> RequestType]
    BY <1>2, <1>5, <1>6, <1>7
  <2> QED
    BY <2>1, <1>3 DEF ServiceTypeOK
<1>9. NoDeadEntry'
  <2>1. ASSUME NEW j \in Requests, Solving(j)
        PROVE  Solving(j)' /\ request'[j].scope = request[j].scope
    BY <1>6, <1>7, <2>1 DEF Solving
  <2> QED
    BY <1>3, <2>1, EntriesKept
<1>10. ASSUME NEW j \in Requests PROVE Answered(j)' /\ OwnKept(j)' /\ UpToDate(j)'
  <2>1. CASE j = k
    <3>1. Bound(k)' = Bound(k)
      BY <1>7 DEF Bound
    <3>2. Answered(k)'
      BY <1>7, <3>1 DEF Answered
    <3>3. OwnKept(k)'
      BY <1>7 DEF OwnKept, Persisting
    <3>4. UpToDate(k)'
      <4>1. UpToDate(k) /\ UnderWay(k)
        BY <1>3 DEF UnderWay, Over
      <4> QED
        BY ONLY <1>3, <1>7, <4>1, SameReading
    <3> QED
      BY <2>1, <3>2, <3>3, <3>4
  <2>2. CASE j # k
    BY <1>3, <1>6, <2>2, Untouched
  <2> QED
    BY <2>1, <2>2
<1>11. StoredWhole'
  BY <1>3 DEF StoredWhole, Whole, Passes
<1> QED
  BY <1>8, <1>9, <1>10, <1>11

\* A rejected result ends the search as well.
LEMMA CrashInv ==
  ASSUME ServiceInv, NEW k \in Requests, Crash(k)
  PROVE  ServiceInv'
<1> USE DEF ServiceInv
<1>1. /\ request[k].stage = "solving"
      /\ request' = [request EXCEPT ![k].stage = "crashed"]
      /\ UNCHANGED <<stored, rota, registry, cancelled, edits, serial>>
  BY DEF Crash
<1>2. request[k] \in RequestType /\ request \in [Requests -> RequestType]
  BY DEF ServiceTypeOK
<1>3. /\ request'[k] = [request[k] EXCEPT !.stage = "crashed"]
      /\ \A j \in Requests \ {k} : request'[j] = request[j]
  BY <1>1, <1>2
<1>4. /\ request'[k] \in RequestType /\ request'[k].stage = "crashed"
      /\ request'[k].scope = request[k].scope /\ request'[k].own = request[k].own
      /\ request'[k].siblings = request[k].siblings /\ request'[k].fresh = request[k].fresh
  BY <1>2, <1>3 DEF RequestType, Stages
<1>5. ServiceTypeOK'
  <2>1. request' \in [Requests -> RequestType]
    BY <1>1, <1>2, <1>3, <1>4
  <2> QED
    BY <2>1, <1>1 DEF ServiceTypeOK
<1>6. NoDeadEntry'
  <2>1. ASSUME NEW j \in Requests, Solving(j)
        PROVE  Solving(j)' /\ request'[j].scope = request[j].scope
    BY <1>3, <1>4, <2>1 DEF Solving
  <2> QED
    BY <1>1, <2>1, EntriesKept
<1>7. ASSUME NEW j \in Requests PROVE Answered(j)' /\ OwnKept(j)' /\ UpToDate(j)'
  <2>1. CASE j = k
    <3>1. Answered(k)'
      BY <1>4 DEF Answered
    <3>2. OwnKept(k)'
      BY <1>4 DEF OwnKept, Persisting
    <3>3. UpToDate(k)'
      BY <1>1, <1>4 DEF UpToDate, UnderWay, Over, Persisting, SiblingRows
    <3> QED
      BY <2>1, <3>1, <3>2, <3>3
  <2>2. CASE j # k
    BY <1>1, <1>3, <2>2, Untouched
  <2> QED
    BY <2>1, <2>2
<1>8. StoredWhole'
  BY <1>1 DEF StoredWhole, Whole, Passes
<1> QED
  BY <1>5, <1>6, <1>7, <1>8

\* Leaving empties the entry of the class; no other entry can name the request.
LEMMA UnregisterInv ==
  ASSUME ServiceInv, NEW k \in Requests, Unregister(k)
  PROVE  ServiceInv'
<1> USE DEF ServiceInv
<1> DEFINE new == IF request[k].stage = "returned" THEN [request[k] EXCEPT !.stage = "solved"]
                                                 ELSE Ended("failed")
<1>1. /\ request[k].stage \in {"returned", "crashed"}
      /\ registry' = Leave(k)
      /\ request' = [request EXCEPT ![k] = new]
      /\ UNCHANGED <<stored, rota, cancelled, edits, serial>>
  BY DEF Unregister
<1>2. request[k] \in RequestType /\ request \in [Requests -> RequestType]
  BY DEF ServiceTypeOK
<1>3. new \in RequestType
  <2>1. [request[k] EXCEPT !.stage = "solved"] \in RequestType
    BY <1>2 DEF RequestType, Stages
  <2> QED
    BY <2>1, IdleTyped DEF Stages, Over
<1>4. request'[k] = new /\ \A j \in Requests \ {k} : request'[j] = request[j]
  BY <1>1, <1>2
<1>5. ServiceTypeOK'
  <2>1. request' \in [Requests -> RequestType]
    BY <1>1, <1>2, <1>3
  <2>2. registry' \in [Classes -> Requests \cup {Nobody}]
    BY <1>1 DEF ServiceTypeOK, Leave
  <2> HIDE DEF new
  <2> QED
    BY <2>1, <2>2, <1>1 DEF ServiceTypeOK
<1>6. NoDeadEntry'
  <2>1. registry \in [Classes -> Requests \cup {Nobody}] /\ NoDeadEntry
    BY DEF ServiceTypeOK
  <2> HIDE DEF ServiceInv, new
  <2> SUFFICES ASSUME NEW c \in Classes, registry'[c] # Nobody
               PROVE  Solving(registry[c])' /\ request'[registry'[c]].scope = c
    BY DEF NoDeadEntry, Solving
  <2>2. registry'[c] = registry[c] /\ (c # request[k].scope)
    BY <2>1, <1>1 DEF Leave
  <2>3. Solving(registry[c]) /\ request[registry[c]].scope = c /\ registry[c] \in Requests \ {k}
    BY <2>1, <2>2 DEF NoDeadEntry
  <2> QED
    BY <2>2, <2>3, <1>4 DEF Solving
<1>7. ASSUME NEW j \in Requests PROVE Answered(j)' /\ OwnKept(j)' /\ UpToDate(j)'
  <2>1. CASE j = k /\ request[k].stage = "returned"
    <3>1. /\ request'[k].stage = "solved" /\ request'[k].scope = request[k].scope
          /\ request'[k].own = request[k].own /\ request'[k].siblings = request[k].siblings
          /\ request'[k].fresh = request[k].fresh /\ request'[k].fixed = request[k].fixed
          /\ request'[k].solution = request[k].solution
      BY <1>2, <1>4, <2>1 DEF RequestType
    <3>2. Bound(k)' = Bound(k)
      BY <3>1 DEF Bound
    <3>3. Answered(k)'
      BY <2>1, <3>1, <3>2 DEF Answered
    <3>4. OwnKept(k)'
      BY <3>1 DEF OwnKept, Persisting
    <3>5. UpToDate(k)'
      <4>1. UpToDate(k) /\ UnderWay(k)
        BY <2>1 DEF UnderWay, Over
      <4> QED
        BY ONLY <1>1, <3>1, <4>1, SameReading
    <3> QED
      BY <2>1, <3>3, <3>4, <3>5
  <2>2. CASE j = k /\ request[k].stage # "returned"
    BY <1>4, <2>2, NotUnderWay DEF Over
  <2>3. CASE j # k
    BY <1>1, <1>4, <2>3, Untouched
  <2> QED
    BY <2>1, <2>2, <2>3
<1>8. StoredWhole'
  BY <1>1 DEF StoredWhole, Whole, Passes
<1> QED
  BY <1>5, <1>6, <1>7, <1>8

\* What a DELETE takes is what is there, and the pins sent are among the keys.
LEMMA DeleteInv ==
  ASSUME ServiceInv, NEW k \in Requests, Delete(k)
  PROVE  ServiceInv'
<1> USE DEF ServiceInv
<1>1. /\ request[k].stage = "solved"
      /\ UNCHANGED <<stored, rota, registry, cancelled, edits, serial>>
  BY DEF Delete
<1>2. request[k] \in RequestType /\ request \in [Requests -> RequestType]
  BY DEF ServiceTypeOK
<1>3. PICK W \in SUBSET Requests :
        request' = [request EXCEPT ![k].stage = "persisting", ![k].victims = Replaced(k),
                                   ![k].waits = W, ![k].keys = PinnedKeys(k, Replaced(k))]
  BY DEF Delete
<1>4. /\ request'[k] = [request[k] EXCEPT !.stage = "persisting", !.victims = Replaced(k),
                                          !.waits = W, !.keys = PinnedKeys(k, Replaced(k))]
      /\ \A j \in Requests \ {k} : request'[j] = request[j]
  BY <1>2, <1>3
<1>5. Replaced(k) \in SUBSET StoredRow /\ PinnedKeys(k, Replaced(k)) \in SUBSET (Lessons \X Slots)
  <2>1. Replaced(k) \in SUBSET StoredRow
    BY DEF Replaced, ServiceTypeOK
  <2>2. request[k].own \in SUBSET StoredRow
    BY <1>2 DEF RequestType
  <2> QED
    BY <2>1, <2>2 DEF PinnedKeys, Pinning, Keys, Key, StoredRow
<1>6. /\ request'[k] \in RequestType /\ request'[k].stage = "persisting"
      /\ request'[k].scope = request[k].scope /\ request'[k].own = request[k].own
      /\ request'[k].siblings = request[k].siblings /\ request'[k].fresh = request[k].fresh
      /\ request'[k].fixed = request[k].fixed /\ request'[k].solution = request[k].solution
      /\ request'[k].victims = Replaced(k) /\ request'[k].keys = PinnedKeys(k, Replaced(k))
  BY ONLY <1>2, <1>4, <1>5 DEF RequestType, Stages
<1>7. ServiceTypeOK'
  <2>1. request' \in [Requests -> RequestType]
    BY <1>2, <1>3, <1>4, <1>6
  <2> QED
    BY <2>1, <1>1 DEF ServiceTypeOK
<1>8. NoDeadEntry'
  <2>1. ASSUME NEW j \in Requests, Solving(j)
        PROVE  Solving(j)' /\ request'[j].scope = request[j].scope
    BY <1>1, <1>4, <2>1 DEF Solving
  <2> QED
    BY <1>1, <2>1, EntriesKept
<1>9. ASSUME NEW j \in Requests PROVE Answered(j)' /\ OwnKept(j)' /\ UpToDate(j)'
  <2>1. CASE j = k
    <3>1. Bound(k)' = Bound(k)
      BY <1>6 DEF Bound
    <3>2. Answered(k)'
      BY <1>1, <1>6, <3>1 DEF Answered
    <3>3. OwnKept(k)'
      BY <1>6 DEF OwnKept, PinnedKeys
    <3>4. Replaced(k)' = Replaced(k)
      BY <1>1, <1>6 DEF Replaced
    <3>5. UpToDate(k)'
      <4>1. UnderWay(k) /\ request'[k].fresh = request[k].fresh
        BY <1>1, <1>6 DEF UnderWay, Over
      <4>2. request'[k].victims = Replaced(k)'
        BY <1>6, <3>4
      <4>3. SiblingRows(request[k].scope)' = SiblingRows(request'[k].scope)
        BY <1>1 DEF SiblingRows
      <4>4. UpToDate(k)
        OBVIOUS
      <4> QED
        BY ONLY <1>1, <1>6, <4>1, <4>2, <4>3, <4>4 DEF UpToDate, SiblingRows
    <3> QED
      BY <2>1, <3>2, <3>3, <3>5
  <2>2. CASE j # k
    BY <1>1, <1>4, <2>2, Untouched
  <2> QED
    BY <2>1, <2>2
<1>10. StoredWhole'
  BY <1>1 DEF StoredWhole, Whole, Passes
<1> QED
  BY <1>7, <1>8, <1>9, <1>10

\* Rows of a solution that are stored are rows; the keys pinned among them are
\* hard.
LEMMA CommitTyped ==
  ASSUME ServiceInv, NEW k \in Requests, Commit(k)
  PROVE  ServiceTypeOK'
<1> DEFINE new(r) == [lesson |-> r.lesson, slot |-> r.slot, room |-> r.room,
                      teacher |-> r.teacher,
                      pin |-> IF Key(r) \in request[k].keys THEN "hard" ELSE "none"]
<1>1. /\ stored' = (stored \ request[k].victims) \cup {new(r) : r \in NewRows(k)}
      /\ rota' = (rota \/ request[k].scope # WholeSchool)
      /\ request' = Overtaken(k)
      /\ serial' = (serial /\ request[k].fresh /\ Complete(request[k].solution))
      /\ UNCHANGED <<registry, cancelled, edits>>
  BY DEF Commit
<1>2. ServiceTypeOK
  BY DEF ServiceInv
<1>3. stored' \in SUBSET StoredRow
  <2>1. NewRows(k) \in SUBSET Row
    BY <1>2 DEF NewRows, ServiceTypeOK, RequestType
  <2>2. ASSUME NEW r \in NewRows(k) PROVE new(r) \in StoredRow
    BY <2>1 DEF Row, StoredRow, PinKinds
  <2>3. stored \in SUBSET StoredRow
    BY <1>2 DEF ServiceTypeOK
  <2> HIDE DEF new
  <2> QED
    BY <1>1, <2>2, <2>3
<1>4. request' \in [Requests -> RequestType]
  <2>1. ASSUME NEW j \in Requests
        PROVE  [request[j] EXCEPT
                  !.victims = @ \ request[k].victims,
                  !.rotaTaken = @ \/ /\ Persisting(j)
                                     /\ WholeSchool \notin {request[j].scope, request[k].scope},
                  !.fresh = FALSE] \in RequestType
    <3>1. request[j] \in RequestType
      BY <1>2 DEF ServiceTypeOK
    <3>2. (\/ request[j].rotaTaken
           \/ /\ Persisting(j)
              /\ WholeSchool \notin {request[j].scope, request[k].scope}) \in BOOLEAN
      OBVIOUS
    <3> QED
      BY <3>1, <3>2 DEF RequestType
  <2>2. Ended("answered") \in RequestType
    BY IdleTyped DEF Stages, Over
  <2> QED
    BY <1>1, <2>1, <2>2 DEF Overtaken
<1>5. serial' \in BOOLEAN
  BY <1>1
<1>6. rota' \in BOOLEAN
  BY <1>1, <1>2 DEF ServiceTypeOK
<1> QED
  BY <1>1, <1>2, <1>3, <1>4, <1>5, <1>6 DEF ServiceTypeOK

\* The stage and the working data of the others survive a commit; what they
\* have read is out of date from now on.
LEMMA OvertakenFields ==
  ASSUME ServiceInv, NEW k \in Requests, Commit(k), NEW j \in Requests \ {k}
  PROVE  /\ request'[j].stage = request[j].stage /\ request'[j].scope = request[j].scope
         /\ request'[j].siblings = request[j].siblings /\ request'[j].own = request[j].own
         /\ request'[j].fixed = request[j].fixed /\ request'[j].solution = request[j].solution
         /\ request'[j].keys = request[j].keys /\ request'[j].fresh = FALSE
<1>1. request[j] \in RequestType
  BY DEF ServiceInv, ServiceTypeOK
<1>2. request'[j] = [request[j] EXCEPT
                       !.victims = @ \ request[k].victims,
                       !.rotaTaken = @ \/ /\ Persisting(j)
                                          /\ WholeSchool \notin {request[j].scope, request[k].scope},
                       !.fresh = FALSE]
  BY DEF Commit, Overtaken
<1> QED
  BY <1>1, <1>2 DEF RequestType

\* A commit ends its request and outdates the others.
LEMMA CommitInv ==
  ASSUME ServiceInv, NEW k \in Requests, Commit(k)
  PROVE  ServiceInv'
<1>1. request[k].stage = "persisting" /\ registry' = registry /\ request'[k] = Ended("answered")
  BY DEF Commit, Granted, Persisting, Overtaken
<1>2. ServiceTypeOK'
  BY CommitTyped
<1>3. NoDeadEntry'
  <2>1. ASSUME NEW j \in Requests, Solving(j)
        PROVE  Solving(j)' /\ request'[j].scope = request[j].scope
    BY <1>1, <2>1, OvertakenFields DEF Solving
  <2> QED
    BY <1>1, <2>1, EntriesKept DEF ServiceInv
<1>4. ASSUME NEW j \in Requests PROVE Answered(j)' /\ OwnKept(j)' /\ UpToDate(j)'
  <2>1. CASE j = k
    BY <1>1, <2>1, NotUnderWay DEF Over
  <2>2. CASE j # k
    BY <2>2, OvertakenFields, Untouched DEF ServiceInv
  <2> QED
    BY <2>1, <2>2
<1>5. StoredWhole'
  BY CommitStoresWhole
<1> QED
  BY <1>2, <1>3, <1>4, <1>5 DEF ServiceInv

\* A failed transaction leaves no trace.
LEMMA RollbackInv ==
  ASSUME ServiceInv, NEW k \in Requests, Rollback(k)
  PROVE  ServiceInv'
<1>1. /\ request[k].stage = "persisting"
      /\ request' = [request EXCEPT ![k] = Ended("failed")]
      /\ UNCHANGED <<stored, rota, registry, cancelled, edits, serial>>
  BY DEF Rollback, Granted, Persisting
<1>2. ServiceTypeOK /\ Ended("failed") \in RequestType
  BY IdleTyped DEF ServiceInv, Stages, Over
<1>3. request'[k] = Ended("failed") /\ \A j \in Requests \ {k} : request'[j] = request[j]
  BY <1>1, <1>2 DEF ServiceTypeOK
<1>4. ServiceTypeOK'
  BY <1>1, <1>2 DEF ServiceTypeOK
<1>5. NoDeadEntry'
  <2>1. ASSUME NEW j \in Requests, Solving(j)
        PROVE  Solving(j)' /\ request'[j].scope = request[j].scope
    BY <1>1, <1>3, <2>1 DEF Solving
  <2> QED
    BY <1>1, <2>1, EntriesKept DEF ServiceInv
<1>6. ASSUME NEW j \in Requests PROVE Answered(j)' /\ OwnKept(j)' /\ UpToDate(j)'
  <2>1. CASE j = k
    BY <1>3, <2>1, NotUnderWay DEF Over
  <2>2. CASE j # k
    BY <1>1, <1>3, <2>2, Untouched DEF ServiceInv
  <2> QED
    BY <2>1, <2>2
<1>7. StoredWhole'
  BY <1>1 DEF ServiceInv, StoredWhole, Whole, Passes
<1> QED
  BY <1>4, <1>5, <1>6, <1>7 DEF ServiceInv

\* A cancel only raises a flag.
LEMMA CancelInv ==
  ASSUME ServiceInv, NEW c \in Classes, Cancel(c)
  PROVE  ServiceInv'
<1>1. /\ registry[c] # Nobody /\ cancelled' = cancelled \cup {registry[c]}
      /\ UNCHANGED <<stored, rota, request, registry, edits, serial>>
  BY DEF Cancel
<1>2. ServiceTypeOK'
  BY <1>1 DEF ServiceInv, ServiceTypeOK
<1>3. NoDeadEntry'
  BY <1>1 DEF ServiceInv, NoDeadEntry, Solving
<1>4. ASSUME NEW j \in Requests PROVE Answered(j)' /\ OwnKept(j)' /\ UpToDate(j)'
  BY <1>1, Untouched DEF ServiceInv
<1>5. StoredWhole'
  BY <1>1 DEF ServiceInv, StoredWhole, Whole, Passes
<1> QED
  BY <1>2, <1>3, <1>4, <1>5 DEF ServiceInv

\* After a restart nothing is under way and nothing is registered.
LEMMA RestartInv ==
  ASSUME ServiceInv, Restart
  PROVE  ServiceInv'
<1>1. /\ request' = [k \in Requests |-> IF request[k].stage \in Over \cup {"new"} THEN request[k]
                                        ELSE Ended("failed")]
      /\ registry' = [c \in Classes |-> Nobody]
      /\ UNCHANGED <<stored, rota, cancelled, edits, serial>>
  BY DEF Restart
<1>2. ServiceTypeOK /\ Ended("failed") \in RequestType
  BY IdleTyped DEF ServiceInv, Stages, Over
<1>3. ServiceTypeOK'
  BY <1>1, <1>2 DEF ServiceTypeOK
<1>4. NoDeadEntry'
  BY <1>1 DEF NoDeadEntry
<1>5. ASSUME NEW j \in Requests PROVE Answered(j)' /\ OwnKept(j)' /\ UpToDate(j)'
  <2>1. CASE request[j].stage \in Over \cup {"new"}
    <3>1. request'[j] = request[j]
      BY <1>1, <2>1
    <3> QED
      BY <1>1, <3>1, Untouched DEF ServiceInv
  <2>2. CASE request[j].stage \notin Over \cup {"new"}
    <3>1. request'[j] = Ended("failed")
      BY <1>1, <2>2
    <3> QED
      BY <3>1, NotUnderWay DEF Over
  <2> QED
    BY <2>1, <2>2
<1>6. StoredWhole'
  BY <1>1 DEF ServiceInv, StoredWhole, Whole, Passes
<1> QED
  BY <1>3, <1>4, <1>5, <1>6 DEF ServiceInv

\* An edit outdates what requests have read; the timetable stays serial only
\* when no row changes its place.
LEMMA EditInv ==
  ASSUME ServiceInv, NEW out, NEW in \in SUBSET StoredRow, Edit(out, in),
         serial' \in BOOLEAN, serial' => serial /\ Schedule(stored') = Schedule(stored)
  PROVE  ServiceInv'
<1>1. /\ stored' = (stored \ out) \cup in /\ edits' = edits + 1
      /\ request' = [k \in Requests |-> [request[k] EXCEPT !.fresh = FALSE]]
      /\ UNCHANGED <<rota, registry, cancelled>>
  BY DEF Edit
<1>2. ServiceTypeOK
  BY DEF ServiceInv
<1>3. ASSUME NEW j \in Requests
      PROVE  /\ request'[j] \in RequestType
             /\ request'[j].stage = request[j].stage /\ request'[j].scope = request[j].scope
             /\ request'[j].siblings = request[j].siblings /\ request'[j].own = request[j].own
             /\ request'[j].fixed = request[j].fixed
             /\ request'[j].solution = request[j].solution
             /\ request'[j].keys = request[j].keys /\ request'[j].fresh = FALSE
  <2>1. request[j] \in RequestType /\ request'[j] = [request[j] EXCEPT !.fresh = FALSE]
    BY <1>1, <1>2 DEF ServiceTypeOK
  <2> QED
    BY <2>1 DEF RequestType
<1>4. ServiceTypeOK'
  <2>1. request' \in [Requests -> RequestType]
    BY <1>1, <1>3
  <2> QED
    BY <2>1, <1>1, <1>2 DEF ServiceTypeOK
<1>5. NoDeadEntry'
  BY <1>1, <1>2, <1>3, EntriesKept DEF ServiceInv, Solving
<1>6. ASSUME NEW j \in Requests PROVE Answered(j)' /\ OwnKept(j)' /\ UpToDate(j)'
  BY <1>3, Untouched DEF ServiceInv
<1>7. StoredWhole'
  BY DEF ServiceInv, StoredWhole
<1> QED
  BY <1>4, <1>5, <1>6, <1>7 DEF ServiceInv

\* A moved row leaves serial timetables behind; so do two that trade places.
LEMMA MoveInv ==
  ASSUME ServiceInv, NEW r \in stored, NEW s \in Slots, NEW room \in Rooms, Move(r, s, room)
  PROVE  ServiceInv'
<1>1. r \in StoredRow
  BY DEF ServiceInv, ServiceTypeOK
<1>2. {[r EXCEPT !.slot = s, !.room = room, !.pin = "hard"]} \in SUBSET StoredRow
  BY <1>1 DEF StoredRow, PinKinds
<1> QED
  BY <1>2, EditInv DEF Move

\* Two rows that trade places.
LEMMA SwapPlacementsInv ==
  ASSUME ServiceInv, NEW r \in stored, NEW q \in stored, SwapPlacements(r, q)
  PROVE  ServiceInv'
<1>1. r \in StoredRow /\ q \in StoredRow
  BY DEF ServiceInv, ServiceTypeOK
<1>2. {[r EXCEPT !.slot = q.slot, !.room = q.room, !.pin = "hard"],
       [q EXCEPT !.slot = r.slot, !.room = r.room, !.pin = "hard"]} \in SUBSET StoredRow
  BY <1>1 DEF StoredRow, PinKinds
<1> QED
  BY <1>2, EditInv DEF SwapPlacements

\* A pin changes no placement.
LEMMA PinInv ==
  ASSUME ServiceInv, NEW r \in stored, NEW kind \in PinKinds, Pin(r, kind)
  PROVE  ServiceInv'
<1> DEFINE new == [r EXCEPT !.pin = kind]
<1>1. r \in StoredRow /\ serial \in BOOLEAN
  BY DEF ServiceInv, ServiceTypeOK
<1>2. new \in StoredRow /\ Plain(new) = Plain(r)
  BY <1>1 DEF StoredRow, Plain
<1>3. Edit({r}, {new}) /\ serial' = serial
  BY DEF Pin
<1> HIDE DEF new
<1>4. stored' = (stored \ {r}) \cup {new}
  BY <1>3 DEF Edit
<1>5. Schedule(stored') = Schedule(stored)
  BY <1>2, <1>4 DEF Schedule
<1> QED
  BY <1>1, <1>2, <1>3, <1>5, EditInv

\* Every step keeps the invariant.
LEMMA ServiceNextInv ==
  ASSUME ServiceInv, [ServiceNext]_serviceVars
  PROVE  ServiceInv'
<1>1. ASSUME NEW k \in Requests,
             \/ \E c \in Classes : StartClass(k, c)
             \/ \E respect \in BOOLEAN : StartWholeSchool(k, respect)
             \/ Return(k) \/ Crash(k) \/ Unregister(k)
             \/ Delete(k) \/ Commit(k) \/ Rollback(k)
      PROVE  ServiceInv'
  BY <1>1, StartClassInv, StartWholeSchoolInv, ReturnInv, CrashInv, UnregisterInv,
     DeleteInv, CommitInv, RollbackInv
<1>2. CASE \E c \in Classes : Cancel(c)
  BY <1>2, CancelInv
<1>3. CASE Restart
  BY <1>3, RestartInv
<1>4. ASSUME NEW r \in stored,
             \/ \E s \in Slots, room \in Rooms : Move(r, s, room)
             \/ \E kind \in PinKinds : Pin(r, kind)
             \/ \E q \in stored : SwapPlacements(r, q)
      PROVE  ServiceInv'
  BY <1>4, MoveInv, PinInv, SwapPlacementsInv
<1>5. CASE UNCHANGED serviceVars
  <2>1. UNCHANGED <<stored, rota, request, registry, cancelled, edits, serial>>
    BY <1>5 DEF serviceVars
  <2>2. ServiceTypeOK' /\ NoDeadEntry'
    BY <2>1 DEF ServiceInv, ServiceTypeOK, NoDeadEntry, Solving
  <2>3. ASSUME NEW j \in Requests PROVE Answered(j)' /\ OwnKept(j)' /\ UpToDate(j)'
    BY <2>1, Untouched DEF ServiceInv
  <2>4. StoredWhole'
    BY <2>1 DEF ServiceInv, StoredWhole, Whole, Passes
  <2> QED
    BY <2>2, <2>3, <2>4 DEF ServiceInv
<1> QED
  BY <1>1, <1>2, <1>3, <1>4, <1>5 DEF ServiceNext

-----------------------------------------------------------------------------
(* The theorems.                                                            *)

\* A timetable that earlier requests have left whole, and no request under way.
LEMMA ServiceInitInv == ServiceInit => ServiceInv
<1> SUFFICES ASSUME ServiceInit PROVE ServiceInv
  OBVIOUS
<1>1. /\ stored \in Kept /\ rota \in BOOLEAN /\ request = [k \in Requests |-> Idle]
      /\ registry = [c \in Classes |-> Nobody] /\ cancelled = {} /\ edits = 0 /\ serial = TRUE
  BY DEF ServiceInit
<1>2. ServiceTypeOK
  BY <1>1, IdleTyped, KeptAssumption DEF ServiceTypeOK
<1>3. NoDeadEntry
  BY <1>1 DEF NoDeadEntry
<1>4. ASSUME NEW k \in Requests PROVE Answered(k) /\ OwnKept(k) /\ UpToDate(k)
  <2>1. request[k].stage = "new" /\ request[k].scope = WholeSchool
    BY <1>1, <1>4 DEF Idle
  <2> QED
    BY <2>1, ServiceAssumption DEF Answered, OwnKept, UpToDate, UnderWay, Persisting
<1>5. StoredWhole
  BY <1>1, KeptAssumption DEF StoredWhole
<1> QED
  BY <1>2, <1>3, <1>4, <1>5 DEF ServiceInv

\* The invariant of the service.
THEOREM ServiceInvariance == ServiceSpec => []ServiceInv
BY ServiceInitInv, ServiceNextInv, PTL DEF ServiceSpec

\* An entry of the registry names a solve of that class that is under way, in
\* spite of two solves of one class, errors and restarts (register_progress).
THEOREM EntriesAlive == ServiceSpec => []NoDeadEntry
<1>1. ServiceInv => NoDeadEntry
  BY DEF ServiceInv
<1> QED
  BY <1>1, ServiceInvariance, PTL

\* Class requests that do not overlap leave a timetable that the validators
\* accept, whatever part of it each of them has computed.
THEOREM SerialAccepted == ServiceSpec => []SerialSchedulesPass
<1>1. ServiceInv => SerialSchedulesPass
  BY DEF ServiceInv, StoredWhole, SerialSchedulesPass
<1> QED
  BY <1>1, ServiceInvariance, PTL

\* A hard pin of a wholly pinned lesson comes back with the rows that replace it.
LEMMA CommitKeepsPins ==
  ASSUME ServiceInv, NEW k \in Requests, Commit(k),
         NEW r \in request[k].own, r.pin = "hard", Plain(r) \in request[k].fixed, r \in stored
  PROVE  r \in stored'
<1>1. /\ Persisting(k)
      /\ stored' = (stored \ request[k].victims)
           \cup {[lesson |-> q.lesson, slot |-> q.slot, room |-> q.room, teacher |-> q.teacher,
                  pin |-> IF Key(q) \in request[k].keys THEN "hard" ELSE "none"] : q \in NewRows(k)}
  BY DEF Commit, Granted
<1> DEFINE p == Plain(r)
<1>2. r \in StoredRow
  BY DEF ServiceInv, ServiceTypeOK
<1>3. request[k].fixed \in SUBSET Row /\ request[k].solution \in Solutions(request[k].fixed)
  BY <1>1 DEF ServiceInv, ServiceTypeOK, RequestType, Answered, Persisting
<1>4. p \in request[k].solution
  BY <1>3, SolutionsTyped
<1>5. p \in NewRows(k)
  <2>1. request[k].scope = WholeSchool \/ request[k].scope \in Classes
    BY DEF ServiceInv, ServiceTypeOK, RequestType, Scopes
  <2>2. request[k].scope \in Classes => Attends(request[k].scope, p)
    BY DEF ServiceInv, OwnKept, Attends, Plain
  <2> QED
    BY <1>4, <2>1, <2>2 DEF NewRows
<1>6. Key(p) \in request[k].keys
  BY <1>1 DEF ServiceInv, OwnKept, Keys, Key, Plain
<1>7. [lesson |-> p.lesson, slot |-> p.slot, room |-> p.room, teacher |-> p.teacher,
       pin |-> IF Key(p) \in request[k].keys THEN "hard" ELSE "none"] = r
  BY <1>2, <1>6 DEF StoredRow, Plain
<1> HIDE DEF p
<1> QED
  BY <1>1, <1>5, <1>7

\* No request loses a hard pin of a wholly pinned lesson that is still stored
\* when it commits, whoever else has stored something meanwhile.
THEOREM PinsSurviveAlways == ServiceSpec => PinsSurvive
<1> DEFINE PinsKept ==
      \A k \in Requests : Persisting(k) /\ request'[k].stage = "answered" =>
         \A r \in request[k].own :
            r.pin = "hard" /\ Plain(r) \in request[k].fixed /\ r \in stored => r \in stored'
<1>1. ServiceInv /\ [ServiceNext]_serviceVars => [PinsKept]_serviceVars
  <2> SUFFICES ASSUME ServiceInv, ServiceNext, NEW k \in Requests,
                      Persisting(k), request'[k].stage = "answered",
                      NEW r \in request[k].own,
                      r.pin = "hard", Plain(r) \in request[k].fixed, r \in stored
               PROVE  r \in stored'
    OBVIOUS
  <2>1. request[k].stage = "persisting" /\ request \in [Requests -> RequestType]
    BY DEF Persisting, ServiceInv, ServiceTypeOK
  <2>2. ASSUME NEW j \in Requests,
               \/ \E c \in Classes : StartClass(j, c)
               \/ \E respect \in BOOLEAN : StartWholeSchool(j, respect)
               \/ Return(j) \/ Crash(j) \/ Unregister(j)
        PROVE  stored' = stored
    BY <2>2 DEF StartClass, StartWholeSchool, Return, Crash, Unregister
  <2>3. ASSUME NEW j \in Requests, Delete(j) \/ Rollback(j) PROVE stored' = stored
    BY <2>3 DEF Delete, Rollback
  <2>4. ASSUME NEW j \in Requests, Commit(j) PROVE r \in stored'
    <3>1. CASE j = k
      BY <2>4, <3>1, CommitKeepsPins
    <3>2. CASE j # k
      <4>1. request'[k].stage = "persisting"
        BY <2>1, <2>4, <3>2, OvertakenFields
      <4> QED
        BY <4>1
    <3> QED
      BY <3>1, <3>2
  <2>5. ASSUME (\E c \in Classes : Cancel(c)) \/ Restart PROVE stored' = stored
    BY <2>5 DEF Cancel, Restart
  <2>6. ASSUME NEW out, NEW in, Edit(out, in) PROVE FALSE
    <3>1. request'[k] = [request[k] EXCEPT !.fresh = FALSE] /\ request[k] \in RequestType
      BY <2>1, <2>6 DEF Edit
    <3>2. request'[k].stage = "persisting"
      BY <2>1, <3>1 DEF RequestType
    <3> QED
      BY <3>2
  <2> QED
    BY <2>2, <2>3, <2>4, <2>5, <2>6 DEF ServiceNext, Move, Pin, SwapPlacements
<1>2. ServiceSpec => [][ServiceNext]_serviceVars
  BY DEF ServiceSpec
<1>3. ServiceSpec => [][PinsKept]_serviceVars
  BY <1>1, <1>2, ServiceInvariance, PTL
<1> QED
  BY ONLY <1>3 DEF PinsSurvive

\* When the rows of the other classes that a request has read are whole lessons
\* without a conflict among them, what it computes for its class is free of
\* conflicts with them, as collect_pinned_placements means it; without that
\* condition it is not (run sibling_drift).
THEOREM WholeSiblingsStayFixed ==
  ServiceSpec => [](\A k \in Requests :
     /\ request[k].stage = "returned" /\ request[k].scope \in Classes
     /\ NoDoubleBooking(Schedule(request[k].siblings))
     /\ BlockShape(Schedule(request[k].siblings)) /\ Whole(Schedule(request[k].siblings))
     => \A r \in NewRows(k), q \in Schedule(request[k].siblings) :
           ~Attends(request[k].scope, q) => ~Clash(r, q))
<1> DEFINE Fixed ==
      \A k \in Requests :
     /\ request[k].stage = "returned" /\ request[k].scope \in Classes
     /\ NoDoubleBooking(Schedule(request[k].siblings))
     /\ BlockShape(Schedule(request[k].siblings)) /\ Whole(Schedule(request[k].siblings))
     => \A r \in NewRows(k), q \in Schedule(request[k].siblings) :
           ~Attends(request[k].scope, q) => ~Clash(r, q)
<1>1. ServiceInv => Fixed
  <2> SUFFICES ASSUME ServiceInv, NEW k \in Requests,
                      request[k].stage = "returned", request[k].scope \in Classes,
                      NoDoubleBooking(Schedule(request[k].siblings)),
                      BlockShape(Schedule(request[k].siblings)),
                      Whole(Schedule(request[k].siblings)),
                      NEW r \in NewRows(k), NEW q \in Schedule(request[k].siblings),
                      ~Attends(request[k].scope, q)
               PROVE  ~Clash(r, q)
    OBVIOUS
  <2>1. q \in request[k].solution
    BY SiblingsFixed
  <2>2. r \in request[k].solution /\ Attends(request[k].scope, r)
    BY ServiceAssumption DEF NewRows
  <2>3. r # q
    BY <2>2
  <2>4. NoDoubleBooking(request[k].solution)
    BY DEF ServiceInv, Answered, Solutions, Passing, Passes
  <2> QED
    BY <2>1, <2>2, <2>3, <2>4 DEF NoDoubleBooking
<1> QED
  BY <1>1, ServiceInvariance, PTL
=============================================================================
