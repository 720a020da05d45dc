--------------------------- MODULE Timetable_proofs ---------------------------
(***************************************************************************)
(* Facts about sets of placement rows that the proofs about the search     *)
(* rest on: rows are finite in number, and the per-class and per-teacher   *)
(* counts of a schedule add up when rows are added and removed.            *)
(***************************************************************************)
EXTENDS Timetable, FiniteSetTheorems, FunctionTheorems, TLAPS

\* There are finitely many rows, so every schedule is finite.
LEMMA RowFinite == IsFiniteSet(Row)
<1> DEFINE P == Lessons \X (Slots \X (Rooms \X Teachers))
           f == [x \in P |-> [lesson |-> x[1], slot |-> x[2][1],
                              room |-> x[2][2][1], teacher |-> x[2][2][2]]]
<1>1. IsFiniteSet(P)
  <2>1. IsFiniteSet(Rooms \X Teachers)
    BY FS_Product, ProblemAssumption DEF ValidLessons, ValidGroups
  <2>2. IsFiniteSet(Slots \X (Rooms \X Teachers))
    BY <2>1, FS_Product, ProblemAssumption DEF ValidLessons, ValidGroups
  <2> QED
    BY <2>2, FS_Product, ProblemAssumption DEF ValidLessons, ValidGroups
<1>2. f \in [P -> Row]
  BY DEF Row
<1>3. ASSUME NEW r \in Row PROVE \E x \in P : f[x] = r
  <2>1. <<r.lesson, <<r.slot, <<r.room, r.teacher>>>>>> \in P
    BY DEF Row
  <2> QED
    BY <2>1 DEF Row
<1>4. f \in Surjection(P, Row)
  BY <1>2, <1>3, Fun_IsSurj
<1> HIDE DEF P, f
<1> QED
  BY <1>1, <1>4, FS_Surjection

\* Every schedule is finite and its size is a number.
LEMMA ScheduleFinite ==
  ASSUME NEW R \in SUBSET Row
  PROVE  IsFiniteSet(R) /\ Cardinality(R) \in Nat
BY RowFinite, FS_Subset, FS_CardinalityType

\* Sizes of disjoint sets add up.
LEMMA SizeOfUnion ==
  ASSUME NEW A, IsFiniteSet(A), NEW B, IsFiniteSet(B), A \cap B = {}
  PROVE  /\ Cardinality(A \cup B) = Cardinality(A) + Cardinality(B)
         /\ Cardinality(A) \in Nat /\ Cardinality(B) \in Nat
<1>1. Cardinality(A) \in Nat /\ Cardinality(B) \in Nat
  BY FS_CardinalityType
<1>2. Cardinality(A \cap B) = 0
  BY FS_EmptySet
<1>3. Cardinality(A \cup B) = Cardinality(A) + Cardinality(B) - Cardinality(A \cap B)
  BY FS_Union
<1> QED
  BY <1>1, <1>2, <1>3

\* Taking out a part subtracts its size.
LEMMA SizeOfRest ==
  ASSUME NEW A, IsFiniteSet(A), NEW B, B \subseteq A
  PROVE  /\ Cardinality(A \ B) = Cardinality(A) - Cardinality(B)
         /\ Cardinality(A) \in Nat /\ Cardinality(B) \in Nat
         /\ Cardinality(B) <= Cardinality(A)
<1>1. A \cap B = B
  OBVIOUS
<1>2. IsFiniteSet(B) /\ Cardinality(B) <= Cardinality(A)
  BY FS_Subset
<1>3. Cardinality(A) \in Nat /\ Cardinality(B) \in Nat
  BY <1>2, FS_CardinalityType
<1>4. Cardinality(A \ B) = Cardinality(A) - Cardinality(A \cap B)
  BY FS_Difference
<1> QED
  BY <1>1, <1>2, <1>3, <1>4

\* A set is empty when its size is zero.
LEMMA SizeZero ==
  ASSUME NEW A, IsFiniteSet(A)
  PROVE  Cardinality(A) \in Nat /\ (Cardinality(A) = 0 <=> A = {})
BY FS_EmptySet, FS_CardinalityType

\* What a clash is about: rows of one lesson in one slot clash, because a
\* lesson has a class.
LEMMA SameLessonClashes ==
  ASSUME NEW R \in SUBSET Row, NoDoubleBooking(R),
         NEW r \in R, NEW q \in R, r.lesson = q.lesson, r.slot = q.slot
  PROVE  r = q
<1>1. ClassesOf[r.lesson] # {}
  BY ProblemAssumption DEF Row, ValidLessons, ValidGroups
<1> QED
  BY <1>1 DEF NoDoubleBooking, Clash

\* A part of a conflict-free schedule is conflict-free.
LEMMA PartOfSound ==
  ASSUME NEW R, NEW S, S \subseteq R
  PROVE  /\ NoDoubleBooking(R) => NoDoubleBooking(S)
         /\ NoRoomHopping(R) => NoRoomHopping(S)
         /\ OneTeacherPerClassSubject(R) => OneTeacherPerClassSubject(S)
BY DEF NoDoubleBooking, NoRoomHopping, OneTeacherPerClassSubject

\* A part of a schedule: some of its lessons, each with all of its rows.
SomeLessons(T, R) ==
    T \subseteq R /\ \A l \in Lessons : RowsOf(T, l) = {} \/ RowsOf(T, l) = RowsOf(R, l)

\* A smaller set of rows is counted lower.
LEMMA SmallerCount ==
  ASSUME NEW R \in SUBSET Row, NEW A, NEW B, B \subseteq R, A \subseteq B
  PROVE  Cardinality(A) <= Cardinality(B) /\ Cardinality(A) \in Nat /\ Cardinality(B) \in Nat
<1>1. IsFiniteSet(B)
  BY ScheduleFinite, FS_Subset
<1> QED
  BY <1>1, FS_Subset, FS_CardinalityType

\* Rows of one lesson on one day come from that lesson's rows.
LEMMA LessonDay ==
  ASSUME NEW R \in SUBSET Row, NEW T, SomeLessons(T, R), NEW l \in Lessons, NEW d
  PROVE  RowsOfOn(T, l, d) = {} \/ RowsOfOn(T, l, d) = RowsOfOn(R, l, d)
<1>1. ASSUME NEW S PROVE RowsOfOn(S, l, d) = {r \in RowsOf(S, l) : Day(r.slot) = d}
  BY DEF RowsOfOn, RowsOf
<1>2. CASE RowsOf(T, l) = {}
  BY <1>1, <1>2
<1>3. CASE RowsOf(T, l) = RowsOf(R, l)
  BY <1>1, <1>3
<1> QED
  BY <1>2, <1>3 DEF SomeLessons

\* A row of the part has all rows of its lesson beside it.
LEMMA LessonMates ==
  ASSUME NEW R \in SUBSET Row, NEW T, SomeLessons(T, R),
         NEW r \in T, NEW q \in R, q.lesson = r.lesson
  PROVE  q \in T
<1>1. r.lesson \in Lessons /\ r \in RowsOf(T, r.lesson) /\ q \in RowsOf(R, r.lesson)
  BY DEF SomeLessons, RowsOf, Row
<1>2. q \in RowsOf(T, r.lesson)
  BY <1>1 DEF SomeLessons
<1> QED
  BY <1>2 DEF RowsOf

\* Block shapes are a matter of single lessons.
LEMMA PartBlockShape ==
  ASSUME NEW R \in SUBSET Row, NEW T, SomeLessons(T, R), BlockShape(R)
  PROVE  BlockShape(T)
<1> SUFFICES ASSUME NEW l \in Lessons, NEW d \in Days
             PROVE  LET rows == RowsOfOn(T, l, d)
                        before(r) == {q \in rows : Pos(q.slot) < Pos(r.slot)}
                    IN  /\ Cardinality(rows) % BlockSize[l] = 0
                        /\ \A r \in rows : Cardinality(before(r)) % BlockSize[l] = 0 =>
                             \A k \in 1..(BlockSize[l] - 1) : \E q \in rows :
                                 Pos(q.slot) = Pos(r.slot) + k /\ q.room = r.room
  BY DEF BlockShape
<1>1. CASE RowsOfOn(T, l, d) = {}
  <2>1. Cardinality(RowsOfOn(T, l, d)) = 0
    BY <1>1, FS_EmptySet
  <2>2. BlockSize[l] \in Nat \ {0}
    BY ProblemAssumption DEF ValidLessons
  <2>3. 0 % BlockSize[l] = 0
    BY <2>2
  <2> QED
    BY <1>1, <2>1, <2>3
<1>2. CASE RowsOfOn(T, l, d) = RowsOfOn(R, l, d)
  BY <1>2 DEF BlockShape
<1> QED
  BY <1>1, <1>2, LessonDay

\* No lesson of the part has more hours than it had.
LEMMA PartCardinality ==
  ASSUME NEW R \in SUBSET Row, NEW T, T \subseteq R, LessonCardinality(R)
  PROVE  LessonCardinality(T)
<1> SUFFICES ASSUME NEW l \in Lessons PROVE Cardinality(RowsOf(T, l)) <= Hours[l]
  BY DEF LessonCardinality
<1>1. RowsOf(T, l) \subseteq RowsOf(R, l) /\ RowsOf(R, l) \subseteq R
  BY DEF RowsOf
<1>2. Cardinality(RowsOf(R, l)) <= Hours[l] /\ Hours[l] \in Nat
  BY ProblemAssumption DEF LessonCardinality, ValidLessons
<1> QED
  BY <1>1, <1>2, SmallerCount

\* Fewer rows are fewer hours of a subject on a day.
LEMMA PartSubjectCaps ==
  ASSUME NEW R \in SUBSET Row, NEW T, T \subseteq R, SubjectCaps(R)
  PROVE  SubjectCaps(T)
<1> SUFFICES ASSUME NEW c \in Classes, NEW d \in Days, NEW s \in Subjects
             PROVE  Cardinality(TripleRows(T, c, d, s)) <= SubjectCap[s]
  BY DEF SubjectCaps
<1>1. TripleRows(T, c, d, s) \subseteq TripleRows(R, c, d, s) /\ TripleRows(R, c, d, s) \subseteq R
  BY DEF TripleRows
<1>2. Cardinality(TripleRows(R, c, d, s)) <= SubjectCap[s] /\ SubjectCap[s] \in Nat
  BY ProblemAssumption DEF SubjectCaps
<1> QED
  BY <1>1, <1>2, SmallerCount

\* A run of the part starts where it started: no lesson loses its first hour
\* without losing all.
LEMMA PartClassCaps ==
  ASSUME NEW R \in SUBSET Row, NEW T, SomeLessons(T, R), ClassCaps(R)
  PROVE  ClassCaps(T)
<1> SUFFICES ASSUME NEW c \in Classes, NEW d \in Days
             PROVE  Cardinality(RunsOn(T, c, d)) <= ClassCap[c]
  BY DEF ClassCaps
<1>1. ASSUME NEW r \in RunsOn(T, c, d) PROVE r \in RunsOn(R, c, d)
  <2>1. r \in T /\ r \in R
    BY <1>1 DEF RunsOn, SomeLessons
  <2>2. ASSUME NEW q \in R, q.lesson = r.lesson PROVE q \in T
    BY <2>1, <2>2, LessonMates
  <2> QED
    BY <1>1, <2>1, <2>2 DEF RunsOn
<1>2. RunsOn(R, c, d) \subseteq R
  BY DEF RunsOn
<1>3. Cardinality(RunsOn(R, c, d)) <= ClassCap[c] /\ ClassCap[c] \in Nat
  BY ProblemAssumption DEF ClassCaps
<1> QED
  BY <1>1, <1>2, <1>3, SmallerCount

\* The first row of a lesson's day stays the first, and nothing new stands
\* next to it.
LEMMA PartTravelBuffers ==
  ASSUME NEW R \in SUBSET Row, NEW T, SomeLessons(T, R), TravelBuffers(R)
  PROVE  TravelBuffers(T)
<1> DEFINE first(S) == {r \in S : \A q \in RowsOfOn(S, r.lesson, Day(r.slot)) :
                                     Pos(q.slot) >= Pos(r.slot)}
           clear(S, r, s) == s \in Breaks \/ \A q \in S :
               q.slot = s /\ q.lesson # r.lesson =>
                   /\ q.teacher # r.teacher
                   /\ ClassesOf[q.lesson] \cap ClassesOf[r.lesson] = {}
           kept(S, r) ==
             /\ r.lesson \in PreBuffer =>
                  IF Pos(r.slot) = 0 THEN r.lesson \in FirstSlotOk
                                     ELSE clear(S, r, SlotBefore(r.slot))
             /\ r.lesson \in PostBuffer =>
                  /\ SlotAfter(r.lesson, r.slot) \in Slots \cup Breaks
                  /\ clear(S, r, SlotAfter(r.lesson, r.slot))
<1>1. ASSUME NEW S PROVE TravelBuffers(S) <=> \A r \in first(S) : kept(S, r)
  BY DEF TravelBuffers
<1>2. T \subseteq R
  BY DEF SomeLessons
<1>3. ASSUME NEW r \in first(T) PROVE r \in first(R)
  <2>1. ASSUME NEW q \in RowsOfOn(R, r.lesson, Day(r.slot)) PROVE Pos(q.slot) >= Pos(r.slot)
    <3>1. q \in R /\ q.lesson = r.lesson /\ Day(q.slot) = Day(r.slot) /\ r \in T
      BY <2>1, <1>3 DEF RowsOfOn
    <3>2. q \in T
      BY <3>1, LessonMates
    <3>3. q \in RowsOfOn(T, r.lesson, Day(r.slot))
      BY <3>1, <3>2 DEF RowsOfOn
    <3> QED
      BY <3>3, <1>3
  <2> QED
    BY <2>1, <1>2, <1>3
<1>4. ASSUME NEW r, kept(R, r) PROVE kept(T, r)
  <2>1. ASSUME NEW s, clear(R, r, s) PROVE clear(T, r, s)
    BY <2>1, <1>2
  <2> HIDE DEF clear
  <2> QED
    BY <2>1, <1>4
<1> HIDE DEF first, kept
<1> QED
  BY <1>1, <1>3, <1>4
=============================================================================
