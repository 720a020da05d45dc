------------------------------ MODULE Timetable ------------------------------
(***************************************************************************)
(* The timetabling problem the solver is given and what its post-solve     *)
(* validators demand of a set of placements                                *)
(* (solver/solver-core/src/types.rs, index.rs, validate.rs).               *)
(*                                                                         *)
(* A placement row is a lesson-hour put on a slot, in a room, with a       *)
(* teacher.  A slot is a time block of kind Lesson, written                *)
(* <<day, position>>.  The Rust vector of placements never holds a row     *)
(* twice, so a schedule is a set of rows.                                  *)
(*                                                                         *)
(* Scope: lessons whose teacher is qualified; the branches for others are  *)
(* no-ops.  What a lesson group may do that other lessons may not is in    *)
(* LessonGroups.                                                           *)
(***************************************************************************)
EXTENDS Integers, FiniteSets

CONSTANTS
    Lessons, Classes, Subjects, Teachers, Rooms,
    Slots,        \* time blocks of kind Lesson, <<day, position>>
    Breaks,       \* time blocks of kind Break
    ClassesOf,    \* lesson -> the classes that attend it
    SubjectOf,    \* lesson -> subject
    Candidates,   \* lesson -> qualified teachers the solver may pick
    TeacherPin,   \* lesson -> pinned teacher, or NoTeacher
    Hours,        \* lesson -> hours_per_week
    BlockSize,    \* lesson -> preferred_block_size
    TeacherMax,   \* teacher -> max_hours_per_week
    SubjectCap,   \* subject -> max_hours_per_day
    ClassCap,     \* class -> max_lessons_per_day (a large number when unset)
    Suits,        \* <<room, subject>> pairs a room is suitable for
    RoomClosed,   \* <<room, slot>> pairs the room is blocked at
    TeacherAway,  \* <<teacher, slot>> pairs the teacher is blocked at
    PinnedRows,   \* hard-pinned rows that survived validate_pins
    HomeRoom,     \* class -> home room, or NoRoom
    PreBuffer,    \* lessons with pre_buffer_minutes > 0
    PostBuffer,   \* lessons with post_buffer_minutes > 0
    FirstSlotOk,  \* lessons whose pre-buffer pre_first_slot_grace covers
    Groups,       \* lesson groups: sets of lessons placed in parallel
    NoTeacher, NoRoom,
    Score(_)      \* score_solution: lower is better

Day(s) == s[1]
Pos(s) == s[2]
Days == {Day(s) : s \in Slots}

Row == [lesson: Lessons, slot: Slots, room: Rooms, teacher: Teachers]

\* validate_structural: no dangling reference, hours_per_week a positive
\* multiple of the block size, at least one class per lesson,
ValidLessons ==
    /\ ClassesOf \in [Lessons -> (SUBSET Classes) \ {{}}]
    /\ SubjectOf \in [Lessons -> Subjects]
    /\ Candidates \in [Lessons -> SUBSET Teachers]
    /\ TeacherPin \in [Lessons -> Teachers \cup {NoTeacher}]
    /\ \A l \in Lessons : TeacherPin[l] # NoTeacher \/ Candidates[l] # {}
    /\ Hours \in [Lessons -> Nat \ {0}]
    /\ BlockSize \in [Lessons -> Nat \ {0}]
    /\ \A l \in Lessons : Hours[l] % BlockSize[l] = 0

\* and the lessons of a group agree on hours and block size.
ValidGroups ==
    /\ Groups \subseteq SUBSET Lessons
    /\ \A g, h \in Groups : g # h => g \cap h = {}
    /\ \A g \in Groups : \A l, m \in g : Hours[l] = Hours[m] /\ BlockSize[l] = BlockSize[m]

ASSUME ProblemAssumption ==
    /\ \A S \in {Lessons, Classes, Subjects, Teachers, Rooms, Slots} : IsFiniteSet(S)
    /\ Slots \subseteq Nat \X Nat
    /\ Breaks \subseteq Nat \X Nat
    /\ Breaks \cap Slots = {}
    /\ ValidLessons /\ ValidGroups
    /\ TeacherMax \in [Teachers -> Nat]
    /\ SubjectCap \in [Subjects -> Nat]
    /\ ClassCap \in [Classes -> Nat]
    /\ PinnedRows \subseteq Row
    /\ NoTeacher \notin Teachers
    /\ NoRoom \notin Rooms

\* validate_pins pins a lesson only when every one of its hours is pinned.
Pinned == {r.lesson : r \in PinnedRows}
Grouped == UNION Groups

\* The lessons no move of a single lesson may touch.
Frozen == Pinned \cup Grouped

RowsOf(R, l) == {r \in R : r.lesson = l}
RowsOfOn(R, l, d) == {r \in R : r.lesson = l /\ Day(r.slot) = d}
DaysOf(R, l) == {Day(r.slot) : r \in RowsOf(R, l)}

\* The rows of class c on day d that teach subject s.
TripleRows(R, c, d, s) ==
    {r \in R : /\ c \in ClassesOf[r.lesson]
               /\ Day(r.slot) = d
               /\ SubjectOf[r.lesson] = s}

Triples == Classes \X Days \X Subjects
Underplaced(R) == {l \in Lessons : Cardinality(RowsOf(R, l)) < Hours[l]}

\* The order of the running best: hours placed first, then the score.
Better(R, S) == \/ Cardinality(R) > Cardinality(S)
                \/ Cardinality(R) = Cardinality(S) /\ Score(R) < Score(S)

-----------------------------------------------------------------------------
(* The validators of validate.rs, as predicates of a schedule.              *)

\* Two rows that a teacher, a room or a class cannot both keep.  (Two rows of
\* one lesson in one slot clash too; the validator leaves those to its
\* cardinality check.)
Clash(r, q) ==
    /\ r.slot = q.slot
    /\ \/ r.teacher = q.teacher
       \/ r.room = q.room
       \/ ClassesOf[r.lesson] \cap ClassesOf[q.lesson] # {}

NoDoubleBooking(R) == \A r, q \in R : r # q => ~Clash(r, q)

LessonCardinality(R) ==
    \A l \in Lessons : Cardinality(RowsOf(R, l)) <= Hours[l]

\* Each day's rows of a lesson split into whole blocks: a start is a row
\* preceded by a multiple of the block size, and its block is contiguous, in
\* one room.
BlockShape(R) ==
    \A l \in Lessons, d \in Days :
        LET rows == RowsOfOn(R, l, d)
            before(r) == {q \in rows : Pos(q.slot) < Pos(r.slot)}
        IN  /\ Cardinality(rows) % BlockSize[l] = 0
            /\ \A r \in rows : Cardinality(before(r)) % BlockSize[l] = 0 =>
                 \A k \in 1..(BlockSize[l] - 1) : \E q \in rows :
                     Pos(q.slot) = Pos(r.slot) + k /\ q.room = r.room

NoRoomHopping(R) ==
    \A r, q \in R :
        /\ Day(r.slot) = Day(q.slot)
        /\ SubjectOf[r.lesson] = SubjectOf[q.lesson]
        /\ ClassesOf[r.lesson] \cap ClassesOf[q.lesson] # {}
        => r.room = q.room

\* Maximal runs of contiguous positions of one lesson on one day; a run is
\* counted at its first row.
RunsOn(R, c, d) ==
    {r \in R : /\ c \in ClassesOf[r.lesson]
               /\ Day(r.slot) = d
               /\ ~\E q \in R : /\ q.lesson = r.lesson
                                /\ Day(q.slot) = d
                                /\ Pos(q.slot) + 1 = Pos(r.slot)}

SubjectCaps(R) ==
    \A c \in Classes, d \in Days, s \in Subjects :
        Cardinality(TripleRows(R, c, d, s)) <= SubjectCap[s]

ClassCaps(R) ==
    \A c \in Classes, d \in Days : Cardinality(RunsOn(R, c, d)) <= ClassCap[c]

TeachersAllowed(R) ==
    \A r \in R : /\ r.teacher \in Candidates[r.lesson]
                 /\ TeacherPin[r.lesson] \in {NoTeacher, r.teacher}

OneTeacherPerClassSubject(R) ==
    \A r, q \in R :
        /\ SubjectOf[r.lesson] = SubjectOf[q.lesson]
        /\ ClassesOf[r.lesson] \cap ClassesOf[q.lesson] # {}
        => r.teacher = q.teacher

\* The slots travel time is needed in: before a lesson that starts at s, and
\* after its last hour.
SlotBefore(s) == <<Day(s), Pos(s) - 1>>
SlotAfter(l, s) == <<Day(s), Pos(s) + BlockSize[l]>>

\* A lesson with a buffer does not start the school day without grace or end
\* it, and shares no class or teacher with what is next to it, a break aside.
\* Only the first row of a lesson's day is looked at.
TravelBuffers(R) ==
    LET first == {r \in R : \A q \in RowsOfOn(R, r.lesson, Day(r.slot)) :
                               Pos(q.slot) >= Pos(r.slot)}
        clear(r, s) == s \in Breaks \/ \A q \in R :
            q.slot = s /\ q.lesson # r.lesson =>
                /\ q.teacher # r.teacher
                /\ ClassesOf[q.lesson] \cap ClassesOf[r.lesson] = {}
    IN  \A r \in first :
          /\ r.lesson \in PreBuffer =>
               IF Pos(r.slot) = 0 THEN r.lesson \in FirstSlotOk
                                  ELSE clear(r, SlotBefore(r.slot))
          /\ r.lesson \in PostBuffer =>
               /\ SlotAfter(r.lesson, r.slot) \in Slots \cup Breaks
               /\ clear(r, SlotAfter(r.lesson, r.slot))
=============================================================================
