------------------------ MODULE TimetableSearch_proofs ------------------------
(***************************************************************************)
(* Type correctness of TimetableSearch, for every problem and every score; *)
(* then what it means that GreedyState mirrors the placements, and how the *)
(* operations of the search act on it.  A schedule is orderly when it has  *)
(* no conflict and no triple of it uses two rooms; the state mirrors it    *)
(* when the used sets, counters and locks are those of its rows.  At last  *)
(* the inductive invariant, the safety properties that follow from it, and *)
(* that the search implements AnytimeTimetable.                            *)
(***************************************************************************)
EXTENDS TimetableSearch, Timetable_proofs, SequenceTheorems

-----------------------------------------------------------------------------
(* Typing of the bookkeeping operators.                                     *)

\* The count of a triple's rows is a number.
LEMMA TripleCountType ==
  ASSUME NEW R \in SUBSET Row, NEW x \in Triples
  PROVE  TripleCount(R, x) \in Nat
<1>1. TripleRows(R, x[1], x[2], x[3]) \in SUBSET Row
  BY DEF TripleRows
<1> QED
  BY <1>1, ScheduleFinite DEF TripleCount

\* Saturating subtraction stays a number.
LEMMA SatSubType ==
  ASSUME NEW m \in Nat, NEW n \in Nat
  PROVE  SatSub(m, n) \in Nat
BY DEF SatSub

\* Counting rows in and out keeps the shape of the counters.
LEMMA CountType ==
  ASSUME NEW b \in TallyType, NEW R \in SUBSET Row
  PROVE  CountIn(b, R) \in TallyType /\ CountOut(b, R) \in TallyType
<1> DEFINE H(t) == Cardinality({r \in R : r.teacher = t})
<1>1. \A t \in Teachers : H(t) \in Nat
  BY ScheduleFinite
<1>2. \A x \in Triples : TripleCount(R, x) \in Nat
  BY TripleCountType
<1>3. ASSUME NEW x \in Triples, TripleCount(R, x) > 0
      PROVE  RoomFor(R, x) \in Rooms
  <2> DEFINE T == TripleRows(R, x[1], x[2], x[3])
  <2>1. T \in SUBSET Row
    BY DEF TripleRows
  <2>2. T # {}
    BY <1>3, FS_EmptySet DEF TripleCount
  <2>3. (CHOOSE r \in T : TRUE) \in Row
    BY <2>1, <2>2
  <2> QED
    BY <2>3 DEF RoomFor, Row
<1>4. b.hours \in [Teachers -> Nat] /\ b.subjectHours \in [Triples -> Nat]
      /\ b.lock \in [Triples -> Nat]
      /\ b.lockRoom \in [Triples -> Rooms \cup {NoRoom}]
  BY DEF TallyType
<1> HIDE DEF H
<1>5. CountIn(b, R) \in TallyType
  <2>1. [t \in Teachers |-> b.hours[t] + H(t)] \in [Teachers -> Nat]
    BY <1>1, <1>4
  <2>2. [x \in Triples |-> b.subjectHours[x] + TripleCount(R, x)] \in [Triples -> Nat]
    BY <1>2, <1>4
  <2>3. [x \in Triples |-> b.lock[x] + TripleCount(R, x)] \in [Triples -> Nat]
    BY <1>2, <1>4
  <2>4. [x \in Triples |-> IF b.lock[x] = 0 /\ TripleCount(R, x) > 0
                           THEN RoomFor(R, x) ELSE b.lockRoom[x]]
          \in [Triples -> Rooms \cup {NoRoom}]
    BY <1>3, <1>4
  <2> QED
    BY <2>1, <2>2, <2>3, <2>4 DEF CountIn, TallyType, H
<1>6. CountOut(b, R) \in TallyType
  <2>1. [t \in Teachers |-> SatSub(b.hours[t], H(t))] \in [Teachers -> Nat]
    BY <1>1, <1>4, SatSubType
  <2>2. [x \in Triples |-> SatSub(b.subjectHours[x], TripleCount(R, x))]
          \in [Triples -> Nat]
    BY <1>2, <1>4, SatSubType
  <2>3. [x \in Triples |-> SatSub(b.lock[x], TripleCount(R, x))] \in [Triples -> Nat]
    BY <1>2, <1>4, SatSubType
  <2>4. [x \in Triples |-> IF b.lock[x] <= TripleCount(R, x)
                           THEN NoRoom ELSE b.lockRoom[x]]
          \in [Triples -> Rooms \cup {NoRoom}]
    BY <1>4
  <2> QED
    BY <2>1, <2>2, <2>3, <2>4 DEF CountOut, TallyType, H
<1> QED
  BY <1>5, <1>6

\* So does counting lessons.
LEMMA LessonsType ==
  ASSUME NEW b \in TallyType, NEW Bs \in SUBSET SUBSET Row, NEW n \in Nat
  PROVE  MoreLessons(b, Bs, n) \in TallyType /\ FewerLessons(b, Bs, n) \in TallyType
<1>1. ASSUME NEW x \in Classes \X Days
      PROVE  BlocksAt(Bs, x) \in Nat /\ n * BlocksAt(Bs, x) \in Nat
  <2> DEFINE C == {B \in Bs : \E r \in B : x[1] \in ClassesOf[r.lesson]
                                           /\ Day(r.slot) = x[2]}
  <2>1. C \in SUBSET SUBSET Row /\ IsFiniteSet(SUBSET Row)
    BY RowFinite, FS_SUBSET
  <2>2. Cardinality(C) \in Nat
    BY <2>1, FS_Subset, FS_CardinalityType
  <2> QED
    BY <2>2 DEF BlocksAt
<1>2. b.lessonsOn \in [Classes \X Days -> Nat]
  BY DEF TallyType
<1>3. [x \in Classes \X Days |-> b.lessonsOn[x] + n * BlocksAt(Bs, x)]
        \in [Classes \X Days -> Nat]
  BY <1>1, <1>2
<1>4. [x \in Classes \X Days |-> SatSub(b.lessonsOn[x], n * BlocksAt(Bs, x))]
        \in [Classes \X Days -> Nat]
  BY <1>1, <1>2, SatSubType
<1> QED
  BY <1>3, <1>4 DEF MoreLessons, FewerLessons, TallyType

\* And so do the lock operators.
LEMMA LocksType ==
  ASSUME NEW b \in TallyType, NEW R \in SUBSET Row
  PROVE  /\ ForgetLocks(b, R) \in TallyType
         /\ \A l \in Lessons, t \in Teachers : LockTeacher(b, l, t) \in TallyType
         /\ \A p \in Row, room \in Rooms : RelockRoom(b, p, room) \in TallyType
         /\ \A L \in LockType : [b EXCEPT !.teacherLock = L] \in TallyType
<1>1. b.teacherLock \in LockType /\ b.lockRoom \in [Triples -> Rooms \cup {NoRoom}]
  BY DEF TallyType
<1>2. ForgetLocks(b, R) \in TallyType
  <2>1. [x \in Classes \X Subjects |->
          IF \E r \in R : x[1] \in ClassesOf[r.lesson] /\ SubjectOf[r.lesson] = x[2]
          THEN b.teacherLock[x] ELSE NoTeacher] \in LockType
    BY <1>1 DEF LockType
  <2> QED
    BY <2>1 DEF ForgetLocks, TallyType
<1>3. ASSUME NEW l \in Lessons, NEW t \in Teachers
      PROVE  LockTeacher(b, l, t) \in TallyType
  <2>1. [x \in Classes \X Subjects |->
          IF x[1] \in ClassesOf[l] /\ x[2] = SubjectOf[l] /\ b.teacherLock[x] = NoTeacher
          THEN t ELSE b.teacherLock[x]] \in LockType
    BY <1>1 DEF LockType
  <2> QED
    BY <2>1 DEF LockTeacher, TallyType
<1>4. ASSUME NEW p \in Row, NEW room \in Rooms
      PROVE  RelockRoom(b, p, room) \in TallyType
  <2>1. [x \in Triples |-> IF x \in LockKeys(p.lesson, Day(p.slot)) /\ b.lock[x] > 0
                           THEN room ELSE b.lockRoom[x]]
          \in [Triples -> Rooms \cup {NoRoom}]
    BY <1>1
  <2> QED
    BY <2>1 DEF RelockRoom, TallyType
<1>5. \A L \in LockType : [b EXCEPT !.teacherLock = L] \in TallyType
  BY DEF TallyType
<1> QED
  BY <1>2, <1>3, <1>4, <1>5

\* The keys of rows are of the right kind, so occupying and vacating are too.
LEMMA UsedTyping ==
  ASSUME NEW u \in UsedType, NEW R \in SUBSET Row
  PROVE  Occupy(u, R) \in UsedType /\ Vacate(u, R) \in UsedType
<1>1. TeacherKeys(R) \subseteq Teachers \X Slots
  BY DEF TeacherKeys, Row
<1>2. RoomKeys(R) \subseteq Rooms \X Slots
  BY DEF RoomKeys, Row
<1>3. ClassKeys(R) \subseteq Classes \X Slots
  BY ProblemAssumption DEF ClassKeys, Row, ValidLessons, ValidGroups
<1> QED
  BY <1>1, <1>2, <1>3 DEF Occupy, Vacate, UsedType

-----------------------------------------------------------------------------
(* Type correctness.                                                        *)

\* A block inside the week consists of rows.
LEMMA BlockType ==
  ASSUME NEW l \in Lessons, NEW s \in Slots, NEW room \in Rooms, NEW t \in Teachers,
         Window(s, BlockSize[l]) \subseteq Slots
  PROVE  Block(l, s, room, t) \in SUBSET Row
BY DEF Block, Row

\* The empty bookkeeping is well typed.
LEMMA EmptyType == EmptyTally \in TallyType /\ NoAttempt \in AttemptType
                   /\ Nobody \in UsedType
<1>1. EmptyTally \in TallyType
  BY DEF EmptyTally, TallyType, LockType
<1>2. NoAttempt \in AttemptType
  BY <1>1, EmptySeq DEF NoAttempt, AttemptType, TallyType
<1> QED
  BY <1>1, <1>2 DEF Nobody, UsedType

\* The commit of a block keeps the types.
LEMMA PlaceType ==
  ASSUME TypeOK, NEW l \in Lessons, NEW s \in Slots, NEW room \in Rooms,
         NEW t \in Teachers, Place(l, s, room, t)
  PROVE  /\ rows' \in SUBSET Row /\ used' \in UsedType /\ tally' \in TallyType
         /\ Block(l, s, room, t) \in SUBSET Row
<1> DEFINE B == Block(l, s, room, t)
<1>1. B \in SUBSET Row
  BY BlockType DEF Place, CanPlace
<1>2. CountIn(tally, B) \in TallyType
  BY <1>1, CountType DEF TypeOK
<1>3. MoreLessons(CountIn(tally, B), {B}, 1) \in TallyType
  BY <1>1, <1>2, LessonsType
<1>4. LockTeacher(MoreLessons(CountIn(tally, B), {B}, 1), l, t) \in TallyType
  BY <1>3, LocksType
<1>5. Occupy(used, B) \in UsedType
  BY <1>1, UsedTyping DEF TypeOK
<1> QED
  BY <1>1, <1>4, <1>5 DEF Place, TypeOK

\* So does taking rows out for a rebuild.
LEMMA TakeOutType ==
  ASSUME TypeOK, NEW R \in SUBSET Row, TakeOut(R)
  PROVE  rows' \in SUBSET Row /\ used' \in UsedType /\ tally' \in TallyType
<1>1. CountOut(tally, R) \in TallyType
  BY CountType DEF TypeOK
<1>2. BlocksOf(R) \in SUBSET SUBSET Row
  BY DEF BlocksOf, RowsOfOn
<1>3. FewerLessons(CountOut(tally, R), BlocksOf(R), 1) \in TallyType
  BY <1>1, <1>2, LessonsType
<1>4. rows \ R \in SUBSET Row
  BY DEF TypeOK
<1>5. ForgetLocks(FewerLessons(CountOut(tally, R), BlocksOf(R), 1), rows \ R) \in TallyType
  BY <1>3, <1>4, LocksType
<1>6. Vacate(used, R) \in UsedType
  BY UsedTyping DEF TypeOK
<1> QED
  BY <1>4, <1>5, <1>6 DEF TakeOut

\* The running best stays a schedule.
LEMMA EndIterationType ==
  ASSUME NEW R \in SUBSET Row, best \in SUBSET Row, EndIteration(R)
  PROVE  best' \in SUBSET Row
BY DEF EndIteration

\* A lesson's hours are a whole number of blocks.
LEMMA BlocksType == \A l \in Lessons : Blocks(l) \in Nat
<1> SUFFICES ASSUME NEW l \in Lessons PROVE Blocks(l) \in Nat
  OBVIOUS
<1>1. Hours[l] \in Nat /\ BlockSize[l] \in Nat \ {0}
  BY ProblemAssumption DEF ValidLessons, ValidGroups
<1>2. \A h \in Nat, n \in Nat \ {0} : h \div n \in Nat
  OBVIOUS
<1> QED
  BY <1>1, <1>2 DEF Blocks

\* The seeded state is well typed.
LEMMA InitType == Init => TypeOK
<1> SUFFICES ASSUME Init PROVE TypeOK
  OBVIOUS
<1>1. PinnedRows \in SUBSET Row
  BY ProblemAssumption DEF ValidLessons, ValidGroups
<1>2. used \in UsedType
  BY <1>1, EmptyType, UsedTyping DEF Init
<1>3. tally \in TallyType
  <2>1. CountIn(EmptyTally, PinnedRows) \in TallyType
    BY <1>1, EmptyType, CountType
  <2>2. SeedLessons \in [Classes \X Days -> Nat]
    <3>1. ASSUME NEW x \in Classes \X Days
          PROVE  Cardinality({r \in PinnedRows : x[1] \in ClassesOf[r.lesson]
                                                 /\ Day(r.slot) = x[2]}) \in Nat
      <4>1. {r \in PinnedRows : x[1] \in ClassesOf[r.lesson]
                                /\ Day(r.slot) = x[2]} \in SUBSET Row
        BY <1>1
      <4> QED
        BY <4>1, ScheduleFinite
    <3> QED
      BY <3>1 DEF SeedLessons
  <2>3. SeedLocks \in LockType
    <3> SUFFICES ASSUME NEW x \in Classes \X Subjects
                 PROVE  SeedLocks[x] \in Teachers \cup {NoTeacher}
      BY DEF SeedLocks, LockType
    <3> DEFINE pins == {r \in PinnedRows : x[1] \in ClassesOf[r.lesson]
                                           /\ SubjectOf[r.lesson] = x[2]}
    <3>1. pins # {} => (CHOOSE r \in pins : TRUE) \in Row
      BY <1>1
    <3> QED
      BY <3>1 DEF SeedLocks, Row
  <2> QED
    BY <2>1, <2>2, <2>3 DEF Init, TallyType
<1>4. left \in [Lessons -> Nat]
  <2>1. \A l \in Lessons : Blocks(l) \in Nat
    BY BlocksType
  <2> QED
    BY <2>1 DEF Init
<1> QED
  BY <1>1, <1>2, <1>3, <1>4, EmptyType DEF Init, TypeOK, Phases

\* A source of a Change is a non-empty part of the schedule.
LEMMA SourceNotEmpty ==
  ASSUME NEW l \in Lessons, NEW R \in Sources(l)
  PROVE  R \in SUBSET rows /\ R # {}
<1>1. CASE BlockSize[l] = 1
  BY <1>1 DEF Sources, RowsOf
<1>2. CASE BlockSize[l] # 1
  <2>1. R \in {RowsOfOn(rows, l, d) : d \in DaysOf(rows, l)}
    BY <1>2 DEF Sources
  <2> QED
    BY <2>1 DEF RowsOfOn, DaysOf, RowsOf
<1> QED
  BY <1>1, <1>2

\* A block moves, its source vacated and its destination occupied.
LEMMA ChangeType ==
  ASSUME TypeOK, NEW l \in Lessons, Change(l)
  PROVE  TypeOK'
<1>1. PICK R \in Sources(l), s \in Slots :
        LET own == {r.slot : r \in R}
            W == Window(s, BlockSize[l])
            any == CHOOSE r \in R : TRUE
            old == [day |-> Day(any.slot), room |-> any.room]
        IN  /\ W \subseteq Slots
            /\ \E room \in ChangeRooms(l, old, Day(s), W, own) :
                LET B == Block(l, s, room, any.teacher)
                IN  /\ rows' = (rows \ R) \cup B
                    /\ used' = Occupy(Vacate(used, R), B)
                    /\ tally' = MoreLessons(
                                   FewerLessons(Recount(tally, R, B), {R}, LessonsMoved(l)),
                                   {B}, LessonsMoved(l))
  BY DEF Change
<1> DEFINE own == {r.slot : r \in R}
           W == Window(s, BlockSize[l])
           any == CHOOSE r \in R : TRUE
           old == [day |-> Day(any.slot), room |-> any.room]
<1>2. PICK room \in ChangeRooms(l, old, Day(s), W, own) :
        /\ rows' = (rows \ R) \cup Block(l, s, room, any.teacher)
        /\ used' = Occupy(Vacate(used, R), Block(l, s, room, any.teacher))
        /\ tally' = MoreLessons(
                       FewerLessons(Recount(tally, R, Block(l, s, room, any.teacher)),
                                    {R}, LessonsMoved(l)),
                       {Block(l, s, room, any.teacher)}, LessonsMoved(l))
  BY <1>1
<1> DEFINE B == Block(l, s, room, any.teacher)
<1>3. R \in SUBSET rows /\ R # {}
  BY SourceNotEmpty
<1>4. R \in SUBSET Row /\ any \in Row
  BY <1>3 DEF TypeOK
<1>5. room \in Rooms
  <2> HIDE DEF old, W, own
  <2>1. ChangeRooms(l, old, Day(s), W, own) \subseteq Rooms
    BY DEF ChangeRooms
  <2> QED
    BY <2>1
<1>6. B \in SUBSET Row
  BY <1>1, <1>4, <1>5, BlockType DEF Row
<1>7. LessonsMoved(l) \in Nat
  BY ProblemAssumption DEF LessonsMoved, ValidLessons, ValidGroups
<1> HIDE DEF B, any
<1>8. Recount(tally, R, B) \in TallyType
  BY <1>4, <1>6, CountType DEF Recount, TypeOK
<1>9. tally' \in TallyType
  BY <1>2, <1>4, <1>6, <1>7, <1>8, LessonsType DEF B
<1>10. used' \in UsedType
  BY <1>2, <1>4, <1>6, UsedTyping DEF TypeOK, B
<1>11. rows' \in SUBSET Row
  BY <1>2, <1>6 DEF TypeOK, B
<1>12. best' \in SUBSET Row
  BY <1>11, EndIterationType DEF Change, TypeOK
<1> QED
  BY <1>9, <1>10, <1>11, <1>12 DEF Change, TypeOK

\* Two rows trade slots.
LEMMA SwapType ==
  ASSUME TypeOK, NEW l \in Lessons, NEW m \in Lessons, Swap(l, m)
  PROVE  TypeOK'
<1>1. PICK a \in RowsOf(rows, l), b \in RowsOf(rows, m) :
        LET a2 == [a EXCEPT !.slot = b.slot]
            b2 == [b EXCEPT !.slot = a.slot]
        IN  /\ rows' = (rows \ {a, b}) \cup {a2, b2}
            /\ used' = Occupy(Vacate(used, {a, b}), {a2, b2})
            /\ tally' =
                 MoreLessons(FewerLessons(
                   MoreLessons(FewerLessons(
                     Recount(tally, {a, b}, {a2, b2}), {{a}}, 1), {{a2}}, 1),
                   {{b}}, 1), {{b2}}, 1)
  BY DEF Swap
<1> DEFINE a2 == [a EXCEPT !.slot = b.slot]
           b2 == [b EXCEPT !.slot = a.slot]
<1>2. a \in Row /\ b \in Row
  BY DEF RowsOf, TypeOK
<1>3. a2 \in Row /\ b2 \in Row
  BY <1>2 DEF Row
<1> HIDE DEF a2, b2
<1>4. {a, b} \in SUBSET Row /\ {a2, b2} \in SUBSET Row
  BY <1>2, <1>3
<1>5. Recount(tally, {a, b}, {a2, b2}) \in TallyType
  BY <1>4, CountType DEF Recount, TypeOK
<1>6. {{a}} \in SUBSET SUBSET Row /\ {{b}} \in SUBSET SUBSET Row
      /\ {{a2}} \in SUBSET SUBSET Row /\ {{b2}} \in SUBSET SUBSET Row
  BY <1>2, <1>3
<1> DEFINE b0 == Recount(tally, {a, b}, {a2, b2})
           b1 == MoreLessons(FewerLessons(b0, {{a}}, 1), {{a2}}, 1)
<1>7. b1 \in TallyType
  BY <1>5, <1>6, LessonsType
<1> HIDE DEF b0
<1>8. MoreLessons(FewerLessons(b1, {{b}}, 1), {{b2}}, 1) \in TallyType
  <2> HIDE DEF b1
  <2> QED
    BY <1>6, <1>7, LessonsType
<1>9. tally' \in TallyType
  BY <1>1, <1>8 DEF a2, b2, b0
<1>10. used' \in UsedType
  BY <1>1, <1>4, UsedTyping DEF TypeOK, a2, b2
<1>11. rows' \in SUBSET Row
  BY <1>1, <1>4 DEF TypeOK, a2, b2
<1>12. best' \in SUBSET Row
  BY <1>11, EndIterationType DEF Swap, TypeOK
<1> QED
  BY <1>9, <1>10, <1>11, <1>12 DEF Swap, TypeOK

\* Row p of lesson l moves to its home room, or trades rooms with the row in it.
Rehousing(l, p, home) ==
    /\ \A c \in ClassesOf[l] : HomeRoom[c] = home
    /\ p.room # home
    /\ <<home, p.slot>> \notin RoomClosed
    /\ <<home, SubjectOf[l]>> \in Suits
    /\ ~WouldSplit(p, home)
    /\ \/ /\ <<home, p.slot>> \notin used.room
          /\ rows' = (rows \ {p}) \cup {[p EXCEPT !.room = home]}
          /\ used' = [used EXCEPT !.room =
                         (@ \ {<<p.room, p.slot>>}) \cup {<<home, p.slot>>}]
          /\ tally' = RelockRoom(tally, p, home)
       \/ \E q \in rows \ {p} :
          /\ q.room = home /\ q.slot = p.slot
          /\ q.lesson \notin Frozen
          /\ BlockSize[q.lesson] = 1
          /\ <<p.room, SubjectOf[q.lesson]>> \in Suits
          /\ ~WouldSplit(q, p.room)
          /\ rows' = (rows \ {p, q}) \cup {[p EXCEPT !.room = home],
                                          [q EXCEPT !.room = p.room]}
          /\ tally' = RelockRoom(RelockRoom(tally, p, home), q, p.room)
          /\ UNCHANGED used

\* That is what a home-room repair does.
LEMMA RepairRehouses ==
  ASSUME NEW l, HomeRoomRepair(l)
  PROVE  \E p \in RowsOf(rows, l), home \in Rooms : Rehousing(l, p, home)
BY DEF HomeRoomRepair, Rehousing

\* A row takes its home room, or trades rooms with the row in it.
LEMMA HomeRoomRepairType ==
  ASSUME TypeOK, NEW l \in Lessons, HomeRoomRepair(l)
  PROVE  TypeOK'
<1>picked. PICK p \in RowsOf(rows, l), home \in Rooms : Rehousing(l, p, home)
  BY RepairRehouses
<1>1. \/ /\ <<home, p.slot>> \notin used.room
         /\ rows' = (rows \ {p}) \cup {[p EXCEPT !.room = home]}
         /\ used' = [used EXCEPT !.room =
                        (@ \ {<<p.room, p.slot>>}) \cup {<<home, p.slot>>}]
         /\ tally' = RelockRoom(tally, p, home)
      \/ \E q \in rows \ {p} :
         /\ rows' = (rows \ {p, q}) \cup {[p EXCEPT !.room = home],
                                         [q EXCEPT !.room = p.room]}
         /\ tally' = RelockRoom(RelockRoom(tally, p, home), q, p.room)
         /\ UNCHANGED used
  BY ONLY <1>picked DEF Rehousing
<1>2. p \in Row /\ [p EXCEPT !.room = home] \in Row
  BY DEF RowsOf, TypeOK, Row
<1>3. rows' \in SUBSET Row /\ used' \in UsedType /\ tally' \in TallyType
  <2>1. CASE /\ rows' = (rows \ {p}) \cup {[p EXCEPT !.room = home]}
             /\ used' = [used EXCEPT !.room =
                            (@ \ {<<p.room, p.slot>>}) \cup {<<home, p.slot>>}]
             /\ tally' = RelockRoom(tally, p, home)
    <3>1. tally' \in TallyType
      BY <2>1, <1>2, LocksType DEF TypeOK
    <3>2. used' \in UsedType
      BY <2>1, <1>2 DEF TypeOK, UsedType, Row
    <3> QED
      BY <2>1, <1>2, <3>1, <3>2 DEF TypeOK
  <2>2. CASE \E q \in rows \ {p} :
             /\ rows' = (rows \ {p, q}) \cup {[p EXCEPT !.room = home],
                                             [q EXCEPT !.room = p.room]}
             /\ tally' = RelockRoom(RelockRoom(tally, p, home), q, p.room)
             /\ UNCHANGED used
    <3>1. PICK q \in rows \ {p} :
             /\ rows' = (rows \ {p, q}) \cup {[p EXCEPT !.room = home],
                                             [q EXCEPT !.room = p.room]}
             /\ tally' = RelockRoom(RelockRoom(tally, p, home), q, p.room)
             /\ UNCHANGED used
      BY <2>2
    <3>2. q \in Row /\ [q EXCEPT !.room = p.room] \in Row
      BY <1>2 DEF TypeOK, Row
    <3>3. RelockRoom(tally, p, home) \in TallyType
      BY <1>2, LocksType DEF TypeOK
    <3>4. RelockRoom(RelockRoom(tally, p, home), q, p.room) \in TallyType
      <4>1. p.room \in Rooms
        BY <1>2 DEF Row
      <4> QED
        BY <3>2, <3>3, <4>1, LocksType
    <3> QED
      BY <3>1, <3>2, <3>4, <1>2 DEF TypeOK
  <2> QED
    BY <1>1, <2>1, <2>2
<1>4. best' \in SUBSET Row
  BY <1>3, EndIterationType DEF HomeRoomRepair, TypeOK
<1> QED
  BY <1>3, <1>4 DEF HomeRoomRepair, TypeOK

\* A rescue starts by ruining a target and a sibling.
LEMMA RescueType ==
  ASSUME TypeOK, NEW l \in Lessons, Rescue(l)
  PROVE  TypeOK'
<1>1. PICK r \in Siblings(l) :
        LET R == RowsOf(rows, l) \cup RowsOfOn(rows, r.lesson, Day(r.slot))
        IN  /\ TakeOut(R)
            /\ attempt' = [NoAttempt EXCEPT
                 !.ruined = R,
                 !.todo = Append([i \in 1..Blocks(l) |-> l], r.lesson),
                 !.goal = {<<l, Cardinality(RowsOf(rows, l))>>},
                 !.locks = tally.teacherLock]
  BY DEF Rescue
<1> DEFINE R == RowsOf(rows, l) \cup RowsOfOn(rows, r.lesson, Day(r.slot))
<1>2. R \in SUBSET Row /\ RowsOf(rows, l) \in SUBSET Row
  BY DEF TypeOK, RowsOf, RowsOfOn
<1>3. r.lesson \in Lessons
  BY DEF TypeOK, Siblings, Row
<1>4. Append([i \in 1..Blocks(l) |-> l], r.lesson) \in Seq(Lessons)
  <2>1. Blocks(l) \in Nat
    BY ProblemAssumption DEF Blocks, ValidLessons, ValidGroups
  <2> DEFINE turns == [i \in 1..Blocks(l) |-> l]
  <2>2. turns \in Seq(Lessons)
    BY <2>1, SeqDef
  <2> HIDE DEF turns
  <2>3. Append(turns, r.lesson) \in Seq(Lessons)
    BY <1>3, <2>2
  <2> QED
    BY <2>3 DEF turns
<1>5. Cardinality(RowsOf(rows, l)) \in Nat
  BY <1>2, ScheduleFinite
<1>6. attempt' \in AttemptType
  <2>1. tally.teacherLock \in LockType
    BY DEF TypeOK, TallyType
  <2>2. {<<l, Cardinality(RowsOf(rows, l))>>} \in SUBSET (Lessons \X Nat)
    BY <1>5
  <2> HIDE DEF R
  <2> QED
    BY <1>1, <1>2, <1>4, <2>1, <2>2, EmptyType DEF AttemptType, R
<1>7. rows' \in SUBSET Row /\ used' \in UsedType /\ tally' \in TallyType
  BY <1>1, <1>2, TakeOutType
<1> QED
  BY <1>6, <1>7 DEF Rescue, TypeOK, Phases

\* Ruin-and-recreate starts by ruining a choice of anchors.
LEMMA RuinType ==
  ASSUME TypeOK, Ruin
  PROVE  TypeOK'
<1> DEFINE n == IF RuinSize < Cardinality(Anchors) THEN RuinSize
                                                   ELSE Cardinality(Anchors)
<1>1. PICK chosen \in [1..n -> Anchors] :
        LET R == UNION {chosen[i] : i \in 1..n}
        IN  /\ TakeOut(R)
            /\ attempt' = [NoAttempt EXCEPT
                  !.ruined = R,
                  !.todo = [i \in 1..n |-> LessonOf(chosen[i])],
                  !.locks = tally.teacherLock]
  BY DEF Ruin
<1> DEFINE R == UNION {chosen[i] : i \in 1..n}
<1>2. Anchors \in SUBSET SUBSET Row
  BY DEF Anchors, BlocksOf, RowsOfOn, TypeOK
<1>3. n \in Nat
  <2>1. IsFiniteSet(SUBSET Row)
    BY RowFinite, FS_SUBSET
  <2>2. Cardinality(Anchors) \in Nat
    BY <1>2, <2>1, FS_Subset, FS_CardinalityType
  <2> QED
    BY <2>2, SearchAssumption
<1>4. \A B \in Anchors : B # {} /\ B \in SUBSET Row
  BY <1>2 DEF Anchors, BlocksOf, RowsOfOn
<1>5. \A B \in Anchors : LessonOf(B) \in Lessons
  BY <1>4 DEF LessonOf, Row
<1> HIDE DEF n
<1>6. R \in SUBSET Row
  BY <1>2
<1>7. [i \in 1..n |-> LessonOf(chosen[i])] \in Seq(Lessons)
  BY <1>3, <1>5, SeqDef
<1>8. attempt' \in AttemptType
  <2>1. tally.teacherLock \in LockType
    BY DEF TypeOK, TallyType
  <2> HIDE DEF R
  <2> QED
    BY <1>1, <1>6, <1>7, <2>1, EmptyType DEF AttemptType, R
<1>9. rows' \in SUBSET Row /\ used' \in UsedType /\ tally' \in TallyType
  BY <1>1, <1>6, TakeOutType
<1> QED
  BY <1>8, <1>9 DEF Ruin, TypeOK, Phases

\* An attempt begins by taking the rows R out.
Uproots(R) ==
    /\ R \in SUBSET rows /\ TakeOut(R)
    /\ attempt'.ruined = R /\ attempt'.added = {} /\ attempt'.heads = {}
    /\ attempt'.locks = tally.teacherLock

\* The fields of a fresh attempt.
LEMMA FreshAttempt ==
  ASSUME NEW R, NEW turns, NEW goal, NEW locks
  PROVE  LET a == [NoAttempt EXCEPT !.ruined = R, !.todo = turns, !.goal = goal, !.locks = locks]
             b == [NoAttempt EXCEPT !.ruined = R, !.todo = turns, !.locks = locks]
         IN  /\ a.ruined = R /\ a.added = {} /\ a.heads = {} /\ a.locks = locks
             /\ b.ruined = R /\ b.added = {} /\ b.heads = {} /\ b.locks = locks
BY DEF NoAttempt

\* So do rescues, and ruin-and-recreate.
LEMMA StartUproots ==
  ASSUME Ruin \/ \E l \in Lessons : Rescue(l)
  PROVE  /\ phase \in {"search", "ruin"} /\ phase' \in {"rescue", "recreate"}
         /\ UNCHANGED best
         /\ \E R : Uproots(R)
<1>1. CASE Ruin
  <2> DEFINE n == IF RuinSize < Cardinality(Anchors) THEN RuinSize
                                                     ELSE Cardinality(Anchors)
  <2>1. PICK chosen \in [1..n -> Anchors] :
          LET R == UNION {chosen[i] : i \in 1..n}
          IN  /\ TakeOut(R)
              /\ attempt' = [NoAttempt EXCEPT
                    !.ruined = R,
                    !.todo = [i \in 1..n |-> LessonOf(chosen[i])],
                    !.locks = tally.teacherLock]
    BY <1>1 DEF Ruin
  <2> DEFINE R == UNION {chosen[i] : i \in 1..n}
             turns == [i \in 1..n |-> LessonOf(chosen[i])]
  <2>2. \A B \in Anchors : B \in SUBSET rows
    BY DEF Anchors, BlocksOf, RowsOfOn
  <2> HIDE DEF n
  <2>3. R \in SUBSET rows
    BY <2>1, <2>2
  <2>4. /\ TakeOut(R)
        /\ attempt' = [NoAttempt EXCEPT !.ruined = R, !.todo = turns,
                                        !.locks = tally.teacherLock]
    BY ONLY <2>1
  <2> HIDE DEF R, turns
  <2>5. Uproots(R)
    BY ONLY <2>3, <2>4, FreshAttempt DEF Uproots
  <2>6. phase \in {"search", "ruin"} /\ phase' = "recreate" /\ UNCHANGED best
    BY <1>1 DEF Ruin
  <2> QED
    BY ONLY <2>5, <2>6
<1>2. CASE \E l \in Lessons : Rescue(l)
  <2>1. PICK l \in Lessons : Rescue(l)
    BY <1>2
  <2>2. PICK r \in Siblings(l) :
          LET R == RowsOf(rows, l) \cup RowsOfOn(rows, r.lesson, Day(r.slot))
          IN  /\ TakeOut(R)
              /\ attempt' = [NoAttempt EXCEPT
                   !.ruined = R,
                   !.todo = Append([i \in 1..Blocks(l) |-> l], r.lesson),
                   !.goal = {<<l, Cardinality(RowsOf(rows, l))>>},
                   !.locks = tally.teacherLock]
    BY <2>1 DEF Rescue
  <2> DEFINE R == RowsOf(rows, l) \cup RowsOfOn(rows, r.lesson, Day(r.slot))
             turns == Append([i \in 1..Blocks(l) |-> l], r.lesson)
             goal == {<<l, Cardinality(RowsOf(rows, l))>>}
  <2>3. R \in SUBSET rows
    BY DEF RowsOf, RowsOfOn
  <2>4. /\ TakeOut(R)
        /\ attempt' = [NoAttempt EXCEPT !.ruined = R, !.todo = turns, !.goal = goal,
                                        !.locks = tally.teacherLock]
    BY ONLY <2>2
  <2> HIDE DEF R, turns, goal
  <2>5. Uproots(R)
    BY ONLY <2>3, <2>4, FreshAttempt DEF Uproots
  <2>6. phase = "search" /\ phase' = "rescue" /\ UNCHANGED best
    BY <2>1 DEF Rescue
  <2> QED
    BY ONLY <2>5, <2>6
<1> QED
  BY <1>1, <1>2

\* The next block of a rebuild is placed.
LEMMA RebuildPlaceType ==
  ASSUME TypeOK, NEW l \in Lessons, RebuildPlace(l)
  PROVE  TypeOK'
<1>1. PICK s \in Slots, room \in Rooms, t \in Teachers :
        /\ Place(l, s, room, t)
        /\ attempt' = [attempt EXCEPT
             !.todo = Tail(@),
             !.added = @ \cup {Block(l, s, room, t)},
             !.heads = IF HeadsGroup(l) THEN @ \cup {Block(l, s, room, t)} ELSE @,
             !.failed = @ \/ Collides(l, Day(s))]
  BY DEF RebuildPlace
<1>2. rows' \in SUBSET Row /\ used' \in UsedType /\ tally' \in TallyType
      /\ Block(l, s, room, t) \in SUBSET Row
  BY <1>1, PlaceType
<1>3. attempt.todo \in Seq(Lessons) /\ attempt.todo # <<>>
  BY DEF RebuildPlace, Rebuilding, TypeOK, AttemptType
<1>4. Tail(attempt.todo) \in Seq(Lessons)
  BY <1>3, HeadTailProperties
<1>5. attempt.failed \in BOOLEAN => (attempt.failed \/ Collides(l, Day(s))) \in BOOLEAN
  BY DEF Collides
<1>6. attempt' \in AttemptType
  BY <1>1, <1>2, <1>4, <1>5 DEF TypeOK, AttemptType
<1> QED
  BY <1>2, <1>6 DEF RebuildPlace, TypeOK

\* Or cannot be placed.
LEMMA RebuildMissType ==
  ASSUME TypeOK, NEW l \in Lessons, RebuildMiss(l)
  PROVE  TypeOK'
<1> DEFINE todo == attempt.todo
           next == IF phase = "rescue" /\ Len(todo) > 1 THEN <<todo[Len(todo)]>>
                                                        ELSE Tail(todo)
<1>1. todo \in Seq(Lessons) /\ todo # <<>>
  BY DEF RebuildMiss, Rebuilding, TypeOK, AttemptType
<1>2. next \in Seq(Lessons)
  <2>1. Tail(todo) \in Seq(Lessons)
    BY <1>1, HeadTailProperties
  <2>2. Len(todo) \in Nat \ {0}
    BY <1>1, EmptySeq
  <2>3. todo[Len(todo)] \in Lessons
    BY <1>1, <2>2, ElementOfSeq
  <2> HIDE DEF todo
  <2>4. <<todo[Len(todo)]>> \in Seq(Lessons)
    BY <2>3
  <2> QED
    BY <2>1, <2>4
<1>3. attempt' \in AttemptType
  <2>1. attempt' = [attempt EXCEPT
          !.todo = next,
          !.failed = @ \/ phase = "recreate" \/ Len(attempt.todo) = 1]
    BY DEF RebuildMiss
  <2>2. (attempt.failed \/ phase = "recreate" \/ Len(attempt.todo) = 1) \in BOOLEAN
    BY DEF TypeOK, AttemptType
  <2> HIDE DEF next
  <2> QED
    BY <1>2, <2>1, <2>2 DEF TypeOK, AttemptType
<1> QED
  BY <1>3 DEF RebuildMiss, TypeOK

\* An undo replays the ruined rows.
LEMMA UndoType ==
  ASSUME TypeOK, Undo
  PROVE  TypeOK'
<1> DEFINE R == UNION attempt.added
<1>1. R \in SUBSET Row /\ attempt.ruined \in SUBSET Row /\ attempt.heads \in SUBSET SUBSET Row
      /\ attempt.locks \in LockType
  BY DEF TypeOK, AttemptType
<1>2. BlocksOf(attempt.ruined) \in SUBSET SUBSET Row
  BY <1>1 DEF BlocksOf, RowsOfOn
<1> DEFINE b0 == Recount(tally, R, attempt.ruined)
           b1 == FewerLessons(b0, attempt.heads, 1)
           b2 == MoreLessons(b1, BlocksOf(attempt.ruined), 1)
<1>3. b0 \in TallyType
  BY <1>1, CountType DEF Recount, TypeOK
<1>4. b1 \in TallyType
  <2> HIDE DEF b0
  <2> QED
    BY <1>1, <1>3, LessonsType
<1>5. b2 \in TallyType
  <2> HIDE DEF b1
  <2> QED
    BY <1>2, <1>4, LessonsType
<1>6. tally' \in TallyType
  <2>1. tally' = [b2 EXCEPT !.teacherLock = attempt.locks]
    BY DEF Undo
  <2> HIDE DEF b2
  <2> QED
    BY <1>1, <1>5, <2>1, LocksType
<1>7. used' \in UsedType
  BY <1>1, UsedTyping DEF Undo, TypeOK
<1>8. rows' \in SUBSET Row
  BY <1>1 DEF Undo, TypeOK
<1>9. best' \in SUBSET Row
  BY <1>8, EndIterationType DEF Undo, TypeOK
<1>10. phase' \in Phases /\ attempt' \in AttemptType /\ UNCHANGED <<left, missed>>
  BY EmptyType DEF Undo, Phases
<1> QED
  BY <1>6, <1>7, <1>8, <1>9, <1>10 DEF TypeOK

\* Every step keeps the types.
LEMMA NextType == TypeOK /\ [Next]_vars => TypeOK'
<1> SUFFICES ASSUME TypeOK, [Next]_vars PROVE TypeOK'
  OBVIOUS
<1>1. ASSUME NEW l \in Lessons, FfdPlace(l) PROVE TypeOK'
  <2>1. rows' \in SUBSET Row /\ used' \in UsedType /\ tally' \in TallyType
    BY <1>1, PlaceType DEF FfdPlace
  <2>2. left' \in [Lessons -> Nat]
    BY <1>1 DEF FfdPlace, FfdTurn, TypeOK
  <2> QED
    BY <1>1, <2>1, <2>2 DEF FfdPlace, TypeOK
<1>2. ASSUME NEW l \in Lessons, FfdMiss(l) PROVE TypeOK'
  BY <1>2 DEF FfdMiss, FfdTurn, TypeOK
<1>3. ASSUME FfdEnd PROVE TypeOK'
  BY <1>3 DEF FfdEnd, TypeOK, Phases
<1>4. ASSUME NothingToRuin PROVE TypeOK'
  BY <1>4, EndIterationType DEF NothingToRuin, TypeOK, Phases
<1>5. ASSUME Keep PROVE TypeOK'
  BY <1>5, EndIterationType, EmptyType DEF Keep, TypeOK, Phases
<1>6. ASSUME Finish PROVE TypeOK'
  BY <1>6 DEF Finish, TypeOK, Phases
<1>7. CASE UNCHANGED vars
  BY <1>7 DEF vars, TypeOK
<1> QED
  BY <1>1, <1>2, <1>3, <1>4, <1>5, <1>6, <1>7, ChangeType, SwapType, HomeRoomRepairType,
     RescueType, RuinType, RebuildPlaceType, RebuildMissType, UndoType DEF Next

\* A behaviour of the search is one whatever decides between two schedules with
\* as many hours.
LEMMA SpecLoose == Spec => Init /\ [][Next]_vars
<1>1. [PricedNext]_vars => [Next]_vars
  BY DEF PricedNext
<1> QED
  BY <1>1, PTL DEF Spec

\* Every variable of the solver keeps its type: no counter goes below zero,
\* and no row names a slot, room, teacher or lesson outside the problem.
THEOREM TypeCorrect == Spec => []TypeOK
BY InitType, NextType, SpecLoose, PTL

-----------------------------------------------------------------------------
(* The state mirrors the schedule.                                         *)

Orderly(R) == NoDoubleBooking(R) /\ NoRoomHopping(R)

Counted(R, b) ==
    /\ \A t \in Teachers : b.hours[t] = Cardinality({r \in R : r.teacher = t})
    /\ \A x \in Triples : /\ b.subjectHours[x] = TripleCount(R, x)
                          /\ b.lock[x] = TripleCount(R, x)
                          /\ TripleCount(R, x) = 0 => b.lockRoom[x] = NoRoom
                          /\ \A r \in TripleRows(R, x[1], x[2], x[3]) :
                               b.lockRoom[x] = r.room

LocksHold(R, L) ==
    \A r \in R : \A c \in ClassesOf[r.lesson] : L[<<c, SubjectOf[r.lesson]>>] = r.teacher

Mirrored(R, u, b) ==
    u = Occupy(Nobody, R) /\ Counted(R, b) /\ LocksHold(R, b.teacherLock)

PinsIn(R) == {r \in R : r.lesson \in Pinned} = PinnedRows

Unpinned(R) == \A r \in R : r.lesson \notin Pinned

\* Vacating the keys of some rows leaves exactly the keys of the others, when
\* the two share none.
LEMMA VacateApart ==
  ASSUME NEW R \in SUBSET Row, NEW S, S \subseteq R, \A r \in R \ S, q \in S : ~Clash(r, q)
  PROVE  Vacate(Occupy(Nobody, R), S) = Occupy(Nobody, R \ S)
<1>1. TeacherKeys(R) \ TeacherKeys(S) = TeacherKeys(R \ S)
  <2>1. ASSUME NEW r \in R \ S, NEW q \in S, <<r.teacher, r.slot>> = <<q.teacher, q.slot>>
        PROVE  FALSE
    BY <2>1 DEF Clash
  <2> QED
    BY <2>1 DEF TeacherKeys
<1>2. RoomKeys(R) \ RoomKeys(S) = RoomKeys(R \ S)
  <2>1. ASSUME NEW r \in R \ S, NEW q \in S, <<r.room, r.slot>> = <<q.room, q.slot>>
        PROVE  FALSE
    BY <2>1 DEF Clash
  <2> QED
    BY <2>1 DEF RoomKeys
<1>3. ClassKeys(R) \ ClassKeys(S) = ClassKeys(R \ S)
  <2>1. ASSUME NEW r \in R \ S, NEW q \in S, NEW c \in ClassesOf[r.lesson],
               NEW d \in ClassesOf[q.lesson], <<c, r.slot>> = <<d, q.slot>>
        PROVE  FALSE
    BY <2>1 DEF Clash
  <2>2. ASSUME NEW k \in ClassKeys(R) \ ClassKeys(S) PROVE k \in ClassKeys(R \ S)
    BY <2>2 DEF ClassKeys
  <2>3. ASSUME NEW k \in ClassKeys(R \ S) PROVE k \in ClassKeys(R) \ ClassKeys(S)
    <3>1. k \in ClassKeys(R)
      BY <2>3 DEF ClassKeys
    <3>2. ASSUME k \in ClassKeys(S) PROVE FALSE
      BY <2>1, <2>3, <3>2 DEF ClassKeys
    <3> QED
      BY <3>1, <3>2
  <2> QED
    BY <2>2, <2>3
<1> QED
  BY <1>1, <1>2, <1>3 DEF Vacate, Occupy, Nobody

\* Without conflicts no two rows share a key.
LEMMA VacateMirror ==
  ASSUME NEW R \in SUBSET Row, NoDoubleBooking(R), NEW S, S \subseteq R
  PROVE  Vacate(Occupy(Nobody, R), S) = Occupy(Nobody, R \ S)
<1>1. \A r \in R \ S, q \in S : ~Clash(r, q)
  BY DEF NoDoubleBooking
<1> QED
  BY <1>1, VacateApart

\* Occupying adds the keys of the new rows.
LEMMA OccupyMirror ==
  ASSUME NEW R, NEW S
  PROVE  Occupy(Occupy(Nobody, R), S) = Occupy(Nobody, R \cup S)
<1>1. TeacherKeys(R \cup S) = TeacherKeys(R) \cup TeacherKeys(S)
  BY DEF TeacherKeys
<1>2. RoomKeys(R \cup S) = RoomKeys(R) \cup RoomKeys(S)
  BY DEF RoomKeys
<1>3. ClassKeys(R \cup S) = ClassKeys(R) \cup ClassKeys(S)
  BY DEF ClassKeys
<1> QED
  BY <1>1, <1>2, <1>3 DEF Occupy, Nobody

\* R consists of the schedules K and S, without a common row.
TwoParts(R, K, S) ==
    R = K \cup S /\ K \in SUBSET Row /\ S \in SUBSET Row /\ K \cap S = {}

HoursTaught(R, t) == Cardinality({r \in R : r.teacher = t})

\* Counts of disjoint sets of rows add up, per teacher and per triple.
LEMMA CountsOfParts ==
  ASSUME NEW R, NEW K, NEW S, TwoParts(R, K, S)
  PROVE  /\ \A t \in Teachers : HoursTaught(R, t) = HoursTaught(K, t) + HoursTaught(S, t)
         /\ \A x \in Triples : TripleCount(R, x) = TripleCount(K, x) + TripleCount(S, x)
<1> R = K \cup S /\ K \in SUBSET Row /\ S \in SUBSET Row /\ K \cap S = {}
  BY DEF TwoParts
<1>1. ASSUME NEW t \in Teachers
      PROVE  HoursTaught(R, t) = HoursTaught(K, t) + HoursTaught(S, t)
  <2> DEFINE A == {r \in K : r.teacher = t}
             B == {r \in S : r.teacher = t}
             C == {r \in R : r.teacher = t}
  <2>1. A \cap B = {} /\ IsFiniteSet(A) /\ IsFiniteSet(B)
    BY ScheduleFinite
  <2>2. C = A \cup B
    OBVIOUS
  <2> HIDE DEF A, B, C
  <2>3. Cardinality(C) = Cardinality(A) + Cardinality(B)
    BY <2>1, <2>2, SizeOfUnion
  <2> QED
    BY <2>3 DEF A, B, C, HoursTaught
<1>2. ASSUME NEW x \in Triples
      PROVE  TripleCount(R, x) = TripleCount(K, x) + TripleCount(S, x)
  <2> DEFINE A == TripleRows(K, x[1], x[2], x[3])
             B == TripleRows(S, x[1], x[2], x[3])
             C == TripleRows(R, x[1], x[2], x[3])
  <2>1. A \cap B = {} /\ IsFiniteSet(A) /\ IsFiniteSet(B)
    BY ScheduleFinite DEF TripleRows
  <2>2. C = A \cup B
    BY DEF TripleRows
  <2> HIDE DEF A, B, C
  <2>3. Cardinality(C) = Cardinality(A) + Cardinality(B)
    BY <2>1, <2>2, SizeOfUnion
  <2> QED
    BY <2>3 DEF A, B, C, TripleCount
<1> QED
  BY <1>1, <1>2

\* The same, written out.
LEMMA CountsOfUnion ==
  ASSUME NEW R \in SUBSET Row, NEW S \in SUBSET Row, R \cap S = {}
  PROVE  /\ \A t \in Teachers :
              Cardinality({r \in R \cup S : r.teacher = t})
                = Cardinality({r \in R : r.teacher = t})
                  + Cardinality({r \in S : r.teacher = t})
         /\ \A x \in Triples :
              TripleCount(R \cup S, x) = TripleCount(R, x) + TripleCount(S, x)
<1> DEFINE U == R \cup S
<1>1. TwoParts(U, R, S)
  BY DEF TwoParts
<1> HIDE DEF U
<1>2. /\ \A t \in Teachers : HoursTaught(U, t) = HoursTaught(R, t) + HoursTaught(S, t)
      /\ \A x \in Triples : TripleCount(U, x) = TripleCount(R, x) + TripleCount(S, x)
  BY <1>1, CountsOfParts
<1> QED
  BY <1>2 DEF U, HoursTaught

\* The field values of the counting operators.
LEMMA CountFields ==
  ASSUME NEW b \in TallyType, NEW R
  PROVE  /\ \A t \in Teachers : CountIn(b, R).hours[t]
              = b.hours[t] + Cardinality({r \in R : r.teacher = t})
         /\ \A x \in Triples :
              /\ CountIn(b, R).subjectHours[x] = b.subjectHours[x] + TripleCount(R, x)
              /\ CountIn(b, R).lock[x] = b.lock[x] + TripleCount(R, x)
              /\ CountIn(b, R).lockRoom[x] =
                   IF b.lock[x] = 0 /\ TripleCount(R, x) > 0 THEN RoomFor(R, x)
                                                             ELSE b.lockRoom[x]
         /\ CountIn(b, R).teacherLock = b.teacherLock
         /\ \A t \in Teachers : CountOut(b, R).hours[t]
              = SatSub(b.hours[t], Cardinality({r \in R : r.teacher = t}))
         /\ \A x \in Triples :
              /\ CountOut(b, R).subjectHours[x] = SatSub(b.subjectHours[x], TripleCount(R, x))
              /\ CountOut(b, R).lock[x] = SatSub(b.lock[x], TripleCount(R, x))
              /\ CountOut(b, R).lockRoom[x] =
                   IF b.lock[x] <= TripleCount(R, x) THEN NoRoom ELSE b.lockRoom[x]
         /\ CountOut(b, R).teacherLock = b.teacherLock
<1>1. /\ \A t \in Teachers : CountIn(b, R).hours[t]
            = b.hours[t] + Cardinality({r \in R : r.teacher = t})
      /\ \A x \in Triples :
            /\ CountIn(b, R).subjectHours[x] = b.subjectHours[x] + TripleCount(R, x)
            /\ CountIn(b, R).lock[x] = b.lock[x] + TripleCount(R, x)
            /\ CountIn(b, R).lockRoom[x] =
                 IF b.lock[x] = 0 /\ TripleCount(R, x) > 0 THEN RoomFor(R, x)
                                                           ELSE b.lockRoom[x]
      /\ CountIn(b, R).teacherLock = b.teacherLock
  BY DEF CountIn, TallyType
<1>2. /\ \A t \in Teachers : CountOut(b, R).hours[t]
            = SatSub(b.hours[t], Cardinality({r \in R : r.teacher = t}))
      /\ \A x \in Triples :
            /\ CountOut(b, R).subjectHours[x] = SatSub(b.subjectHours[x], TripleCount(R, x))
            /\ CountOut(b, R).lock[x] = SatSub(b.lock[x], TripleCount(R, x))
            /\ CountOut(b, R).lockRoom[x] =
                 IF b.lock[x] <= TripleCount(R, x) THEN NoRoom ELSE b.lockRoom[x]
      /\ CountOut(b, R).teacherLock = b.teacherLock
  BY DEF CountOut, TallyType
<1> QED
  BY <1>1, <1>2

\* A room a lock is created with is that of one of the rows counted in.
LEMMA RoomForIsARoom ==
  ASSUME NEW R \in SUBSET Row, NEW x \in Triples, TripleCount(R, x) > 0
  PROVE  \E r \in TripleRows(R, x[1], x[2], x[3]) : RoomFor(R, x) = r.room
<1>1. TripleRows(R, x[1], x[2], x[3]) # {}
  BY FS_EmptySet DEF TripleCount
<1> QED
  BY <1>1 DEF RoomFor

\* A triple without rows counts zero, and only then.
LEMMA EmptyTriple ==
  ASSUME NEW R \in SUBSET Row, NEW x \in Triples
  PROVE  TripleCount(R, x) \in Nat
         /\ (TripleCount(R, x) = 0 <=> TripleRows(R, x[1], x[2], x[3]) = {})
<1>1. TripleRows(R, x[1], x[2], x[3]) \in SUBSET Row
  BY DEF TripleRows
<1>2. IsFiniteSet(TripleRows(R, x[1], x[2], x[3]))
  BY <1>1, ScheduleFinite
<1> QED
  BY <1>2, SizeZero DEF TripleCount

\* Rows of one triple share their room in an orderly schedule.
LEMMA TripleRoom ==
  ASSUME NEW R, NoRoomHopping(R), NEW x \in Triples,
         NEW r \in TripleRows(R, x[1], x[2], x[3]), NEW q \in TripleRows(R, x[1], x[2], x[3])
  PROVE  r.room = q.room
BY DEF TripleRows, NoRoomHopping

\* Taking back what was added.
LEMMA SatSubOfSum ==
  ASSUME NEW m \in Nat, NEW n \in Nat
  PROVE  SatSub(m + n, n) = m /\ (m + n <= n <=> m = 0) /\ (m + n = 0 <=> m = 0 /\ n = 0)
BY DEF SatSub

\* Counting rows in mirrors adding them.
LEMMA CountInMirror ==
  ASSUME NEW b \in TallyType, NEW R \in SUBSET Row, NEW S \in SUBSET Row,
         R \cap S = {}, Counted(R, b), NoRoomHopping(R \cup S)
  PROVE  Counted(R \cup S, CountIn(b, S))
<1> DEFINE n == CountIn(b, S)
<1>1. ASSUME NEW t \in Teachers
      PROVE  n.hours[t] = Cardinality({r \in R \cup S : r.teacher = t})
  <2> DEFINE H(Q) == Cardinality({r \in Q : r.teacher = t})
  <2>1. n.hours[t] = b.hours[t] + H(S)
    BY CountFields
  <2>2. b.hours[t] = H(R)
    BY DEF Counted
  <2>3. H(R \cup S) = H(R) + H(S)
    BY CountsOfUnion
  <2> HIDE DEF H, n
  <2>4. n.hours[t] = H(R \cup S)
    BY <2>1, <2>2, <2>3
  <2> QED
    BY <2>4 DEF H
<1>2. ASSUME NEW x \in Triples
      PROVE  /\ n.subjectHours[x] = TripleCount(R \cup S, x)
             /\ n.lock[x] = TripleCount(R \cup S, x)
             /\ TripleCount(R \cup S, x) = 0 => n.lockRoom[x] = NoRoom
             /\ \A r \in TripleRows(R \cup S, x[1], x[2], x[3]) : n.lockRoom[x] = r.room
  <2> DEFINE T(Q) == TripleRows(Q, x[1], x[2], x[3])
  <2>1. TripleCount(R \cup S, x) = TripleCount(R, x) + TripleCount(S, x)
    BY CountsOfUnion
  <2>2. TripleCount(R, x) \in Nat /\ TripleCount(S, x) \in Nat
    BY EmptyTriple
  <2>3. /\ b.subjectHours[x] = TripleCount(R, x)
        /\ b.lock[x] = TripleCount(R, x)
        /\ TripleCount(R, x) = 0 => b.lockRoom[x] = NoRoom
        /\ \A r \in T(R) : b.lockRoom[x] = r.room
    BY DEF Counted
  <2>4. /\ n.subjectHours[x] = b.subjectHours[x] + TripleCount(S, x)
        /\ n.lock[x] = b.lock[x] + TripleCount(S, x)
        /\ n.lockRoom[x] = IF b.lock[x] = 0 /\ TripleCount(S, x) > 0
                           THEN RoomFor(S, x) ELSE b.lockRoom[x]
    BY CountFields
  <2>5. T(R) \subseteq T(R \cup S) /\ T(S) \subseteq T(R \cup S)
        /\ T(R \cup S) = T(R) \cup T(S)
    BY DEF TripleRows
  <2>6. ASSUME NEW r \in T(R \cup S)
        PROVE  n.lockRoom[x] = r.room
    <3>1. CASE TripleCount(R, x) = 0 /\ TripleCount(S, x) > 0
      <4>1. PICK q \in T(S) : RoomFor(S, x) = q.room
        BY <3>1, RoomForIsARoom
      <4>2. q.room = r.room
        BY <2>5, TripleRoom
      <4> QED
        BY <3>1, <4>1, <4>2, <2>3, <2>4
    <3>2. CASE TripleCount(R, x) = 0 /\ TripleCount(S, x) = 0
      <4>1. T(R) = {} /\ T(S) = {}
        BY <3>2, EmptyTriple
      <4> QED
        BY <2>5, <4>1
    <3>3. CASE TripleCount(R, x) # 0
      <4>1. PICK q \in T(R) : TRUE
        BY <3>3, EmptyTriple
      <4>2. q.room = r.room
        BY <2>5, TripleRoom
      <4>3. b.lockRoom[x] = q.room
        BY <2>3
      <4> QED
        BY <3>3, <4>2, <4>3, <2>3, <2>4
    <3> QED
      BY <3>1, <3>2, <3>3, <2>2
  <2>7. TripleCount(R \cup S, x) = 0 => n.lockRoom[x] = NoRoom
    <3>1. SUFFICES ASSUME TripleCount(R \cup S, x) = 0 PROVE n.lockRoom[x] = NoRoom
      OBVIOUS
    <3>2. TripleCount(R, x) = 0 /\ TripleCount(S, x) = 0
      BY <3>1, <2>1, <2>2, SatSubOfSum
    <3> QED
      BY <3>2, <2>3, <2>4
  <2> QED
    BY <2>1, <2>3, <2>4, <2>6, <2>7
<1> HIDE DEF n
<1> QED
  BY <1>1, <1>2 DEF Counted, n

\* Counting rows out mirrors taking them out.
LEMMA CountOutMirror ==
  ASSUME NEW b \in TallyType, NEW R \in SUBSET Row, NEW S \in SUBSET R, Counted(R, b)
  PROVE  Counted(R \ S, CountOut(b, S))
<1> DEFINE n == CountOut(b, S)
           K == R \ S
<1>1. R = K \cup S /\ K \cap S = {} /\ K \in SUBSET Row /\ S \in SUBSET Row
  OBVIOUS
<1>2. ASSUME NEW t \in Teachers
      PROVE  n.hours[t] = Cardinality({r \in K : r.teacher = t})
  <2> DEFINE H(Q) == Cardinality({r \in Q : r.teacher = t})
  <2>1. H(K) \in Nat /\ H(S) \in Nat
    BY <1>1, ScheduleFinite
  <2>2. H(R) = H(K) + H(S)
    <3>1. TwoParts(R, K, S)
      BY <1>1 DEF TwoParts
    <3> HIDE DEF K
    <3>2. HoursTaught(R, t) = HoursTaught(K, t) + HoursTaught(S, t)
      BY <3>1, CountsOfParts
    <3> QED
      BY <3>2 DEF HoursTaught
  <2>3. b.hours[t] = H(R)
    BY <1>1 DEF Counted
  <2>4. n.hours[t] = SatSub(b.hours[t], H(S))
    BY CountFields
  <2> HIDE DEF H, K, n
  <2>5. SatSub(H(K) + H(S), H(S)) = H(K)
    BY <2>1, SatSubOfSum
  <2>6. n.hours[t] = H(K)
    BY <2>2, <2>3, <2>4, <2>5
  <2> QED
    BY <2>6 DEF H
<1>3. ASSUME NEW x \in Triples
      PROVE  /\ n.subjectHours[x] = TripleCount(K, x)
             /\ n.lock[x] = TripleCount(K, x)
             /\ TripleCount(K, x) = 0 => n.lockRoom[x] = NoRoom
             /\ \A r \in TripleRows(K, x[1], x[2], x[3]) : n.lockRoom[x] = r.room
  <2> DEFINE T(Q) == TripleRows(Q, x[1], x[2], x[3])
             k == TripleCount(K, x)
             o == TripleCount(S, x)
  <2>1. k \in Nat /\ o \in Nat
    BY <1>1, EmptyTriple
  <2>2. TripleCount(R, x) = k + o
    <3>1. TwoParts(R, K, S)
      BY <1>1 DEF TwoParts
    <3> HIDE DEF K
    <3> QED
      BY <3>1, CountsOfParts
  <2>3. b.subjectHours[x] = k + o /\ b.lock[x] = k + o
        /\ \A r \in T(R) : b.lockRoom[x] = r.room
    BY <2>2 DEF Counted
  <2>4. /\ n.subjectHours[x] = SatSub(b.subjectHours[x], o)
        /\ n.lock[x] = SatSub(b.lock[x], o)
        /\ n.lockRoom[x] = IF b.lock[x] <= o THEN NoRoom ELSE b.lockRoom[x]
    BY CountFields
  <2>5. T(K) \subseteq T(R)
    BY DEF TripleRows
  <2>6. k # 0 \/ T(K) = {}
    BY <1>1, EmptyTriple
  <2> HIDE DEF T, k, o, K, n
  <2>7. SatSub(k + o, o) = k /\ (k + o <= o <=> k = 0)
    BY <2>1, SatSubOfSum
  <2>8. n.subjectHours[x] = k /\ n.lock[x] = k
    BY <2>3, <2>4, <2>7
  <2>9. k = 0 => n.lockRoom[x] = NoRoom
    BY <2>3, <2>4, <2>7
  <2>10. \A r \in T(K) : n.lockRoom[x] = r.room
    BY <2>3, <2>4, <2>5, <2>6, <2>7
  <2> QED
    BY <2>8, <2>9, <2>10 DEF T, k
<1> HIDE DEF n, K
<1>4. Counted(K, n)
  BY <1>2, <1>3 DEF Counted
<1> QED
  BY <1>4 DEF n, K

\* Lessons per day and teacher locks play no part in Counted.
LEMMA CountedSame ==
  ASSUME NEW b \in TallyType, NEW R, Counted(R, b)
  PROVE  /\ \A Bs, n : /\ Counted(R, MoreLessons(b, Bs, n))
                       /\ Counted(R, FewerLessons(b, Bs, n))
                       /\ MoreLessons(b, Bs, n).teacherLock = b.teacherLock
                       /\ FewerLessons(b, Bs, n).teacherLock = b.teacherLock
         /\ \A l, t : Counted(R, LockTeacher(b, l, t))
         /\ \A S : Counted(R, ForgetLocks(b, S))
         /\ \A L : Counted(R, [b EXCEPT !.teacherLock = L])
<1>1. ASSUME NEW n, n.hours = b.hours, n.subjectHours = b.subjectHours,
             n.lock = b.lock, n.lockRoom = b.lockRoom
      PROVE  Counted(R, n)
  BY <1>1 DEF Counted
<1>2. ASSUME NEW Bs, NEW k
      PROVE  /\ Counted(R, MoreLessons(b, Bs, k)) /\ Counted(R, FewerLessons(b, Bs, k))
             /\ MoreLessons(b, Bs, k).teacherLock = b.teacherLock
             /\ FewerLessons(b, Bs, k).teacherLock = b.teacherLock
  <2> DEFINE m == MoreLessons(b, Bs, k)
             f == FewerLessons(b, Bs, k)
  <2>1. m.hours = b.hours /\ m.subjectHours = b.subjectHours /\ m.lock = b.lock
        /\ m.lockRoom = b.lockRoom /\ m.teacherLock = b.teacherLock
    BY DEF MoreLessons, TallyType
  <2>2. f.hours = b.hours /\ f.subjectHours = b.subjectHours /\ f.lock = b.lock
        /\ f.lockRoom = b.lockRoom /\ f.teacherLock = b.teacherLock
    BY DEF FewerLessons, TallyType
  <2> HIDE DEF m, f
  <2>3. Counted(R, m) /\ Counted(R, f)
    BY <2>1, <2>2, <1>1
  <2> QED
    BY <2>1, <2>2, <2>3 DEF m, f
<1>3. ASSUME NEW L PROVE Counted(R, [b EXCEPT !.teacherLock = L])
  <2> DEFINE n == [b EXCEPT !.teacherLock = L]
  <2>1. n.hours = b.hours /\ n.subjectHours = b.subjectHours /\ n.lock = b.lock
        /\ n.lockRoom = b.lockRoom
    BY DEF TallyType
  <2> HIDE DEF n
  <2>2. Counted(R, n)
    BY <2>1, <1>1
  <2> QED
    BY <2>2 DEF n
<1>4. ASSUME NEW l, NEW t PROVE Counted(R, LockTeacher(b, l, t))
  BY <1>3 DEF LockTeacher
<1>5. ASSUME NEW S PROVE Counted(R, ForgetLocks(b, S))
  BY <1>3 DEF ForgetLocks
<1> QED
  BY <1>2, <1>3, <1>4, <1>5

\* What the rows of a block have in common.
LEMMA BlockRows ==
  ASSUME NEW l, NEW s, NEW room, NEW t, NEW q \in Block(l, s, room, t)
  PROVE  /\ q.lesson = l /\ q.room = room /\ q.teacher = t
         /\ q.slot \in Window(s, BlockSize[l]) /\ Day(q.slot) = Day(s)
         /\ \A r \in Block(l, s, room, t) : q.slot = r.slot => q = r
BY DEF Block, Window, Day

\* A key that is not in use belongs to no row.
LEMMA FreeKeys ==
  ASSUME NEW R, NEW u, u = Occupy(Nobody, R), NEW r \in R
  PROVE  /\ <<r.teacher, r.slot>> \in u.teacher
         /\ <<r.room, r.slot>> \in u.room
         /\ \A c \in ClassesOf[r.lesson] : <<c, r.slot>> \in u.class
BY DEF Occupy, Nobody, TeacherKeys, RoomKeys, ClassKeys

\* A lesson attends with at least one class, each of them a class, and teaches
\* a subject on a day of the week.
LEMMA RowTriple ==
  ASSUME NEW r \in Row
  PROVE  /\ r.lesson \in Lessons /\ r.slot \in Slots /\ r.room \in Rooms
         /\ r.teacher \in Teachers
         /\ ClassesOf[r.lesson] # {}
         /\ \A c \in ClassesOf[r.lesson] :
              /\ c \in Classes /\ <<c, SubjectOf[r.lesson]>> \in Classes \X Subjects
              /\ <<c, Day(r.slot), SubjectOf[r.lesson]>> \in Triples
BY ProblemAssumption DEF Row, Triples, Days, ValidLessons, ValidGroups

\* Two rows that share a class, a day and a subject are in one triple.
LEMMA SharedTriple ==
  ASSUME NEW R \in SUBSET Row, NEW r \in R, NEW c \in ClassesOf[r.lesson]
  PROVE  LET x == <<c, Day(r.slot), SubjectOf[r.lesson]>>
         IN  x \in Triples /\ r \in TripleRows(R, x[1], x[2], x[3])
             /\ TripleCount(R, x) # 0
<1> DEFINE x == <<c, Day(r.slot), SubjectOf[r.lesson]>>
<1>1. x \in Triples
  BY RowTriple
<1>2. r \in TripleRows(R, x[1], x[2], x[3])
  BY DEF TripleRows
<1> QED
  BY <1>1, <1>2, EmptyTriple

\* Adding a block beside an orderly schedule.
LEMMA AddBlockOrderly ==
  ASSUME NEW R \in SUBSET Row, Orderly(R),
         NEW l \in Lessons, NEW s \in Slots, NEW room \in Rooms, NEW t \in Teachers,
         Window(s, BlockSize[l]) \subseteq Slots,
         NEW B, B = Block(l, s, room, t),
         \A r \in R : r.slot \in Window(s, BlockSize[l]) =>
            r.teacher # t /\ r.room # room /\ ClassesOf[r.lesson] \cap ClassesOf[l] = {},
         \A r \in R : /\ Day(r.slot) = Day(s)
                      /\ SubjectOf[r.lesson] = SubjectOf[l]
                      /\ ClassesOf[r.lesson] \cap ClassesOf[l] # {}
                      => r.room = room
  PROVE  Orderly(R \cup B) /\ R \cap B = {}
<1>1. \A q \in B : /\ q.lesson = l /\ q.room = room /\ q.teacher = t
                   /\ q.slot \in Window(s, BlockSize[l]) /\ Day(q.slot) = Day(s)
                   /\ \A r \in B : q.slot = r.slot => q = r
  BY BlockRows
<1>2. NoDoubleBooking(R \cup B)
  <2>1. \A r \in R, q \in B : ~Clash(r, q) /\ ~Clash(q, r)
    BY <1>1 DEF Clash
  <2>2. \A q, r \in B : q # r => ~Clash(q, r)
    BY <1>1 DEF Clash
  <2> QED
    BY <2>1, <2>2 DEF Orderly, NoDoubleBooking
<1>3. NoRoomHopping(R \cup B)
  BY <1>1 DEF Orderly, NoRoomHopping
<1>4. R \cap B = {}
  BY <1>1
<1> QED
  BY <1>2, <1>3, <1>4 DEF Orderly

\* The commit of a block keeps the schedule orderly and mirrored.
LEMMA PlaceKeeps ==
  ASSUME TypeOK, Orderly(rows), Mirrored(rows, used, tally),
         NEW l \in Lessons, NEW s \in Slots, NEW room \in Rooms, NEW t \in Teachers,
         Place(l, s, room, t)
  PROVE  /\ Orderly(rows') /\ Mirrored(rows', used', tally')
         /\ rows' = rows \cup Block(l, s, room, t)
         /\ rows \cap Block(l, s, room, t) = {}
<1> DEFINE B == Block(l, s, room, t)
           W == Window(s, BlockSize[l])
<1>1. W \subseteq Slots /\ B \in SUBSET Row /\ rows' = rows \cup B /\ rows \in SUBSET Row
  BY PlaceType DEF Place, CanPlace, TypeOK
<1>2. ASSUME NEW r \in rows, r.slot \in W
      PROVE  r.teacher # t /\ r.room # room /\ ClassesOf[r.lesson] \cap ClassesOf[l] = {}
  <2>1. /\ <<r.teacher, r.slot>> \in used.teacher
        /\ <<r.room, r.slot>> \in used.room
        /\ \A c \in ClassesOf[r.lesson] : <<c, r.slot>> \in used.class
    BY FreeKeys DEF Mirrored
  <2> QED
    BY <1>2, <2>1 DEF Place, CanPlace, ClassesFree, RoomFits, TeacherFits
<1>3. ASSUME NEW r \in rows, Day(r.slot) = Day(s), SubjectOf[r.lesson] = SubjectOf[l],
             ClassesOf[r.lesson] \cap ClassesOf[l] # {}
      PROVE  r.room = room
  <2>1. PICK c \in ClassesOf[r.lesson] : c \in ClassesOf[l]
    BY <1>3
  <2> DEFINE x == <<c, Day(r.slot), SubjectOf[r.lesson]>>
  <2>2. x \in Triples /\ r \in TripleRows(rows, x[1], x[2], x[3]) /\ TripleCount(rows, x) # 0
    BY <1>1, SharedTriple
  <2>3. x \in LockKeys(l, Day(s))
    BY <1>3, <2>1 DEF LockKeys
  <2>4. tally.lockRoom[x] = r.room /\ tally.lock[x] = TripleCount(rows, x)
    BY <2>2 DEF Mirrored, Counted
  <2>5. TripleCount(rows, x) \in Nat
    BY <1>1, <2>2, EmptyTriple
  <2>6. tally.lock[x] > 0
    BY <2>2, <2>4, <2>5
  <2> QED
    BY <2>3, <2>4, <2>6 DEF Place, CanPlace
<1>4. Orderly(rows \cup B) /\ rows \cap B = {}
  BY <1>1, <1>2, <1>3, AddBlockOrderly
<1>5. used' = Occupy(Nobody, rows')
  BY <1>1, OccupyMirror DEF Place, Mirrored
<1> DEFINE b0 == CountIn(tally, B)
           b1 == MoreLessons(b0, {B}, 1)
<1>6. Counted(rows', b0) /\ b0 \in TallyType
  BY <1>1, <1>4, CountInMirror, CountType DEF Mirrored, Orderly, TypeOK
<1>7. b0.teacherLock = tally.teacherLock
  BY CountFields DEF TypeOK
<1>8. Counted(rows', b1) /\ b1 \in TallyType /\ b1.teacherLock = tally.teacherLock
  <2> HIDE DEF b0
  <2> QED
    BY <1>1, <1>6, <1>7, CountedSame, LessonsType
<1>9. tally' = LockTeacher(b1, l, t)
  BY DEF Place
<1>10. Counted(rows', tally')
  <2> HIDE DEF b1
  <2> QED
    BY <1>8, <1>9, CountedSame
<1>11. LocksHold(rows', tally'.teacherLock)
  <2>1. tally.teacherLock \in LockType
    BY DEF TypeOK, TallyType
  <2>2. \A x \in Classes \X Subjects : tally'.teacherLock[x] =
          IF x[1] \in ClassesOf[l] /\ x[2] = SubjectOf[l] /\ tally.teacherLock[x] = NoTeacher
          THEN t ELSE tally.teacherLock[x]
    <3> HIDE DEF b1
    <3> QED
      BY <1>8, <1>9 DEF LockTeacher, TallyType
  <2>3. ASSUME NEW r \in rows, NEW c \in ClassesOf[r.lesson]
        PROVE  tally'.teacherLock[<<c, SubjectOf[r.lesson]>>] = r.teacher
    <3>1. r.teacher \in Teachers /\ <<c, SubjectOf[r.lesson]>> \in Classes \X Subjects
      BY <1>1, RowTriple
    <3>2. tally.teacherLock[<<c, SubjectOf[r.lesson]>>] = r.teacher
      BY DEF Mirrored, LocksHold
    <3>3. r.teacher # NoTeacher
      BY <3>1, ProblemAssumption DEF ValidLessons, ValidGroups
    <3> QED
      BY <2>2, <3>1, <3>2, <3>3
  <2>4. ASSUME NEW q \in B, NEW c \in ClassesOf[q.lesson]
        PROVE  tally'.teacherLock[<<c, SubjectOf[q.lesson]>>] = q.teacher
    <3>1. q.lesson = l /\ q.teacher = t
      BY BlockRows
    <3> DEFINE x == <<c, SubjectOf[l]>>
    <3>2. x \in Classes \X Subjects
      BY <1>1, <3>1, RowTriple
    <3>3. t \in TeacherChoices(l)
      BY DEF Place, CanPlace
    <3>4. CASE tally.teacherLock[x] = NoTeacher
      BY <2>2, <3>1, <3>2, <3>4
    <3>5. CASE tally.teacherLock[x] # NoTeacher
      <4>1. tally.teacherLock[x] \in LockedTeachers(l)
        BY <3>1, <3>5 DEF LockedTeachers
      <4>2. LockedTeachers(l) = {t}
        BY <3>3, <4>1 DEF TeacherChoices
      <4> QED
        BY <2>2, <3>1, <3>2, <3>5, <4>1, <4>2
    <3> QED
      BY <3>4, <3>5
  <2> QED
    BY <1>1, <2>3, <2>4 DEF LocksHold
<1> QED
  BY <1>1, <1>4, <1>5, <1>10, <1>11 DEF Mirrored

\* Moving rows in one step of the bookkeeping mirrors moving them.
LEMMA ReplaceKeeps ==
  ASSUME NEW R \in SUBSET Row, NEW u, NEW b \in TallyType,
         Orderly(R), u = Occupy(Nobody, R), Counted(R, b),
         NEW O \in SUBSET R, NEW N \in SUBSET Row, (R \ O) \cap N = {},
         Orderly((R \ O) \cup N)
  PROVE  /\ Occupy(Vacate(u, O), N) = Occupy(Nobody, (R \ O) \cup N)
         /\ Counted((R \ O) \cup N, Recount(b, O, N))
         /\ Recount(b, O, N) \in TallyType
         /\ Recount(b, O, N).teacherLock = b.teacherLock
<1> DEFINE n == CountOut(b, O)
<1>1. n \in TallyType /\ n.teacherLock = b.teacherLock
  BY CountType, CountFields
<1>2. Counted(R \ O, n)
  BY CountOutMirror
<1>3. Occupy(Vacate(u, O), N) = Occupy(Nobody, (R \ O) \cup N)
  BY VacateMirror, OccupyMirror DEF Orderly
<1> HIDE DEF n
<1>4. Counted((R \ O) \cup N, CountIn(n, N))
  BY <1>1, <1>2, CountInMirror DEF Orderly
<1>5. CountIn(n, N) \in TallyType /\ CountIn(n, N).teacherLock = n.teacherLock
  BY <1>1, CountType, CountFields
<1> QED
  BY <1>1, <1>3, <1>4, <1>5 DEF Recount, n

\* Ruining rows keeps the rest orderly and mirrored.
LEMMA TakeOutKeeps ==
  ASSUME TypeOK, Orderly(rows), Mirrored(rows, used, tally),
         NEW R \in SUBSET rows, TakeOut(R)
  PROVE  Orderly(rows') /\ Mirrored(rows', used', tally') /\ rows' = rows \ R
<1>1. R \in SUBSET Row /\ rows \in SUBSET Row /\ tally \in TallyType
  BY DEF TypeOK
<1>2. Orderly(rows') /\ rows' = rows \ R
  BY PartOfSound DEF TakeOut, Orderly
<1>3. used' = Occupy(Nobody, rows')
  BY <1>1, VacateMirror DEF TakeOut, Mirrored, Orderly
<1> DEFINE b0 == CountOut(tally, R)
           b1 == FewerLessons(b0, BlocksOf(R), 1)
<1>4. b0 \in TallyType /\ b0.teacherLock = tally.teacherLock /\ Counted(rows', b0)
  BY <1>1, <1>2, CountType, CountFields, CountOutMirror DEF Mirrored
<1>5. BlocksOf(R) \in SUBSET SUBSET Row
  BY <1>1 DEF BlocksOf, RowsOfOn
<1>6. b1 \in TallyType /\ b1.teacherLock = tally.teacherLock /\ Counted(rows', b1)
  <2> HIDE DEF b0
  <2> QED
    BY <1>4, <1>5, LessonsType, CountedSame
<1>7. tally' = ForgetLocks(b1, rows')
  BY <1>2 DEF TakeOut
<1> HIDE DEF b1
<1>8. Counted(rows', tally')
  BY <1>6, <1>7, CountedSame
<1>9. ASSUME NEW r \in rows', NEW c \in ClassesOf[r.lesson]
      PROVE  tally'.teacherLock[<<c, SubjectOf[r.lesson]>>] = r.teacher
  <2>1. <<c, SubjectOf[r.lesson]>> \in Classes \X Subjects
    BY <1>1, <1>2, RowTriple
  <2>2. tally'.teacherLock[<<c, SubjectOf[r.lesson]>>]
          = b1.teacherLock[<<c, SubjectOf[r.lesson]>>]
    BY <1>6, <1>7, <2>1 DEF ForgetLocks, TallyType
  <2> QED
    BY <1>2, <1>6, <2>2 DEF Mirrored, LocksHold
<1> QED
  BY <1>2, <1>3, <1>8, <1>9 DEF Mirrored, LocksHold

\* A window of n positions has n slots.
LEMMA WindowSize ==
  ASSUME NEW s \in Slots, NEW n \in Nat
  PROVE  IsFiniteSet(Window(s, n)) /\ Cardinality(Window(s, n)) = n
<1> DEFINE f == [k \in 0..(n - 1) |-> <<Day(s), Pos(s) + k>>]
<1>1. Pos(s) \in Nat
  BY ProblemAssumption DEF Pos, ValidLessons, ValidGroups
<1>2. f \in [0..(n - 1) -> Window(s, n)]
  BY DEF Window
<1>3. \A w \in Window(s, n) : \E k \in 0..(n - 1) : f[k] = w
  BY DEF Window
<1>4. \A j, k \in 0..(n - 1) : f[j] = f[k] => j = k
  BY <1>1
<1> HIDE DEF f
<1>5. f \in Bijection(0..(n - 1), Window(s, n))
  BY <1>2, <1>3, <1>4, Fun_IsBij
<1>6. IsFiniteSet(0..(n - 1)) /\ Cardinality(0..(n - 1)) = n
  BY FS_Interval
<1> QED
  BY <1>5, <1>6, FS_Bijection DEF ExistsBijection

\* What a Change picks up has the size of a block, when no two of its rows are in
\* one slot.
LEMMA SourceSize ==
  ASSUME rows \in SUBSET Row, NEW l \in Lessons, NEW R \in Sources(l),
         \A r, q \in R : r.slot = q.slot => r = q
  PROVE  Cardinality(R) = BlockSize[l]
<1>1. R \in SUBSET rows
  BY SourceNotEmpty
<1>2. CASE BlockSize[l] = 1
  BY <1>2, FS_Singleton DEF Sources
<1>3. CASE BlockSize[l] # 1
  <2>1. PICK s \in Slots : {r.slot : r \in R} = Window(s, BlockSize[l])
    BY <1>3 DEF Sources
  <2> DEFINE f == [r \in R |-> r.slot]
             W == Window(s, BlockSize[l])
  <2>2. f \in [R -> W] /\ \A w \in W : \E r \in R : f[r] = w
    BY <2>1
  <2>3. \A r, q \in R : f[r] = f[q] => r = q
    OBVIOUS
  <2> HIDE DEF f, W
  <2>4. f \in Bijection(R, W)
    BY <2>2, <2>3, Fun_IsBij
  <2>5. Cardinality(W) = Cardinality(R)
    BY <1>1, <2>4, ScheduleFinite, FS_Bijection DEF ExistsBijection
  <2> QED
    BY <2>5, WindowSize, ProblemAssumption DEF W, ValidLessons, ValidGroups
<1> QED
  BY <1>2, <1>3

\* It is one block: its rows have everything in common but the slot.
LEMMA SourceRows ==
  ASSUME TypeOK, Orderly(rows), LocksHold(rows, tally.teacherLock),
         NEW l \in Lessons, NEW R \in Sources(l)
  PROVE  /\ R \in SUBSET rows /\ R # {}
         /\ Cardinality(R) = BlockSize[l]
         /\ \A r, q \in R : /\ r.lesson = l /\ Day(r.slot) = Day(q.slot)
                            /\ r.room = q.room /\ r.teacher = q.teacher
<1>1. R \in SUBSET rows /\ R # {} /\ R \in SUBSET Row /\ rows \in SUBSET Row
  BY SourceNotEmpty DEF TypeOK
<1>2. \A r, q \in R : r.lesson = l /\ Day(r.slot) = Day(q.slot)
  BY DEF Sources, RowsOf, RowsOfOn
<1>3. ASSUME NEW r \in R, NEW q \in R
      PROVE  r.room = q.room /\ r.teacher = q.teacher
  <2>1. PICK c \in ClassesOf[l] : TRUE
    BY ProblemAssumption DEF ValidLessons, ValidGroups
  <2>2. r.room = q.room
    BY <1>1, <1>2, <2>1 DEF Orderly, NoRoomHopping
  <2>3. r.teacher = q.teacher
    BY <1>1, <1>2, <2>1 DEF LocksHold
  <2> QED
    BY <2>2, <2>3
<1>4. \A r, q \in R : r.slot = q.slot => r = q
  BY <1>1, <1>2, SameLessonClashes DEF Orderly
<1> QED
  BY <1>1, <1>2, <1>3, <1>4, SourceSize

\* A room lock counting only the rows picked up is not held by another row.
LEMMA LockHeldByOther ==
  ASSUME NEW R \in SUBSET Row, NEW b, Counted(R, b),
         NEW S \in SUBSET R, NEW x \in Triples, S \subseteq TripleRows(R, x[1], x[2], x[3]),
         b.lock[x] = Cardinality(S)
  PROVE  TripleRows(R, x[1], x[2], x[3]) = S
<1> DEFINE T == TripleRows(R, x[1], x[2], x[3])
<1>1. T \in SUBSET Row
  BY DEF TripleRows
<1>2. IsFiniteSet(T)
  BY <1>1, ScheduleFinite
<1>3. Cardinality(T) = Cardinality(S)
  BY DEF Counted, TripleCount
<1> HIDE DEF T
<1>4. S \in SUBSET T
  BY DEF T
<1>5. T = S
  BY <1>2, <1>3, <1>4, FS_Subset
<1> QED
  BY <1>5 DEF T

\* Rows that must be in one room.
Together(r, q) ==
    /\ Day(r.slot) = Day(q.slot)
    /\ SubjectOf[r.lesson] = SubjectOf[q.lesson]
    /\ ClassesOf[r.lesson] \cap ClassesOf[q.lesson] # {}

Compatible(r, q) == ~Clash(r, q) /\ (Together(r, q) => r.room = q.room)

\* Adding one or two rows that get along with the others and one another.
LEMMA AddPairOrderly ==
  ASSUME NEW R \in SUBSET Row, Orderly(R), NEW x \in Row, NEW y \in Row,
         \A r \in R : Compatible(r, x) /\ Compatible(r, y),
         x # y => Compatible(x, y)
  PROVE  Orderly(R \cup {x, y}) /\ R \cap {x, y} = {}
<1>1. \A r, q \in Row : Compatible(r, q) => Compatible(q, r)
  BY DEF Compatible, Clash, Together
<1>2. \A r, q \in R \cup {x, y} : r # q => Compatible(r, q)
  <2>1. \A r, q \in R : r # q => Compatible(r, q)
    BY DEF Orderly, NoDoubleBooking, NoRoomHopping, Compatible, Together
  <2> QED
    BY <1>1, <2>1
<1>3. NoDoubleBooking(R \cup {x, y})
  BY <1>2 DEF NoDoubleBooking, Compatible
<1>4. NoRoomHopping(R \cup {x, y})
  BY <1>2 DEF NoRoomHopping, Compatible, Together
<1>5. x \notin R /\ y \notin R
  BY DEF Compatible, Clash
<1> QED
  BY <1>3, <1>4, <1>5 DEF Orderly

\* A row that takes over another one's slot.
MovedTo(a2, a, s) ==
    a2.lesson = a.lesson /\ a2.slot = s /\ a2.room = a.room /\ a2.teacher = a.teacher

\* The checks of one side of a swap keep the arriving row off everyone else.
LEMMA SwapSide ==
  ASSUME rows \in SUBSET Row, Orderly(rows), Mirrored(rows, used, tally),
         NEW a \in rows, NEW b \in rows, SwapFits(a, b),
         NEW a2, MovedTo(a2, a, b.slot), NEW r \in rows \ {a, b}
  PROVE  Compatible(r, a2)
<1>1. a2.lesson = a.lesson /\ a2.slot = b.slot /\ a2.room = a.room /\ a2.teacher = a.teacher
  BY DEF MovedTo
<1>2. ~Clash(r, b)
  BY DEF Orderly, NoDoubleBooking
<1>3. /\ <<r.teacher, r.slot>> \in used.teacher /\ <<r.room, r.slot>> \in used.room
      /\ \A c \in ClassesOf[r.lesson] : <<c, r.slot>> \in used.class
  BY FreeKeys DEF Mirrored
<1>4. ~Clash(r, a2)
  <2> SUFFICES ASSUME r.slot = b.slot
               PROVE  r.teacher # a.teacher /\ r.room # a.room
                      /\ ClassesOf[r.lesson] \cap ClassesOf[a.lesson] = {}
    BY <1>1 DEF Clash
  <2>1. r.teacher # b.teacher /\ r.room # b.room
        /\ ClassesOf[r.lesson] \cap ClassesOf[b.lesson] = {}
    BY <1>2 DEF Clash
  <2> QED
    BY <1>3, <2>1 DEF SwapFits
<1>5. ASSUME Together(r, a2) PROVE r.room = a.room
  <2>1. CASE Day(a.slot) = Day(b.slot)
    BY <1>1, <1>5, <2>1 DEF Together, Orderly, NoRoomHopping
  <2>2. CASE Day(a.slot) # Day(b.slot)
    <3>1. PICK c \in ClassesOf[r.lesson] : c \in ClassesOf[a.lesson]
      BY <1>1, <1>5 DEF Together
    <3> DEFINE x == <<c, Day(r.slot), SubjectOf[r.lesson]>>
    <3>2. x \in Triples /\ r \in TripleRows(rows, x[1], x[2], x[3])
          /\ TripleCount(rows, x) # 0
      BY SharedTriple
    <3>3. x \in LockKeys(a.lesson, Day(b.slot))
      BY <1>1, <1>5, <3>1 DEF LockKeys, Together
    <3>4. tally.lockRoom[x] = r.room /\ tally.lock[x] = TripleCount(rows, x)
      BY <3>2 DEF Mirrored, Counted
    <3>5. tally.lock[x] > 0
      BY <3>2, <3>4, EmptyTriple
    <3> QED
      BY <2>2, <3>3, <3>4, <3>5 DEF SwapFits
  <2> QED
    BY <2>1, <2>2
<1> QED
  BY <1>1, <1>4, <1>5 DEF Compatible

\* Two rows that trade slots leave the schedule orderly.
LEMMA SwapOrderly ==
  ASSUME rows \in SUBSET Row, Orderly(rows), Mirrored(rows, used, tally),
         NEW a \in rows, NEW b \in rows, a # b, SwapFits(a, b), SwapFits(b, a),
         NEW a2 \in Row, MovedTo(a2, a, b.slot),
         NEW b2 \in Row, MovedTo(b2, b, a.slot)
  PROVE  /\ Orderly((rows \ {a, b}) \cup {a2, b2})
         /\ (rows \ {a, b}) \cap {a2, b2} = {}
<1> DEFINE K == rows \ {a, b}
<1>1. /\ a2.lesson = a.lesson /\ a2.slot = b.slot /\ a2.room = a.room
      /\ b2.lesson = b.lesson /\ b2.slot = a.slot /\ b2.room = b.room
  BY DEF MovedTo
<1>2. a.slot # b.slot
  <2>1. ~Clash(a, b)
    BY DEF Orderly, NoDoubleBooking
  <2>2. <<a.teacher, a.slot>> \in used.teacher
    BY FreeKeys DEF Mirrored
  <2> QED
    BY <2>1, <2>2 DEF SwapFits, Clash
<1>3. Compatible(a2, b2)
  <2>1. ~Clash(a2, b2)
    BY <1>1, <1>2 DEF Clash
  <2>2. Together(a2, b2) => a.room = b.room
    BY <1>1 DEF Together, Orderly, NoRoomHopping
  <2> QED
    BY <1>1, <2>1, <2>2 DEF Compatible
<1>4. \A r \in K : Compatible(r, a2) /\ Compatible(r, b2)
  <2> TAKE r \in K
  <2>1. r \in rows \ {a, b} /\ r \in rows \ {b, a}
    OBVIOUS
  <2> QED
    BY <2>1, SwapSide
<1>5. K \in SUBSET Row /\ Orderly(K)
  BY PartOfSound DEF Orderly
<1> HIDE DEF K
<1>6. Orderly(K \cup {a2, b2}) /\ K \cap {a2, b2} = {}
  BY <1>3, <1>4, <1>5, AddPairOrderly
<1> QED
  BY <1>6 DEF K

-----------------------------------------------------------------------------
(* Rooms change, nothing else: home-room repair.                            *)

\* A row that takes another room.
MovedIn(p2, p, room) ==
    p2.lesson = p.lesson /\ p2.slot = p.slot /\ p2.room = room /\ p2.teacher = p.teacher

SameCounts(R, S) ==
    /\ \A t \in Teachers : Cardinality({r \in R : r.teacher = t})
                           = Cardinality({r \in S : r.teacher = t})
    /\ \A x \in Triples : TripleCount(R, x) = TripleCount(S, x)

\* What one row counts depends on its lesson, slot and teacher only.
LEMMA OneRow ==
  ASSUME NEW p, NEW p2, NEW room, MovedIn(p2, p, room)
  PROVE  SameCounts({p}, {p2})
<1>1. ASSUME NEW t \in Teachers
      PROVE  Cardinality({r \in {p} : r.teacher = t}) = Cardinality({r \in {p2} : r.teacher = t})
  <2>1. CASE p.teacher = t
    <3>1. {r \in {p} : r.teacher = t} = {p} /\ {r \in {p2} : r.teacher = t} = {p2}
      BY <2>1 DEF MovedIn
    <3> QED
      BY <3>1, FS_Singleton
  <2>2. CASE p.teacher # t
    <3>1. {r \in {p} : r.teacher = t} = {} /\ {r \in {p2} : r.teacher = t} = {}
      BY <2>2 DEF MovedIn
    <3> QED
      BY <3>1
  <2> QED
    BY <2>1, <2>2
<1>2. ASSUME NEW x \in Triples PROVE TripleCount({p}, x) = TripleCount({p2}, x)
  <2> DEFINE in == /\ x[1] \in ClassesOf[p.lesson] /\ Day(p.slot) = x[2]
                   /\ SubjectOf[p.lesson] = x[3]
             T(q) == TripleRows({q}, x[1], x[2], x[3])
  <2>1. CASE in
    <3>1. T(p) = {p} /\ T(p2) = {p2}
      BY <2>1 DEF MovedIn, TripleRows
    <3> HIDE DEF T
    <3>2. Cardinality(T(p)) = Cardinality(T(p2))
      BY <3>1, FS_Singleton
    <3> QED
      BY <3>2 DEF TripleCount, T
  <2>2. CASE ~in
    <3>1. T(p) = {} /\ T(p2) = {}
      BY <2>2 DEF MovedIn, TripleRows
    <3> HIDE DEF T
    <3>2. Cardinality(T(p)) = Cardinality(T(p2))
      BY <3>1
    <3> QED
      BY <3>2 DEF TripleCount, T
  <2> QED
    BY <2>1, <2>2
<1> QED
  BY <1>1, <1>2 DEF SameCounts

\* Rows that count the same may replace one another.
LEMMA SameCountsBeside ==
  ASSUME NEW K \in SUBSET Row, NEW O \in SUBSET Row, NEW N \in SUBSET Row,
         K \cap O = {}, K \cap N = {}, SameCounts(O, N)
  PROVE  SameCounts(K \cup O, K \cup N)
<1>1. ASSUME NEW t \in Teachers
      PROVE  Cardinality({r \in K \cup O : r.teacher = t})
               = Cardinality({r \in K \cup N : r.teacher = t})
  <2> DEFINE H(Q) == Cardinality({r \in Q : r.teacher = t})
  <2>1. H(K \cup O) = H(K) + H(O)
    BY CountsOfUnion
  <2>2. H(K \cup N) = H(K) + H(N)
    BY CountsOfUnion
  <2>3. H(O) = H(N)
    BY DEF SameCounts
  <2> HIDE DEF H
  <2>4. H(K \cup O) = H(K \cup N)
    BY <2>1, <2>2, <2>3
  <2> QED
    BY <2>4 DEF H
<1>2. ASSUME NEW x \in Triples
      PROVE  TripleCount(K \cup O, x) = TripleCount(K \cup N, x)
  <2>1. TripleCount(K \cup O, x) = TripleCount(K, x) + TripleCount(O, x)
    BY CountsOfUnion
  <2>2. TripleCount(K \cup N, x) = TripleCount(K, x) + TripleCount(N, x)
    BY CountsOfUnion
  <2>3. TripleCount(O, x) = TripleCount(N, x)
    BY DEF SameCounts
  <2> QED
    BY <2>1, <2>2, <2>3
<1> QED
  BY <1>1, <1>2 DEF SameCounts

\* So nothing counts differently when a row takes another room.
LEMMA OneRowMoved ==
  ASSUME NEW R \in SUBSET Row, NEW p \in R, NEW p2 \in Row, p2 \notin R \ {p},
         NEW room, MovedIn(p2, p, room)
  PROVE  SameCounts(R, (R \ {p}) \cup {p2})
<1> DEFINE K == R \ {p}
           O == {p}
           N == {p2}
<1>1. K \in SUBSET Row /\ O \in SUBSET Row /\ N \in SUBSET Row
      /\ K \cap O = {} /\ K \cap N = {} /\ R = K \cup O
  OBVIOUS
<1>2. SameCounts(O, N)
  BY OneRow
<1> HIDE DEF K, O, N
<1>3. SameCounts(K \cup O, K \cup N)
  BY <1>1, <1>2, SameCountsBeside
<1> QED
  BY <1>1, <1>3 DEF K, N

\* Counters stay right when rows change rooms and each lock follows its rows.
LEMMA RelockedCounted ==
  ASSUME NEW R \in SUBSET Row, NEW S \in SUBSET Row, NEW b, NEW n,
         Counted(R, b), SameCounts(R, S), NoRoomHopping(S),
         n.hours = b.hours, n.subjectHours = b.subjectHours, n.lock = b.lock,
         \A x \in Triples :
            \/ /\ b.lock[x] > 0
               /\ \E q \in TripleRows(S, x[1], x[2], x[3]) : n.lockRoom[x] = q.room
            \/ /\ n.lockRoom[x] = b.lockRoom[x]
               /\ TripleRows(S, x[1], x[2], x[3]) \subseteq TripleRows(R, x[1], x[2], x[3])
  PROVE  Counted(S, n)
<1>1. \A t \in Teachers : n.hours[t] = Cardinality({r \in S : r.teacher = t})
  BY DEF Counted, SameCounts
<1>2. ASSUME NEW x \in Triples
      PROVE  /\ n.subjectHours[x] = TripleCount(S, x)
             /\ n.lock[x] = TripleCount(S, x)
             /\ TripleCount(S, x) = 0 => n.lockRoom[x] = NoRoom
             /\ \A r \in TripleRows(S, x[1], x[2], x[3]) : n.lockRoom[x] = r.room
  <2> DEFINE T(Q) == TripleRows(Q, x[1], x[2], x[3])
  <2>1. /\ b.subjectHours[x] = TripleCount(S, x) /\ b.lock[x] = TripleCount(S, x)
        /\ TripleCount(S, x) = 0 => b.lockRoom[x] = NoRoom
        /\ \A r \in T(R) : b.lockRoom[x] = r.room
    BY DEF Counted, SameCounts
  <2>2. CASE /\ b.lock[x] > 0
             /\ \E q \in T(S) : n.lockRoom[x] = q.room
    <3>1. PICK q \in T(S) : n.lockRoom[x] = q.room
      BY <2>2
    <3>2. \A r \in T(S) : r.room = q.room
      BY TripleRoom
    <3> QED
      BY <2>1, <2>2, <3>1, <3>2
  <2>3. CASE n.lockRoom[x] = b.lockRoom[x] /\ T(S) \subseteq T(R)
    BY <2>1, <2>3
  <2> QED
    BY <2>2, <2>3
<1> QED
  BY <1>1, <1>2 DEF Counted

\* A relock changes the room of the row's own locks only.
LEMMA RelockFields ==
  ASSUME NEW b \in TallyType, NEW p, NEW room
  PROVE  LET n == RelockRoom(b, p, room)
         IN  /\ n.hours = b.hours /\ n.subjectHours = b.subjectHours
             /\ n.lock = b.lock /\ n.teacherLock = b.teacherLock
             /\ \A x \in Triples : n.lockRoom[x] =
                  IF x \in LockKeys(p.lesson, Day(p.slot)) /\ b.lock[x] > 0
                  THEN room ELSE b.lockRoom[x]
BY DEF RelockRoom, TallyType

\* The checks of one side of a repair keep the row off everyone who is not in
\* the room it takes.
LEMMA RepairSide ==
  ASSUME rows \in SUBSET Row, Orderly(rows), NEW p \in rows, NEW room,
         ~WouldSplit(p, room), NEW p2, MovedIn(p2, p, room),
         NEW r \in rows \ {p}, r.slot = p.slot => r.room # room
  PROVE  Compatible(r, p2)
<1>1. p2.lesson = p.lesson /\ p2.slot = p.slot /\ p2.room = room /\ p2.teacher = p.teacher
  BY DEF MovedIn
<1>2. ~Clash(r, p)
  BY DEF Orderly, NoDoubleBooking
<1>3. ~Clash(r, p2)
  BY <1>1, <1>2 DEF Clash
<1>4. Together(r, p2) => r.room = room
  BY <1>1 DEF Together, WouldSplit
<1> QED
  BY <1>1, <1>3, <1>4 DEF Compatible

\* A row's triples are those whose lock its repair sets.
LEMMA TripleOfRow ==
  ASSUME NEW R, NEW r \in R, NEW x \in Triples
  PROVE  x \in LockKeys(r.lesson, Day(r.slot)) <=> r \in TripleRows(R, x[1], x[2], x[3])
<1>1. x = <<x[1], x[2], x[3]>>
  BY DEF Triples
<1>2. x \in LockKeys(r.lesson, Day(r.slot)) <=>
        x[1] \in ClassesOf[r.lesson] /\ x[2] = Day(r.slot) /\ x[3] = SubjectOf[r.lesson]
  BY <1>1 DEF LockKeys
<1> QED
  BY <1>2 DEF TripleRows

\* Nor when two rows do.
LEMMA TwoRowsMoved ==
  ASSUME NEW R \in SUBSET Row, NEW p \in R, NEW q \in R, p # q,
         NEW room, NEW p2 \in Row, MovedIn(p2, p, room), p2 \notin R \ {p},
         NEW place, NEW q2 \in Row, MovedIn(q2, q, place), q2 \notin R \ {q},
         p2 # q2, p2 # q
  PROVE  SameCounts(R, (R \ {p, q}) \cup {p2, q2})
<1> DEFINE mid == (R \ {p}) \cup {p2}
           S == (R \ {p, q}) \cup {p2, q2}
<1>1. SameCounts(R, mid)
  BY OneRowMoved
<1>2. mid \in SUBSET Row /\ q \in mid /\ q2 \notin mid \ {q}
  OBVIOUS
<1>3. S = (mid \ {q}) \cup {q2}
  OBVIOUS
<1> HIDE DEF mid, S
<1>4. SameCounts(mid, S)
  BY <1>2, <1>3, OneRowMoved
<1>5. SameCounts(R, S)
  BY <1>1, <1>4 DEF SameCounts
<1> QED
  BY <1>5 DEF S

\* Other room keys beside the same teacher and class keys.
LEMMA OtherRoomKeys ==
  ASSUME NEW u \in UsedType, NEW X
  PROVE  LET v == [u EXCEPT !.room = X]
         IN  v = [teacher |-> v.teacher, class |-> v.class, room |-> v.room]
BY DEF UsedType

\* The keys change as if the row had been taken out and put in again.
LEMMA TakenKeys ==
  ASSUME NEW R, NEW u \in UsedType, u = Occupy(Nobody, R), NEW p \in R,
         NEW home, NEW p2, MovedIn(p2, p, home)
  PROVE  [u EXCEPT !.room = (@ \ {<<p.room, p.slot>>}) \cup {<<home, p.slot>>}]
           = Occupy(Vacate(u, {p}), {p2})
<1> DEFINE v == [u EXCEPT !.room = (@ \ {<<p.room, p.slot>>}) \cup {<<home, p.slot>>}]
<1>1. p2.lesson = p.lesson /\ p2.slot = p.slot /\ p2.room = home /\ p2.teacher = p.teacher
  BY DEF MovedIn
<1>2. /\ <<p.teacher, p.slot>> \in u.teacher
      /\ \A c \in ClassesOf[p.lesson] : <<c, p.slot>> \in u.class
  BY FreeKeys
<1>3. /\ TeacherKeys({p2}) = TeacherKeys({p}) /\ TeacherKeys({p}) \subseteq u.teacher
      /\ RoomKeys({p}) = {<<p.room, p.slot>>} /\ RoomKeys({p2}) = {<<home, p.slot>>}
  BY <1>1, <1>2 DEF TeacherKeys, RoomKeys
<1>4. ClassKeys({p2}) = ClassKeys({p}) /\ ClassKeys({p}) \subseteq u.class
  BY <1>1, <1>2 DEF ClassKeys
<1>5. /\ v.teacher = (u.teacher \ TeacherKeys({p})) \cup TeacherKeys({p2})
      /\ v.class = (u.class \ ClassKeys({p})) \cup ClassKeys({p2})
      /\ v.room = (u.room \ RoomKeys({p})) \cup RoomKeys({p2})
  BY <1>3, <1>4 DEF UsedType
<1>6. v = [teacher |-> v.teacher, class |-> v.class, room |-> v.room]
  BY OtherRoomKeys
<1> HIDE DEF v
<1>7. v = Occupy(Vacate(u, {p}), {p2})
  BY <1>5, <1>6 DEF Occupy, Vacate
<1> QED
  BY <1>7 DEF v

\* A trade of rooms in one slot leaves the keys as they are.
LEMMA TradedKeys ==
  ASSUME NEW R, NEW u \in UsedType, u = Occupy(Nobody, R), NEW p \in R, NEW q \in R,
         q.slot = p.slot, NEW p2, MovedIn(p2, p, q.room), NEW q2, MovedIn(q2, q, p.room)
  PROVE  u = Occupy(Vacate(u, {p, q}), {p2, q2})
<1> DEFINE O == {p, q}
           N == {p2, q2}
<1>1. /\ p2.lesson = p.lesson /\ p2.slot = p.slot /\ p2.room = q.room /\ p2.teacher = p.teacher
      /\ q2.lesson = q.lesson /\ q2.slot = p.slot /\ q2.room = p.room /\ q2.teacher = q.teacher
  BY DEF MovedIn
<1>2. \A r \in O : /\ <<r.teacher, r.slot>> \in u.teacher
                   /\ <<r.room, r.slot>> \in u.room
                   /\ \A c \in ClassesOf[r.lesson] : <<c, r.slot>> \in u.class
  BY FreeKeys
<1>3. TeacherKeys(N) = TeacherKeys(O) /\ TeacherKeys(O) \subseteq u.teacher
  BY <1>1, <1>2 DEF TeacherKeys
<1>4. RoomKeys(N) = RoomKeys(O) /\ RoomKeys(O) \subseteq u.room
  BY <1>1, <1>2 DEF RoomKeys
<1>5. ClassKeys(N) = ClassKeys(O) /\ ClassKeys(O) \subseteq u.class
  BY <1>1, <1>2 DEF ClassKeys
<1>6. u = [teacher |-> u.teacher, class |-> u.class, room |-> u.room]
  BY DEF UsedType
<1> HIDE DEF O, N
<1>7. /\ u.teacher = (u.teacher \ TeacherKeys(O)) \cup TeacherKeys(N)
      /\ u.class = (u.class \ ClassKeys(O)) \cup ClassKeys(N)
      /\ u.room = (u.room \ RoomKeys(O)) \cup RoomKeys(N)
  BY <1>3, <1>4, <1>5
<1>8. u = Occupy(Vacate(u, O), N)
  BY <1>6, <1>7 DEF Occupy, Vacate
<1> QED
  BY <1>8 DEF O, N

\* Both locks of a trade are set, the second over the first.
LEMMA TradedLocks ==
  ASSUME NEW b \in TallyType, NEW p \in Row, NEW home \in Rooms, NEW q, NEW place
  PROVE  LET n == RelockRoom(RelockRoom(b, p, home), q, place)
         IN  /\ n.hours = b.hours /\ n.subjectHours = b.subjectHours
             /\ n.lock = b.lock /\ n.teacherLock = b.teacherLock
             /\ \A x \in Triples : n.lockRoom[x] =
                  IF x \in LockKeys(q.lesson, Day(q.slot)) /\ b.lock[x] > 0 THEN place
                  ELSE IF x \in LockKeys(p.lesson, Day(p.slot)) /\ b.lock[x] > 0 THEN home
                  ELSE b.lockRoom[x]
<1> DEFINE a == RelockRoom(b, p, home)
           n == RelockRoom(a, q, place)
<1>1. /\ a.hours = b.hours /\ a.subjectHours = b.subjectHours
      /\ a.lock = b.lock /\ a.teacherLock = b.teacherLock
      /\ \A x \in Triples : a.lockRoom[x] =
           IF x \in LockKeys(p.lesson, Day(p.slot)) /\ b.lock[x] > 0
           THEN home ELSE b.lockRoom[x]
  BY RelockFields
<1>2. a \in TallyType
  BY LocksType
<1> HIDE DEF a
<1>3. /\ n.hours = a.hours /\ n.subjectHours = a.subjectHours
      /\ n.lock = a.lock /\ n.teacherLock = a.teacherLock
      /\ \A x \in Triples : n.lockRoom[x] =
           IF x \in LockKeys(q.lesson, Day(q.slot)) /\ a.lock[x] > 0
           THEN place ELSE a.lockRoom[x]
  BY <1>2, RelockFields
<1> HIDE DEF n
<1>4. /\ n.hours = b.hours /\ n.subjectHours = b.subjectHours
      /\ n.lock = b.lock /\ n.teacherLock = b.teacherLock
      /\ \A x \in Triples : n.lockRoom[x] =
           IF x \in LockKeys(q.lesson, Day(q.slot)) /\ b.lock[x] > 0 THEN place
           ELSE IF x \in LockKeys(p.lesson, Day(p.slot)) /\ b.lock[x] > 0 THEN home
           ELSE b.lockRoom[x]
  BY <1>1, <1>3
<1> QED
  BY <1>4 DEF n, a

-----------------------------------------------------------------------------
(* The inductive invariant.                                                 *)

\* What an undo would go back to.
Base == (rows \ UNION attempt.added) \cup attempt.ruined

Rebuildable ==
    /\ UNION attempt.added \subseteq rows
    /\ attempt.ruined \cap (rows \ UNION attempt.added) = {}
    /\ Unpinned(UNION attempt.added) /\ Unpinned(attempt.ruined)
    /\ \A i \in 1..Len(attempt.todo) : attempt.todo[i] \notin Pinned
    /\ Orderly(Base) /\ LocksHold(Base, attempt.locks)

Inv ==
    /\ TypeOK
    /\ Orderly(rows) /\ PinsIn(rows)
    /\ phase # "done" => Mirrored(rows, used, tally)
    /\ phase \in {"rescue", "recreate"} => Rebuildable
    /\ phase # "ffd" => Orderly(best) /\ PinsIn(best)
    /\ \A l \in Pinned : left[l] = 0

-----------------------------------------------------------------------------
(* Initial states.                                                          *)

\* An empty schedule is counted by empty counters.
LEMMA EmptyCounted == Counted({}, EmptyTally)
<1>1. ASSUME NEW x \in Triples
      PROVE  TripleCount({}, x) = 0 /\ TripleRows({}, x[1], x[2], x[3]) = {}
  <2>1. TripleRows({}, x[1], x[2], x[3]) = {}
    BY DEF TripleRows
  <2> QED
    BY <2>1, FS_EmptySet DEF TripleCount
<1>2. ASSUME NEW t \in Teachers PROVE Cardinality({r \in {} : r.teacher = t}) = 0
  <2>1. {r \in {} : r.teacher = t} = {}
    OBVIOUS
  <2> QED
    BY <2>1, FS_EmptySet
<1> QED
  BY <1>1, <1>2 DEF Counted, EmptyTally

\* The seeded pins satisfy the invariant.
LEMMA InitInv == Init => Inv
<1> SUFFICES ASSUME Init PROVE Inv
  OBVIOUS
<1> DEFINE P == PinnedRows
           b == CountIn(EmptyTally, P)
<1>1. TypeOK
  BY InitType
<1>2. rows = P /\ P \in SUBSET Row /\ Orderly(P)
  BY SearchAssumption, ProblemAssumption DEF Init, Orderly, ValidLessons, ValidGroups
<1>3. PinsIn(rows)
  BY <1>2 DEF PinsIn, Pinned
<1>4. Counted(P, b) /\ b \in TallyType
  <2>1. {} \cup P = P /\ {} \cap P = {} /\ {} \in SUBSET Row
    OBVIOUS
  <2>2. Counted({} \cup P, b)
    BY <1>2, <2>1, EmptyCounted, EmptyType, CountInMirror DEF Orderly
  <2> QED
    BY <1>2, <2>1, <2>2, EmptyType, CountType
<1>5. Counted(rows, tally) /\ tally.teacherLock = SeedLocks
  <2> HIDE DEF b
  <2>1. tally = [b EXCEPT !.lessonsOn = SeedLessons, !.teacherLock = SeedLocks]
    BY DEF Init, b
  <2> QED
    BY <1>2, <1>4, <2>1 DEF Counted, TallyType
<1>6. LocksHold(P, SeedLocks)
  <2> SUFFICES ASSUME NEW r \in P, NEW c \in ClassesOf[r.lesson]
               PROVE  SeedLocks[<<c, SubjectOf[r.lesson]>>] = r.teacher
    BY DEF LocksHold
  <2> DEFINE x == <<c, SubjectOf[r.lesson]>>
             pins == {q \in PinnedRows : x[1] \in ClassesOf[q.lesson]
                                          /\ SubjectOf[q.lesson] = x[2]}
  <2>1. x \in Classes \X Subjects
    BY <1>2, RowTriple
  <2>2. r \in pins
    OBVIOUS
  <2>3. SeedLocks[x] = (CHOOSE q \in pins : TRUE).teacher
    BY <2>1, <2>2 DEF SeedLocks
  <2>4. (CHOOSE q \in pins : TRUE) \in pins
    BY <2>2
  <2>5. \A q \in pins : q.teacher = r.teacher
    BY SearchAssumption DEF OneTeacherPerClassSubject
  <2> HIDE DEF pins
  <2> QED
    BY <2>3, <2>4, <2>5
<1>7. Mirrored(rows, used, tally)
  BY <1>2, <1>5, <1>6 DEF Mirrored, Init
<1>8. ASSUME NEW l \in Pinned PROVE left[l] = 0
  <2>1. l \in Lessons
    BY <1>2 DEF Pinned, Row
  <2> QED
    BY <2>1 DEF Init, Frozen
<1>9. phase = "ffd"
  BY DEF Init
<1> QED
  BY <1>1, <1>2, <1>3, <1>7, <1>8, <1>9 DEF Inv

-----------------------------------------------------------------------------
(* Steps.                                                                   *)

\* Moving rows of lessons that are not pinned leaves the pins.
LEMMA PinsKept ==
  ASSUME NEW R, PinsIn(R), NEW O, Unpinned(O), NEW N, Unpinned(N)
  PROVE  PinsIn((R \ O) \cup N)
BY DEF PinsIn, Unpinned

\* The running best is one of two schedules.
LEMMA EndIterationKeeps ==
  ASSUME NEW R, Orderly(R), PinsIn(R), Orderly(best), PinsIn(best), EndIteration(R)
  PROVE  Orderly(best') /\ PinsIn(best')
<1>1. best' = R \/ best' = best
  BY DEF EndIteration
<1> QED
  BY <1>1

\* What an iteration that moves rows in one step has to show.
LEMMA MovedInv ==
  ASSUME Inv, TypeOK', phase = "search", UNCHANGED <<phase, left>>, EndIteration(rows'),
         Orderly(rows'), PinsIn(rows'), Mirrored(rows', used', tally')
  PROVE  Inv'
<1>1. Orderly(best') /\ PinsIn(best')
  BY EndIterationKeeps DEF Inv
<1> QED
  BY <1>1 DEF Inv

\* The greedy loop places a block of a lesson that is not pinned.
LEMMA FfdPlaceInv ==
  ASSUME Inv, TypeOK', NEW l \in Lessons, FfdPlace(l)
  PROVE  Inv'
<1>1. l \notin Pinned
  BY DEF FfdPlace, FfdTurn, Inv
<1>2. PICK s \in Slots, room \in Rooms, t \in Teachers : Place(l, s, room, t)
  BY DEF FfdPlace
<1>3. /\ Orderly(rows') /\ Mirrored(rows', used', tally')
      /\ rows' = rows \cup Block(l, s, room, t)
  BY <1>2, PlaceKeeps DEF Inv, FfdPlace, FfdTurn
<1>4. Unpinned(Block(l, s, room, t))
  BY <1>1, BlockRows DEF Unpinned
<1>5. PinsIn(rows')
  BY <1>3, <1>4 DEF PinsIn, Unpinned, Inv
<1>6. \A m \in Pinned : left'[m] = 0
  BY <1>1 DEF FfdPlace, Inv, TypeOK
<1>7. phase' = "ffd"
  BY DEF FfdPlace, FfdTurn
<1> QED
  BY <1>3, <1>5, <1>6, <1>7 DEF Inv

\* The greedy loop gives up a block.
LEMMA FfdMissInv ==
  ASSUME Inv, TypeOK', NEW l \in Lessons, FfdMiss(l)
  PROVE  Inv'
<1>1. l \notin Pinned
  BY DEF FfdMiss, FfdTurn, Inv
<1>2. \A m \in Pinned : left'[m] = 0
  BY <1>1 DEF FfdMiss, Inv, TypeOK
<1>3. phase' = "ffd" /\ phase = "ffd" /\ UNCHANGED <<rows, used, tally>>
  BY DEF FfdMiss, FfdTurn
<1> QED
  BY <1>2, <1>3 DEF Inv

\* The local search starts with what the greedy loop built.
LEMMA FfdEndInv == ASSUME Inv, TypeOK', FfdEnd PROVE Inv'
BY DEF FfdEnd, Inv

\* There is nothing to ruin.
LEMMA NothingToRuinInv == ASSUME Inv, TypeOK', NothingToRuin PROVE Inv'
<1>1. /\ phase = "ruin" /\ phase' = "search" /\ EndIteration(rows)
      /\ UNCHANGED <<rows, used, tally, left>>
  BY DEF NothingToRuin
<1>2. Orderly(best') /\ PinsIn(best')
  BY <1>1, EndIterationKeeps DEF Inv
<1> QED
  BY <1>1, <1>2 DEF Inv

\* A rebuilt schedule is kept.
LEMMA KeepInv == ASSUME Inv, TypeOK', Keep PROVE Inv'
<1>1. /\ phase \in {"rescue", "recreate"} /\ phase' = "search" /\ EndIteration(rows)
      /\ UNCHANGED <<rows, used, tally, left>>
  BY DEF Keep, Rebuilt
<1>2. Orderly(best') /\ PinsIn(best')
  BY <1>1, EndIterationKeeps DEF Inv
<1> QED
  BY <1>1, <1>2 DEF Inv

\* The running best is returned.
LEMMA FinishInv == ASSUME Inv, TypeOK', Finish PROVE Inv'
BY DEF Finish, Inv

\* A ruin leaves a schedule that can be rebuilt to what it was.
LEMMA RuinedInv ==
  ASSUME Inv, TypeOK', phase \in {"search", "ruin"}, phase' \in {"rescue", "recreate"},
         NEW R \in SUBSET rows, Unpinned(R), TakeOut(R),
         attempt'.ruined = R, attempt'.added = {}, attempt'.locks = tally.teacherLock,
         \A i \in 1..Len(attempt'.todo) : attempt'.todo[i] \notin Pinned,
         UNCHANGED <<left, best>>
  PROVE  Inv'
<1>1. Orderly(rows) /\ Mirrored(rows, used, tally) /\ PinsIn(rows) /\ TypeOK
      /\ Orderly(best) /\ PinsIn(best)
  BY DEF Inv
<1>2. Orderly(rows') /\ Mirrored(rows', used', tally') /\ rows' = rows \ R
  BY <1>1, TakeOutKeeps
<1>3. PinsIn(rows')
  BY <1>1, <1>2 DEF PinsIn, Unpinned
<1>4. Base' = rows /\ UNION attempt'.added = {}
  BY <1>2 DEF Base
<1>5. Rebuildable'
  BY <1>1, <1>2, <1>4 DEF Rebuildable, Mirrored, Unpinned
<1>6. \A l \in Pinned : left'[l] = 0
  BY DEF Inv
<1> QED
  BY <1>1, <1>2, <1>3, <1>5, <1>6 DEF Inv

\* A rescue ruins an underplaced lesson and a sibling.
LEMMA RescueInv ==
  ASSUME Inv, TypeOK', NEW l \in Lessons, Rescue(l)
  PROVE  Inv'
<1>1. PICK r \in Siblings(l) :
        LET R == RowsOf(rows, l) \cup RowsOfOn(rows, r.lesson, Day(r.slot))
        IN  /\ TakeOut(R)
            /\ attempt' = [NoAttempt EXCEPT
                 !.ruined = R,
                 !.todo = Append([i \in 1..Blocks(l) |-> l], r.lesson),
                 !.goal = {<<l, Cardinality(RowsOf(rows, l))>>},
                 !.locks = tally.teacherLock]
  BY DEF Rescue
<1> DEFINE R == RowsOf(rows, l) \cup RowsOfOn(rows, r.lesson, Day(r.slot))
           turns == [i \in 1..Blocks(l) |-> l]
<1>2. l \notin Pinned /\ r.lesson \notin Pinned
  BY DEF Rescue, Targets, Siblings, Frozen
<1>3. R \in SUBSET rows /\ Unpinned(R)
  BY <1>2 DEF RowsOf, RowsOfOn, Unpinned
<1>4. /\ attempt'.ruined = R /\ attempt'.added = {}
      /\ attempt'.locks = tally.teacherLock
      /\ attempt'.todo = Append(turns, r.lesson)
  <2> HIDE DEF R, turns
  <2> QED
    BY <1>1 DEF NoAttempt, R, turns
<1>5. \A i \in 1..Len(attempt'.todo) : attempt'.todo[i] \notin Pinned
  <2>1. Blocks(l) \in Nat /\ r.lesson \in Lessons
    <3>1. Blocks(l) \in Nat
      BY BlocksType
    <3>2. r \in Row
      BY DEF Siblings, Inv, TypeOK
    <3> QED
      BY <3>1, <3>2 DEF Row
  <2>2. turns \in Seq(Lessons) /\ Len(turns) = Blocks(l)
    BY <2>1, SeqDef
  <2>3. \A i \in 1..Blocks(l) : turns[i] = l
    OBVIOUS
  <2> HIDE DEF turns
  <2>4. \A i \in 1..Len(Append(turns, r.lesson)) :
          Append(turns, r.lesson)[i] = l \/ Append(turns, r.lesson)[i] = r.lesson
    BY <2>1, <2>2, <2>3
  <2> QED
    BY <1>2, <1>4, <2>4
<1> HIDE DEF R
<1>6. TakeOut(R)
  BY <1>1 DEF R
<1> QED
  BY <1>3, <1>4, <1>5, <1>6, RuinedInv DEF Rescue

\* Ruin-and-recreate ruins its choice of anchors.
LEMMA RuinInv == ASSUME Inv, TypeOK', Ruin PROVE Inv'
<1> DEFINE n == IF RuinSize < Cardinality(Anchors) THEN RuinSize
                                                   ELSE Cardinality(Anchors)
<1>1. PICK chosen \in [1..n -> Anchors] :
        LET R == UNION {chosen[i] : i \in 1..n}
        IN  /\ TakeOut(R)
            /\ attempt' = [NoAttempt EXCEPT
                  !.ruined = R,
                  !.todo = [i \in 1..n |-> LessonOf(chosen[i])],
                  !.locks = tally.teacherLock]
  BY DEF Ruin
<1> DEFINE R == UNION {chosen[i] : i \in 1..n}
           turns == [i \in 1..n |-> LessonOf(chosen[i])]
<1>2. n \in Nat
  <2>1. Anchors \in SUBSET SUBSET Row
    BY DEF Anchors, BlocksOf, RowsOfOn, Inv, TypeOK
  <2>2. IsFiniteSet(SUBSET Row)
    BY RowFinite, FS_SUBSET
  <2>3. Cardinality(Anchors) \in Nat
    BY <2>1, <2>2, FS_Subset, FS_CardinalityType
  <2> QED
    BY <2>3, SearchAssumption
<1>3. \A B \in Anchors : B \in SUBSET rows /\ B # {} /\ Unpinned(B)
                         /\ LessonOf(B) \notin Pinned
  <2>1. \A B \in Anchors : B \in SUBSET rows /\ B # {} /\ Unpinned(B)
    BY DEF Anchors, BlocksOf, RowsOfOn, Unpinned, Frozen
  <2> QED
    BY <2>1 DEF LessonOf, Unpinned
<1> HIDE DEF n
<1>4. R \in SUBSET rows /\ Unpinned(R)
  BY <1>3 DEF Unpinned
<1>5. /\ attempt'.ruined = R /\ attempt'.added = {}
      /\ attempt'.locks = tally.teacherLock
      /\ attempt'.todo = turns
  <2> HIDE DEF R, turns
  <2> QED
    BY <1>1 DEF NoAttempt, R, turns
<1>6. \A i \in 1..Len(attempt'.todo) : attempt'.todo[i] \notin Pinned
  BY <1>2, <1>3, <1>5
<1> HIDE DEF R
<1>7. TakeOut(R)
  BY <1>1 DEF R
<1> QED
  BY <1>4, <1>5, <1>6, <1>7, RuinedInv DEF Ruin

\* One more block.
LEMMA UnionOfMore ==
  ASSUME NEW S, NEW B, NEW T, T = S \cup {B}
  PROVE  UNION T = (UNION S) \cup B
OBVIOUS

\* A rebuilt block leaves what an undo would go back to.
LEMMA RebuildPlaceInv ==
  ASSUME Inv, TypeOK', NEW l \in Lessons, RebuildPlace(l)
  PROVE  /\ Inv' /\ Base' = Base /\ l \notin Pinned
         /\ attempt.todo # <<>> /\ l = Head(attempt.todo)
         /\ attempt'.todo = Tail(attempt.todo)
         /\ attempt'.ruined = attempt.ruined /\ attempt'.locks = attempt.locks
         /\ attempt.failed => attempt'.failed
         /\ \E s \in Slots, room \in Rooms, t \in Teachers : \E B :
              /\ B = Block(l, s, room, t) /\ Place(l, s, room, t) /\ B \in SUBSET Row
              /\ rows' = rows \cup B /\ rows \cap B = {}
              /\ UNION attempt.added \subseteq rows
              /\ UNION attempt'.added = (UNION attempt.added) \cup B
<1>1. PICK s \in Slots, room \in Rooms, t \in Teachers :
        /\ Place(l, s, room, t)
        /\ attempt' = [attempt EXCEPT
             !.todo = Tail(@),
             !.added = @ \cup {Block(l, s, room, t)},
             !.heads = IF HeadsGroup(l) THEN @ \cup {Block(l, s, room, t)} ELSE @,
             !.failed = @ \/ Collides(l, Day(s))]
  BY DEF RebuildPlace
<1> DEFINE B == Block(l, s, room, t)
<1>2. phase \in {"rescue", "recreate"} /\ UNCHANGED <<phase, left, best>>
      /\ attempt.todo # <<>> /\ l = Head(attempt.todo)
  BY DEF RebuildPlace, Rebuilding
<1>3. Rebuildable /\ TypeOK
  BY <1>2 DEF Inv
<1>4. attempt.todo \in Seq(Lessons) /\ attempt \in AttemptType
  BY <1>3 DEF TypeOK, AttemptType
<1>5. l \notin Pinned /\ \A i \in 1..Len(Tail(attempt.todo)) : Tail(attempt.todo)[i] \notin Pinned
  <2> DEFINE todo == attempt.todo
  <2>1. \A i \in 1..Len(todo) : todo[i] \notin Pinned
    BY <1>3 DEF Rebuildable
  <2>2. todo \in Seq(Lessons) /\ todo # <<>> /\ l = Head(todo)
    BY <1>2, <1>4
  <2> HIDE DEF todo
  <2>3. /\ Head(todo) = todo[1] /\ 1 \in 1..Len(todo)
        /\ Len(Tail(todo)) = Len(todo) - 1
        /\ \A i \in 1..Len(Tail(todo)) : Tail(todo)[i] = todo[i + 1] /\ i + 1 \in 1..Len(todo)
    BY <2>2, HeadTailProperties
  <2>4. l \notin Pinned /\ \A i \in 1..Len(Tail(todo)) : Tail(todo)[i] \notin Pinned
    BY <2>1, <2>2, <2>3
  <2> QED
    BY <2>4 DEF todo
<1>6. /\ Orderly(rows') /\ Mirrored(rows', used', tally')
      /\ rows' = rows \cup B /\ rows \cap B = {}
  BY <1>1, <1>2, PlaceKeeps DEF Inv
<1>7. Unpinned(B)
  BY <1>5, BlockRows DEF Unpinned
<1>8. PinsIn(rows')
  BY <1>6, <1>7 DEF PinsIn, Unpinned, Inv
<1> HIDE DEF B
<1>9. /\ attempt'.todo = Tail(attempt.todo) /\ attempt'.added = attempt.added \cup {B}
      /\ attempt'.ruined = attempt.ruined /\ attempt'.locks = attempt.locks
  BY <1>1, <1>4 DEF AttemptType, B
<1>10. UNION attempt'.added = (UNION attempt.added) \cup B
  BY <1>9, UnionOfMore, Zenon
<1>11. rows' \ UNION attempt'.added = rows \ UNION attempt.added
  <2> DEFINE U == UNION attempt.added
             V == UNION attempt'.added
  <2>1. V = U \cup B
    BY <1>10
  <2> HIDE DEF U, V
  <2>2. rows' \ V = rows \ U
    BY <1>6, <2>1
  <2> QED
    BY <2>2 DEF U, V
<1>12. Base' = Base
  BY <1>9, <1>11 DEF Base
<1>13. Rebuildable'
  BY <1>3, <1>5, <1>6, <1>7, <1>9, <1>10, <1>11, <1>12 DEF Rebuildable, Unpinned
<1>14. Inv'
  BY <1>2, <1>6, <1>8, <1>13 DEF Inv
<1>15. attempt.failed => attempt'.failed
  BY <1>1, <1>4 DEF AttemptType
<1>16. Place(l, s, room, t) /\ B \in SUBSET Row /\ UNION attempt.added \subseteq rows
  BY <1>1, <1>3, PlaceType DEF Place, TypeOK, CanPlace, Rebuildable, B
<1> QED
  BY <1>2, <1>5, <1>6, <1>9, <1>10, <1>12, <1>14, <1>15, <1>16 DEF B

\* A block that cannot be rebuilt shortens the list of those to do.
LEMMA RebuildMissInv ==
  ASSUME Inv, TypeOK', NEW l \in Lessons, RebuildMiss(l)
  PROVE  Inv'
<1> DEFINE todo == attempt.todo
           next == IF phase = "rescue" /\ Len(todo) > 1 THEN <<todo[Len(todo)]>>
                                                        ELSE Tail(todo)
<1>1. phase \in {"rescue", "recreate"} /\ UNCHANGED <<phase, rows, used, tally, left, best>>
      /\ todo # <<>>
  BY DEF RebuildMiss, Rebuilding
<1>2. Rebuildable /\ attempt \in AttemptType /\ todo \in Seq(Lessons)
  BY <1>1 DEF Inv, TypeOK, AttemptType
<1>3. attempt'.todo = next /\ attempt'.added = attempt.added
      /\ attempt'.ruined = attempt.ruined /\ attempt'.locks = attempt.locks
  <2>1. attempt' = [attempt EXCEPT
          !.todo = next,
          !.failed = @ \/ phase = "recreate" \/ Len(attempt.todo) = 1]
    BY DEF RebuildMiss
  <2> HIDE DEF next
  <2> QED
    BY <1>2, <2>1 DEF AttemptType
<1>4. \A i \in 1..Len(next) : next[i] \notin Pinned
  <2>1. \A i \in 1..Len(todo) : todo[i] \notin Pinned
    BY <1>2 DEF Rebuildable
  <2> HIDE DEF todo
  <2>2. /\ Len(todo) \in 1..Len(todo)
        /\ Len(Tail(todo)) = Len(todo) - 1
        /\ \A i \in 1..Len(Tail(todo)) : Tail(todo)[i] = todo[i + 1] /\ i + 1 \in 1..Len(todo)
    BY <1>1, <1>2, HeadTailProperties
  <2>3. CASE next = <<todo[Len(todo)]>>
    BY <2>1, <2>2, <2>3
  <2>4. CASE next = Tail(todo)
    BY <2>1, <2>2, <2>4
  <2> QED
    BY <2>3, <2>4
<1> HIDE DEF next
<1>5. Rebuildable'
  BY <1>1, <1>2, <1>3, <1>4 DEF Rebuildable, Base
<1> QED
  BY <1>1, <1>5 DEF Inv

\* An undo goes back to the schedule before the ruin, locks included.
LEMMA UndoInv ==
  ASSUME Inv, TypeOK', Undo
  PROVE  Inv' /\ rows' = Base /\ tally'.teacherLock = attempt.locks
<1> DEFINE R == UNION attempt.added
           N == attempt.ruined
           b0 == Recount(tally, R, N)
           b1 == FewerLessons(b0, attempt.heads, 1)
           b2 == MoreLessons(b1, BlocksOf(N), 1)
<1>1. /\ phase \in {"rescue", "recreate"} /\ phase' \in {"ruin", "search"}
      /\ rows' = (rows \ R) \cup N
      /\ used' = Occupy(Vacate(used, R), N)
      /\ tally' = [b2 EXCEPT !.teacherLock = attempt.locks]
      /\ UNCHANGED left
  BY DEF Undo, Rebuilt
<1>2. Rebuildable /\ TypeOK /\ Orderly(rows) /\ Mirrored(rows, used, tally)
      /\ PinsIn(rows) /\ Orderly(best) /\ PinsIn(best)
  BY <1>1 DEF Inv
<1>3. /\ rows \in SUBSET Row /\ tally \in TallyType /\ N \in SUBSET Row
      /\ attempt.heads \in SUBSET SUBSET Row /\ attempt.locks \in LockType
  BY <1>2 DEF TypeOK, AttemptType
<1>4. /\ R \in SUBSET rows /\ (rows \ R) \cap N = {} /\ Unpinned(R) /\ Unpinned(N)
      /\ Orderly((rows \ R) \cup N) /\ LocksHold((rows \ R) \cup N, attempt.locks)
  BY <1>2 DEF Rebuildable, Base
<1>5. BlocksOf(N) \in SUBSET SUBSET Row
  BY <1>3 DEF BlocksOf, RowsOfOn
<1> HIDE DEF R, N
<1>6. /\ used' = Occupy(Nobody, rows')
      /\ Counted(rows', b0) /\ b0 \in TallyType
  BY <1>1, <1>2, <1>3, <1>4, ReplaceKeeps DEF Mirrored
<1>7. Counted(rows', b1) /\ b1 \in TallyType
  <2> HIDE DEF b0
  <2> QED
    BY <1>3, <1>6, CountedSame, LessonsType
<1>8. Counted(rows', b2) /\ b2 \in TallyType
  <2> HIDE DEF b1
  <2> QED
    BY <1>5, <1>7, CountedSame, LessonsType
<1>9. Counted(rows', tally') /\ tally'.teacherLock = attempt.locks
  <2> HIDE DEF b2
  <2> QED
    BY <1>1, <1>8, CountedSame DEF TallyType
<1>10. Mirrored(rows', used', tally')
  BY <1>1, <1>4, <1>6, <1>9 DEF Mirrored
<1>11. Orderly(rows') /\ PinsIn(rows')
  BY <1>1, <1>2, <1>4, PinsKept
<1>12. Orderly(best') /\ PinsIn(best')
  <2>1. CASE phase = "rescue"
    BY <2>1, <1>2 DEF Undo
  <2>2. CASE phase # "rescue"
    BY <2>2, <1>2, <1>11, EndIterationKeeps DEF Undo
  <2> QED
    BY <2>1, <2>2
<1>13. Inv'
  BY <1>1, <1>10, <1>11, <1>12 DEF Inv
<1>14. rows' = Base
  BY <1>1 DEF R, N, Base
<1> QED
  BY <1>9, <1>13, <1>14

\* The room a Change takes is that of every other row of the triples it joins:
\* a room lock may be ignored only when the moved rows alone hold it.
LEMMA ChangeRoomShared ==
  ASSUME TypeOK, Orderly(rows), Mirrored(rows, used, tally),
         NEW l \in Lessons, NEW R \in Sources(l), NEW s \in Slots,
         NEW old, NEW own, NEW W, \A r \in R : old.day = Day(r.slot),
         NEW room \in ChangeRooms(l, old, Day(s), W, own),
         NEW r \in rows \ R, Day(r.slot) = Day(s), SubjectOf[r.lesson] = SubjectOf[l],
         ClassesOf[r.lesson] \cap ClassesOf[l] # {}
  PROVE  r.room = room
<1>1. PICK c \in ClassesOf[r.lesson] : c \in ClassesOf[l]
  OBVIOUS
<1> DEFINE x == <<c, Day(s), SubjectOf[l]>>
           T == TripleRows(rows, x[1], x[2], x[3])
<1>2. rows \in SUBSET Row /\ Counted(rows, tally) /\ R \in SUBSET rows
      /\ Cardinality(R) = BlockSize[l] /\ \A q \in R : q.lesson = l
  BY SourceRows DEF TypeOK, Mirrored
<1>3. x \in Triples /\ r \in T /\ TripleCount(rows, x) # 0
  BY <1>1, <1>2, SharedTriple
<1>4. tally.lock[x] = TripleCount(rows, x) /\ tally.lockRoom[x] = r.room
  BY <1>2, <1>3 DEF Counted
<1>5. tally.lock[x] > 0
  BY <1>2, <1>3, <1>4, EmptyTriple
<1>6. ~(old.day = Day(s) /\ tally.lock[x] = BlockSize[l])
  <2> SUFFICES ASSUME old.day = Day(s), tally.lock[x] = BlockSize[l] PROVE FALSE
    OBVIOUS
  <2>1. R \subseteq T
    BY <1>1, <1>2 DEF TripleRows
  <2>2. T = R
    BY <1>2, <1>3, <2>1, LockHeldByOther
  <2> QED
    BY <1>3, <2>2
<1>7. x \in LockKeys(l, Day(s))
  BY <1>1 DEF LockKeys
<1> HIDE DEF x, T
<1> DEFINE held == {y \in LockKeys(l, Day(s)) :
                      /\ tally.lock[y] > 0
                      /\ ~(old.day = Day(s) /\ tally.lock[y] = BlockSize[l])}
           locked == {tally.lockRoom[y] : y \in held}
<1>8. r.room \in locked
  BY <1>4, <1>5, <1>6, <1>7
<1>9. locked # {} => locked = {room}
  <2> HIDE DEF held
  <2> QED
    BY DEF ChangeRooms, held
<1> HIDE DEF locked
<1> QED
  BY <1>8, <1>9

\* And no other row keeps that room in any slot of the destination.
LEMMA ChangeRoomFree ==
  ASSUME TypeOK, Orderly(rows), Mirrored(rows, used, tally),
         NEW l \in Lessons, NEW R \in Sources(l),
         NEW old, NEW W, NEW d, \A r \in R : old.room = r.room,
         NEW room \in ChangeRooms(l, old, d, W, {q.slot : q \in R}),
         NEW r \in rows \ R, r.slot \in W
  PROVE  r.room # room
<1> DEFINE own == {q.slot : q \in R}
<1>1. RoomFits(l, room, IF room = old.room THEN W \ own ELSE W)
  <2> HIDE DEF own
  <2> QED
    BY DEF ChangeRooms, own
<1>2. <<r.room, r.slot>> \in used.room
  BY FreeKeys DEF Mirrored
<1>3. CASE room = old.room /\ r.slot \in own
  <2>1. PICK q \in R : q.slot = r.slot
    BY <1>3
  <2>2. q \in rows /\ q # r
    BY SourceRows DEF Mirrored
  <2> QED
    BY <1>3, <2>1, <2>2 DEF Orderly, NoDoubleBooking, Clash
<1>4. CASE ~(room = old.room /\ r.slot \in own)
  BY <1>1, <1>2, <1>4 DEF RoomFits
<1> QED
  BY <1>3, <1>4

\* What a Change does: the rows R of l become the block B.
MoveBlock(l, R, s, room, t, B) ==
    /\ B = Block(l, s, room, t)
    /\ rows' = (rows \ R) \cup B /\ (rows \ R) \cap B = {}
    /\ Window(s, BlockSize[l]) # {r.slot : r \in R}
    /\ \A r \in R :
         /\ r.teacher = t
         /\ Day(r.slot) # Day(s) => UnderCaps(l, Day(s), BlockSize[l], BlockSize[l])
    /\ tally' = MoreLessons(
                   FewerLessons(Recount(tally, R, B), {R}, LessonsMoved(l)),
                   {B}, LessonsMoved(l))

\* A block moves to another window, with its teacher, beside the rows that
\* stay, and on another day only where the caps leave room for it.
LEMMA ChangeInv ==
  ASSUME Inv, TypeOK', NEW l \in Lessons, Change(l)
  PROVE  /\ Inv' /\ tally'.teacherLock = tally.teacherLock
         /\ \E R \in Sources(l), s \in Slots, room \in Rooms, t \in Teachers, B \in SUBSET Row :
              MoveBlock(l, R, s, room, t, B)
<1>1. PICK R \in Sources(l), s \in Slots :
        LET own == {r.slot : r \in R}
            W == Window(s, BlockSize[l])
            any == CHOOSE r \in R : TRUE
            old == [day |-> Day(any.slot), room |-> any.room]
        IN  /\ W \subseteq Slots /\ W # own
            /\ TeacherFits(any.teacher, W \ own)
            /\ ClassesFree(l, W \ own)
            /\ old.day # Day(s) => UnderCaps(l, Day(s), BlockSize[l], BlockSize[l])
            /\ \E room \in ChangeRooms(l, old, Day(s), W, own) :
                LET B == Block(l, s, room, any.teacher)
                IN  /\ rows' = (rows \ R) \cup B
                    /\ used' = Occupy(Vacate(used, R), B)
                    /\ tally' = MoreLessons(
                                   FewerLessons(Recount(tally, R, B), {R}, LessonsMoved(l)),
                                   {B}, LessonsMoved(l))
  BY DEF Change
<1> DEFINE own == {r.slot : r \in R}
           W == Window(s, BlockSize[l])
           any == CHOOSE r \in R : TRUE
           old == [day |-> Day(any.slot), room |-> any.room]
<1>2. /\ W \subseteq Slots /\ W # own /\ TeacherFits(any.teacher, W \ own)
      /\ ClassesFree(l, W \ own)
      /\ old.day # Day(s) => UnderCaps(l, Day(s), BlockSize[l], BlockSize[l])
  BY <1>1
<1>3. PICK room \in ChangeRooms(l, old, Day(s), W, own) :
        /\ rows' = (rows \ R) \cup Block(l, s, room, any.teacher)
        /\ used' = Occupy(Vacate(used, R), Block(l, s, room, any.teacher))
        /\ tally' = MoreLessons(
                       FewerLessons(Recount(tally, R, Block(l, s, room, any.teacher)),
                                    {R}, LessonsMoved(l)),
                       {Block(l, s, room, any.teacher)}, LessonsMoved(l))
  BY <1>1
<1> DEFINE t == any.teacher
           B == Block(l, s, room, t)
           n == LessonsMoved(l)
           b0 == Recount(tally, R, B)
           b1 == FewerLessons(b0, {R}, n)
<1>4. /\ phase = "search" /\ l \notin Pinned /\ UNCHANGED <<phase, left>>
      /\ EndIteration(rows')
  BY DEF Change, Searching, Frozen
<1>5. /\ TypeOK /\ Orderly(rows) /\ Mirrored(rows, used, tally) /\ PinsIn(rows)
      /\ LocksHold(rows, tally.teacherLock) /\ rows \in SUBSET Row /\ tally \in TallyType
  BY <1>4 DEF Inv, TypeOK, Mirrored
<1>6. /\ R \in SUBSET rows /\ R # {}
      /\ \A r, q \in R : /\ r.lesson = l /\ Day(r.slot) = Day(q.slot)
                         /\ r.room = q.room /\ r.teacher = q.teacher
  BY <1>5, SourceRows
<1>7. any \in R /\ any \in Row /\ t \in Teachers
      /\ \A r \in R : old.day = Day(r.slot) /\ old.room = r.room /\ t = r.teacher
  <2>1. any \in R /\ any \in Row
    BY <1>5, <1>6
  <2> HIDE DEF any
  <2> QED
    BY <1>6, <2>1, RowTriple
<1>8. room \in Rooms
  <2> HIDE DEF old, W, own
  <2>1. ChangeRooms(l, old, Day(s), W, own) \subseteq Rooms
    BY DEF ChangeRooms
  <2> QED
    BY <2>1
<1> HIDE DEF any, t, old
<1>9. ASSUME NEW r \in rows \ R, r.slot \in W
      PROVE  r.teacher # t /\ r.room # room /\ ClassesOf[r.lesson] \cap ClassesOf[l] = {}
  <2>1. r.room # room
    <3> HIDE DEF W
    <3> QED
      BY <1>3, <1>5, <1>7, <1>9, ChangeRoomFree
  <2>2. CASE r.slot \in own
    <3>1. PICK q \in R : q.slot = r.slot
      BY <2>2
    <3>2. ~Clash(r, q) /\ q.lesson = l /\ q.teacher = t
      BY <1>5, <1>6, <1>7 DEF Orderly, NoDoubleBooking
    <3> QED
      BY <2>1, <3>1, <3>2 DEF Clash
  <2>3. CASE r.slot \notin own
    <3>1. r.slot \in W \ own
      BY <1>9, <2>3
    <3>2. /\ <<r.teacher, r.slot>> \in used.teacher
          /\ \A c \in ClassesOf[r.lesson] : <<c, r.slot>> \in used.class
      BY <1>5, FreeKeys DEF Mirrored
    <3>3. <<t, r.slot>> \notin used.teacher /\ \A c \in ClassesOf[l] : <<c, r.slot>> \notin used.class
      <4> HIDE DEF W, own
      <4> QED
        BY <1>2, <3>1 DEF TeacherFits, ClassesFree, t
    <3> QED
      BY <2>1, <3>2, <3>3
  <2> QED
    BY <2>2, <2>3
<1>10. ASSUME NEW r \in rows \ R, Day(r.slot) = Day(s), SubjectOf[r.lesson] = SubjectOf[l],
              ClassesOf[r.lesson] \cap ClassesOf[l] # {}
       PROVE  r.room = room
  <2> HIDE DEF W, own
  <2> QED
    BY <1>3, <1>5, <1>7, <1>10, ChangeRoomShared
<1>11. rows \ R \in SUBSET Row /\ Orderly(rows \ R)
  BY <1>5, PartOfSound DEF Orderly
<1>12. Orderly((rows \ R) \cup B) /\ (rows \ R) \cap B = {}
  <2> DEFINE K == rows \ R
  <2>1. /\ \A r \in K : r.slot \in Window(s, BlockSize[l]) =>
             r.teacher # t /\ r.room # room /\ ClassesOf[r.lesson] \cap ClassesOf[l] = {}
        /\ \A r \in K : /\ Day(r.slot) = Day(s)
                        /\ SubjectOf[r.lesson] = SubjectOf[l]
                        /\ ClassesOf[r.lesson] \cap ClassesOf[l] # {}
                        => r.room = room
    BY <1>9, <1>10
  <2>2. Window(s, BlockSize[l]) \subseteq Slots
    BY <1>2
  <2> HIDE DEF K, B
  <2>3. B = Block(l, s, room, t)
    BY DEF B
  <2>4. K \in SUBSET Row /\ Orderly(K)
    BY <1>11 DEF K
  <2>5. Orderly(K \cup B) /\ K \cap B = {}
    BY <1>7, <1>8, <2>1, <2>2, <2>3, <2>4, AddBlockOrderly
  <2> QED
    BY <2>5 DEF K
<1>13. B \in SUBSET Row
  BY <1>2, <1>7, <1>8, BlockType
<1>14. /\ rows' = (rows \ R) \cup B /\ used' = Occupy(Vacate(used, R), B)
       /\ tally' = MoreLessons(b1, {B}, n)
  BY <1>3 DEF t
<1>15. \A q \in B : q.lesson = l /\ q.teacher = t
  BY BlockRows
<1> HIDE DEF B
<1>16. /\ used' = Occupy(Nobody, rows') /\ Counted(rows', b0) /\ b0 \in TallyType
       /\ b0.teacherLock = tally.teacherLock
  BY <1>5, <1>6, <1>12, <1>13, <1>14, ReplaceKeeps DEF Mirrored
<1>17. n \in Nat /\ {R} \in SUBSET SUBSET Row
  BY <1>5, <1>6, ProblemAssumption DEF LessonsMoved, ValidLessons, ValidGroups
<1>18. Counted(rows', b1) /\ b1 \in TallyType /\ b1.teacherLock = tally.teacherLock
  <2> HIDE DEF b0, n
  <2> QED
    BY <1>16, <1>17, CountedSame, LessonsType
<1>19. Counted(rows', tally') /\ tally'.teacherLock = tally.teacherLock
  <2> HIDE DEF b1, n
  <2> QED
    BY <1>14, <1>18, CountedSame
<1>20. LocksHold(rows', tally.teacherLock)
  <2>1. \A q \in B : \A c \in ClassesOf[q.lesson] :
          tally.teacherLock[<<c, SubjectOf[q.lesson]>>] = q.teacher
    BY <1>5, <1>6, <1>7, <1>15 DEF LocksHold
  <2> QED
    BY <1>5, <1>14, <2>1 DEF LocksHold
<1>21. Mirrored(rows', used', tally')
  BY <1>16, <1>19, <1>20 DEF Mirrored
<1>22. PinsIn(rows')
  <2>1. Unpinned(R) /\ Unpinned(B)
    BY <1>4, <1>6, <1>15 DEF Unpinned
  <2> QED
    BY <1>5, <1>14, <2>1, PinsKept
<1>23. Inv'
  BY <1>4, <1>12, <1>14, <1>21, <1>22, MovedInv
<1>24. B = Block(l, s, room, t)
  BY DEF B
<1>25. \A r \in R :
         /\ r.teacher = t
         /\ Day(r.slot) # Day(s) => UnderCaps(l, Day(s), BlockSize[l], BlockSize[l])
  BY <1>2, <1>7
<1>26. Window(s, BlockSize[l]) # {r.slot : r \in R}
  BY <1>2
<1>27. tally' = MoreLessons(
                  FewerLessons(Recount(tally, R, B), {R}, LessonsMoved(l)), {B}, LessonsMoved(l))
  BY <1>14
<1> HIDE DEF own, W, n, b0, b1
<1> QED
  <2>1. MoveBlock(l, R, s, room, t, B)
    BY ONLY <1>12, <1>14, <1>24, <1>25, <1>26, <1>27 DEF MoveBlock
  <2>2. R \in Sources(l) /\ s \in Slots
    BY <1>2
  <2> QED
    BY ONLY <1>7, <1>8, <1>13, <1>19, <1>23, <2>1, <2>2

\* What a Swap does to rows a and b, which become a2 and b2.
TradeSlots(a, b, a2, b2) ==
    /\ SwapFits(a, b) /\ SwapFits(b, a)
    /\ MovedTo(a2, a, b.slot) /\ MovedTo(b2, b, a.slot)
    /\ rows' = (rows \ {a, b}) \cup {a2, b2}
    /\ (rows \ {a, b}) \cap {a2, b2} = {}
    /\ tally' =
         MoreLessons(FewerLessons(
           MoreLessons(FewerLessons(
             Recount(tally, {a, b}, {a2, b2}), {{a}}, 1), {{a2}}, 1),
           {{b}}, 1), {{b2}}, 1)

\* Two rows trade slots beside the rows that stay.
LEMMA SwapInv ==
  ASSUME Inv, TypeOK', NEW l \in Lessons, NEW m \in Lessons, Swap(l, m)
  PROVE  /\ Inv' /\ tally'.teacherLock = tally.teacherLock
         /\ \E a \in RowsOf(rows, l), b \in RowsOf(rows, m), a2 \in Row, b2 \in Row :
              TradeSlots(a, b, a2, b2)
<1>1. PICK a \in RowsOf(rows, l), b \in RowsOf(rows, m) :
        LET a2 == [a EXCEPT !.slot = b.slot]
            b2 == [b EXCEPT !.slot = a.slot]
        IN  /\ SwapFits(a, b)
            /\ SwapFits(b, a)
            /\ rows' = (rows \ {a, b}) \cup {a2, b2}
            /\ used' = Occupy(Vacate(used, {a, b}), {a2, b2})
            /\ tally' =
                 MoreLessons(FewerLessons(
                   MoreLessons(FewerLessons(
                     Recount(tally, {a, b}, {a2, b2}), {{a}}, 1), {{a2}}, 1),
                   {{b}}, 1), {{b2}}, 1)
  BY DEF Swap, Swappable
<1> DEFINE a2 == [a EXCEPT !.slot = b.slot]
           b2 == [b EXCEPT !.slot = a.slot]
           O == {a, b}
           N == {a2, b2}
           b0 == Recount(tally, O, N)
           b1 == FewerLessons(b0, {{a}}, 1)
           d1 == MoreLessons(b1, {{a2}}, 1)
           d2 == FewerLessons(d1, {{b}}, 1)
<1>2. /\ phase = "search" /\ l \notin Pinned /\ m \notin Pinned /\ l # m
      /\ UNCHANGED <<phase, left>> /\ EndIteration(rows')
  BY DEF Swap, Searching, Frozen, Swappable
<1>3. /\ TypeOK /\ Orderly(rows) /\ Mirrored(rows, used, tally) /\ PinsIn(rows)
      /\ LocksHold(rows, tally.teacherLock) /\ rows \in SUBSET Row /\ tally \in TallyType
  BY <1>2 DEF Inv, TypeOK, Mirrored
<1>4. /\ a \in rows /\ b \in rows /\ a \in Row /\ b \in Row /\ a # b
      /\ a.lesson = l /\ b.lesson = m
  BY <1>2, <1>3 DEF RowsOf
<1>5. a2 \in Row /\ b2 \in Row /\ MovedTo(a2, a, b.slot) /\ MovedTo(b2, b, a.slot)
  BY <1>4 DEF Row, MovedTo
<1>6. SwapFits(a, b) /\ SwapFits(b, a)
  BY <1>1
<1>7. /\ rows' = (rows \ O) \cup N /\ used' = Occupy(Vacate(used, O), N)
      /\ tally' = MoreLessons(d2, {{b2}}, 1)
  BY <1>1
<1> HIDE DEF a2, b2
<1>8. Orderly((rows \ O) \cup N) /\ (rows \ O) \cap N = {}
  BY <1>3, <1>4, <1>5, <1>6, SwapOrderly
<1>9. O \in SUBSET rows /\ N \in SUBSET Row
      /\ {{a}} \in SUBSET SUBSET Row /\ {{a2}} \in SUBSET SUBSET Row
      /\ {{b}} \in SUBSET SUBSET Row
  BY <1>4, <1>5
<1>10. LocksHold(rows', tally.teacherLock)
  <2>1. \A q \in N : \E r \in rows : q.lesson = r.lesson /\ q.teacher = r.teacher
    BY <1>4, <1>5 DEF MovedTo
  <2> QED
    BY <1>3, <1>7, <2>1 DEF LocksHold
<1>11. PinsIn(rows')
  <2>1. Unpinned(O) /\ Unpinned(N)
    BY <1>2, <1>4, <1>5 DEF Unpinned, MovedTo
  <2> QED
    BY <1>3, <1>7, <2>1, PinsKept
<1> HIDE DEF O, N
<1>12. /\ used' = Occupy(Nobody, rows') /\ Counted(rows', b0) /\ b0 \in TallyType
       /\ b0.teacherLock = tally.teacherLock
  <2>1. used = Occupy(Nobody, rows) /\ Counted(rows, tally)
    BY <1>3 DEF Mirrored
  <2>2. O \in SUBSET rows /\ N \in SUBSET Row
    BY <1>9
  <2>3. /\ rows \in SUBSET Row /\ tally \in TallyType /\ Orderly(rows)
        /\ Orderly((rows \ O) \cup N) /\ (rows \ O) \cap N = {}
    BY <1>3, <1>8
  <2>4. rows' = (rows \ O) \cup N /\ used' = Occupy(Vacate(used, O), N)
    BY <1>7
  <2> QED
    BY ONLY <2>1, <2>2, <2>3, <2>4, ReplaceKeeps
<1>13. Counted(rows', b1) /\ b1 \in TallyType /\ b1.teacherLock = tally.teacherLock
  <2> HIDE DEF b0
  <2> QED
    BY <1>9, <1>12, CountedSame, LessonsType
<1>14. Counted(rows', d1) /\ d1 \in TallyType /\ d1.teacherLock = tally.teacherLock
  <2> HIDE DEF b1
  <2> QED
    BY <1>9, <1>13, CountedSame, LessonsType
<1>15. Counted(rows', d2) /\ d2 \in TallyType /\ d2.teacherLock = tally.teacherLock
  <2> HIDE DEF d1
  <2> QED
    BY <1>9, <1>14, CountedSame, LessonsType
<1>16. Counted(rows', tally') /\ tally'.teacherLock = tally.teacherLock
  <2> HIDE DEF d2
  <2> QED
    BY <1>7, <1>15, CountedSame
<1>17. Mirrored(rows', used', tally')
  BY <1>10, <1>12, <1>16 DEF Mirrored
<1>18. Inv'
  BY <1>2, <1>7, <1>8, <1>11, <1>17, MovedInv
<1>19. rows' = (rows \ {a, b}) \cup {a2, b2} /\ (rows \ {a, b}) \cap {a2, b2} = {}
  BY <1>7, <1>8 DEF O, N
<1>20. tally' =
         MoreLessons(FewerLessons(
           MoreLessons(FewerLessons(
             Recount(tally, {a, b}, {a2, b2}), {{a}}, 1), {{a2}}, 1),
           {{b}}, 1), {{b2}}, 1)
  BY <1>7 DEF O, N
<1> HIDE DEF b0, b1, d1, d2
<1> QED
  <2>1. TradeSlots(a, b, a2, b2)
    BY ONLY <1>5, <1>6, <1>19, <1>20 DEF TradeSlots
  <2>2. a \in RowsOf(rows, l) /\ b \in RowsOf(rows, m)
    BY <1>1
  <2> QED
    BY ONLY <1>5, <1>16, <1>18, <2>1, <2>2

\* The free home room is taken.
LEMMA TakeHomeRoom ==
  ASSUME TypeOK, Orderly(rows), Mirrored(rows, used, tally),
         NEW p \in rows, NEW home \in Rooms, ~WouldSplit(p, home),
         <<home, p.slot>> \notin used.room,
         NEW p2 \in Row, MovedIn(p2, p, home),
         rows' = (rows \ {p}) \cup {p2},
         used' = [used EXCEPT !.room = (@ \ {<<p.room, p.slot>>}) \cup {<<home, p.slot>>}],
         tally' = RelockRoom(tally, p, home)
  PROVE  Orderly(rows') /\ Mirrored(rows', used', tally')
<1> DEFINE K == rows \ {p}
<1>1. /\ rows \in SUBSET Row /\ tally \in TallyType /\ used \in UsedType
      /\ used = Occupy(Nobody, rows) /\ Counted(rows, tally)
      /\ LocksHold(rows, tally.teacherLock)
  BY DEF TypeOK, Mirrored
<1>2. /\ p2.lesson = p.lesson /\ p2.slot = p.slot /\ p2.room = home /\ p2.teacher = p.teacher
      /\ p \in Row
  BY <1>1 DEF MovedIn
<1>3. ASSUME NEW r \in K PROVE Compatible(r, p2)
  <2>1. <<r.room, r.slot>> \in used.room
    BY <1>1, FreeKeys
  <2>2. r.slot = p.slot => r.room # home
    BY <2>1
  <2> QED
    BY <1>1, <2>2, RepairSide
<1>4. Orderly(K \cup {p2}) /\ p2 \notin K
  <2>1. K \in SUBSET Row /\ Orderly(K)
    BY <1>1, PartOfSound DEF Orderly
  <2> HIDE DEF K
  <2>2. Orderly(K \cup {p2, p2}) /\ K \cap {p2, p2} = {}
    BY <1>3, <2>1, AddPairOrderly
  <2>3. {p2, p2} = {p2}
    OBVIOUS
  <2> QED
    BY <2>2, <2>3
<1>5. Orderly(rows')
  BY <1>4
<1>6. used' = Occupy(Nobody, rows')
  <2>1. Occupy(Vacate(used, {p}), {p2}) = Occupy(Nobody, rows')
    <3>1. {p} \in SUBSET rows /\ {p2} \in SUBSET Row /\ (rows \ {p}) \cap {p2} = {}
          /\ Orderly((rows \ {p}) \cup {p2})
      BY <1>4
    <3> QED
      BY <1>1, <3>1, ReplaceKeeps
  <2>2. used' = Occupy(Vacate(used, {p}), {p2})
    BY <1>1, TakenKeys
  <2> QED
    BY <2>1, <2>2
<1>7. Counted(rows', tally') /\ tally'.teacherLock = tally.teacherLock
  <2>1. SameCounts(rows, rows')
    BY <1>1, <1>2, <1>4, OneRowMoved
  <2>2. /\ tally'.hours = tally.hours /\ tally'.subjectHours = tally.subjectHours
        /\ tally'.lock = tally.lock /\ tally'.teacherLock = tally.teacherLock
        /\ \A x \in Triples : tally'.lockRoom[x] =
             IF x \in LockKeys(p.lesson, Day(p.slot)) /\ tally.lock[x] > 0
             THEN home ELSE tally.lockRoom[x]
    BY <1>1, RelockFields
  <2>3. ASSUME NEW x \in Triples
        PROVE  \/ /\ tally.lock[x] > 0
                  /\ \E q \in TripleRows(rows', x[1], x[2], x[3]) : tally'.lockRoom[x] = q.room
               \/ /\ tally'.lockRoom[x] = tally.lockRoom[x]
                  /\ TripleRows(rows', x[1], x[2], x[3])
                       \subseteq TripleRows(rows, x[1], x[2], x[3])
    <3> DEFINE T(Q) == TripleRows(Q, x[1], x[2], x[3])
    <3>1. CASE x \in LockKeys(p.lesson, Day(p.slot))
      <4>1. p \in T(rows) /\ p2 \in T(rows')
        BY <1>2, <3>1, TripleOfRow
      <4>2. tally.lock[x] > 0
        BY <1>1, <4>1, EmptyTriple DEF Counted
      <4> QED
        BY <1>2, <2>2, <3>1, <4>1, <4>2
    <3>2. CASE x \notin LockKeys(p.lesson, Day(p.slot))
      <4>1. p2 \notin T(rows')
        BY <1>2, <3>2, TripleOfRow
      <4>2. T(rows') \subseteq T(rows)
        BY <4>1 DEF TripleRows
      <4> QED
        BY <2>2, <3>2, <4>2
    <3> QED
      BY <3>1, <3>2
  <2>4. rows' \in SUBSET Row /\ NoRoomHopping(rows')
    BY <1>1, <1>5 DEF Orderly
  <2>5. Counted(rows', tally')
    <3> DEFINE S == rows'
               n == tally'
    <3> HIDE DEF S, n
    <3>1. /\ S \in SUBSET Row /\ NoRoomHopping(S) /\ SameCounts(rows, S)
          /\ n.hours = tally.hours /\ n.subjectHours = tally.subjectHours
          /\ n.lock = tally.lock
      BY <2>1, <2>2, <2>4 DEF S, n
    <3>2. \A x \in Triples :
            \/ /\ tally.lock[x] > 0
               /\ \E q \in TripleRows(S, x[1], x[2], x[3]) : n.lockRoom[x] = q.room
            \/ /\ n.lockRoom[x] = tally.lockRoom[x]
               /\ TripleRows(S, x[1], x[2], x[3]) \subseteq TripleRows(rows, x[1], x[2], x[3])
      BY <2>3 DEF S, n
    <3>3. Counted(S, n)
      BY <1>1, <3>1, <3>2, RelockedCounted
    <3> QED
      BY <3>3 DEF S, n
  <2> QED
    BY <2>2, <2>5
<1>8. LocksHold(rows', tally.teacherLock)
  BY <1>1, <1>2 DEF LocksHold
<1> QED
  BY <1>5, <1>6, <1>7, <1>8 DEF Mirrored

\* The lesson in the home room takes the old room in exchange.
LEMMA TradeRooms ==
  ASSUME TypeOK, Orderly(rows), Mirrored(rows, used, tally),
         NEW p \in rows, NEW q \in rows, p # q, NEW home \in Rooms, p.room # home,
         q.room = home, q.slot = p.slot,
         ~WouldSplit(p, home), ~WouldSplit(q, p.room),
         NEW p2 \in Row, MovedIn(p2, p, home),
         NEW q2 \in Row, MovedIn(q2, q, p.room),
         rows' = (rows \ {p, q}) \cup {p2, q2},
         UNCHANGED used,
         tally' = RelockRoom(RelockRoom(tally, p, home), q, p.room)
  PROVE  Orderly(rows') /\ Mirrored(rows', used', tally')
<1> DEFINE K == rows \ {p, q}
           O == {p, q}
           N == {p2, q2}
<1>1. /\ rows \in SUBSET Row /\ tally \in TallyType /\ used \in UsedType
      /\ used = Occupy(Nobody, rows) /\ Counted(rows, tally)
      /\ LocksHold(rows, tally.teacherLock)
  BY DEF TypeOK, Mirrored
<1>2. /\ p2.lesson = p.lesson /\ p2.slot = p.slot /\ p2.room = home /\ p2.teacher = p.teacher
      /\ q2.lesson = q.lesson /\ q2.slot = p.slot /\ q2.room = p.room /\ q2.teacher = q.teacher
  BY DEF MovedIn
<1>3. /\ ~Clash(p, q) /\ p.teacher # q.teacher
      /\ ClassesOf[p.lesson] \cap ClassesOf[q.lesson] = {}
  BY DEF Orderly, NoDoubleBooking, Clash
<1>4. ASSUME NEW r \in K PROVE Compatible(r, p2) /\ Compatible(r, q2)
  <2>1. ~Clash(r, p) /\ ~Clash(r, q)
    BY DEF Orderly, NoDoubleBooking
  <2>2. (r.slot = p.slot => r.room # home) /\ (r.slot = q.slot => r.room # p.room)
    BY <2>1 DEF Clash
  <2> QED
    BY <1>1, <2>2, RepairSide
<1>5. Compatible(p2, q2)
  BY <1>2, <1>3 DEF Compatible, Clash, Together
<1>6. Orderly(K \cup N) /\ K \cap N = {}
  <2>1. K \in SUBSET Row /\ Orderly(K)
    BY <1>1, PartOfSound DEF Orderly
  <2> HIDE DEF K
  <2> QED
    BY <1>4, <1>5, <2>1, AddPairOrderly
<1>7. Orderly(rows')
  BY <1>6
<1>8. used' = Occupy(Nobody, rows')
  <2>1. Occupy(Vacate(used, O), N) = Occupy(Nobody, rows')
    <3>1. O \in SUBSET rows /\ N \in SUBSET Row /\ (rows \ O) \cap N = {}
          /\ Orderly((rows \ O) \cup N)
      BY <1>6
    <3> QED
      BY <1>1, <3>1, ReplaceKeeps
  <2>2. used = Occupy(Vacate(used, O), N)
    BY <1>1, TradedKeys
  <2> QED
    BY <2>1, <2>2
<1>9. SameCounts(rows, rows')
  <2>1. p2 \notin rows \ {p} /\ q2 \notin rows \ {q}
    BY <1>2 DEF Orderly, NoDoubleBooking, Clash
  <2>2. p2 # q2 /\ p2 # q
    BY <1>2, <1>3
  <2> QED
    BY <1>1, <2>1, <2>2, TwoRowsMoved
<1>10. Counted(rows', tally') /\ tally'.teacherLock = tally.teacherLock
  <2> DEFINE S == rows'
             n == tally'
  <2>1. p2 \in S /\ q2 \in S /\ S \subseteq rows \cup {p2, q2}
    OBVIOUS
  <2>2. S \in SUBSET Row /\ NoRoomHopping(S) /\ SameCounts(rows, S)
    BY <1>1, <1>7, <1>9 DEF Orderly
  <2>3. /\ n.hours = tally.hours /\ n.subjectHours = tally.subjectHours
        /\ n.lock = tally.lock /\ n.teacherLock = tally.teacherLock
        /\ \A x \in Triples : n.lockRoom[x] =
             IF x \in LockKeys(q.lesson, Day(q.slot)) /\ tally.lock[x] > 0 THEN p.room
             ELSE IF x \in LockKeys(p.lesson, Day(p.slot)) /\ tally.lock[x] > 0 THEN home
             ELSE tally.lockRoom[x]
    BY <1>1, TradedLocks
  <2> HIDE DEF S, n
  <2>4. ASSUME NEW x \in Triples
        PROVE  \/ /\ tally.lock[x] > 0
                  /\ \E r \in TripleRows(S, x[1], x[2], x[3]) : n.lockRoom[x] = r.room
               \/ /\ n.lockRoom[x] = tally.lockRoom[x]
                  /\ TripleRows(S, x[1], x[2], x[3])
                       \subseteq TripleRows(rows, x[1], x[2], x[3])
    <3> DEFINE T(Q) == TripleRows(Q, x[1], x[2], x[3])
    <3>1. T(rows) # {} => tally.lock[x] > 0
      BY <1>1, EmptyTriple DEF Counted
    <3>2. /\ x \in LockKeys(p.lesson, Day(p.slot)) <=> p \in T(rows)
          /\ x \in LockKeys(q.lesson, Day(q.slot)) <=> q \in T(rows)
          /\ x \in LockKeys(p.lesson, Day(p.slot)) <=> p2 \in T(S)
          /\ x \in LockKeys(q.lesson, Day(q.slot)) <=> q2 \in T(S)
      BY <1>2, <2>1, TripleOfRow
    <3>3. CASE x \in LockKeys(q.lesson, Day(q.slot))
      BY <1>2, <2>3, <3>1, <3>2, <3>3
    <3>4. CASE x \notin LockKeys(q.lesson, Day(q.slot)) /\ x \in LockKeys(p.lesson, Day(p.slot))
      BY <1>2, <2>3, <3>1, <3>2, <3>4
    <3>5. CASE x \notin LockKeys(q.lesson, Day(q.slot)) /\ x \notin LockKeys(p.lesson, Day(p.slot))
      <4>1. T(S) \subseteq T(rows)
        BY <2>1, <3>2, <3>5 DEF TripleRows
      <4> QED
        BY <2>3, <3>5, <4>1
    <3> QED
      BY <3>3, <3>4, <3>5
  <2>5. Counted(S, n)
    BY <1>1, <2>2, <2>3, <2>4, RelockedCounted
  <2> QED
    BY <2>3, <2>5 DEF S, n
<1>11. LocksHold(rows', tally.teacherLock)
  BY <1>1, <1>2 DEF LocksHold
<1> QED
  BY <1>7, <1>8, <1>10, <1>11 DEF Mirrored

\* A row moves to its home room, alone or in exchange.
LEMMA HomeRoomRepairInv ==
  ASSUME Inv, TypeOK', NEW l \in Lessons, HomeRoomRepair(l)
  PROVE  Inv'
<1>picked. PICK p \in RowsOf(rows, l), home \in Rooms : Rehousing(l, p, home)
  BY RepairRehouses
<1>1. /\ p.room # home
      /\ ~WouldSplit(p, home)
      /\ \/ /\ <<home, p.slot>> \notin used.room
            /\ rows' = (rows \ {p}) \cup {[p EXCEPT !.room = home]}
            /\ used' = [used EXCEPT !.room =
                           (@ \ {<<p.room, p.slot>>}) \cup {<<home, p.slot>>}]
            /\ tally' = RelockRoom(tally, p, home)
         \/ \E q \in rows \ {p} :
            /\ q.room = home /\ q.slot = p.slot
            /\ q.lesson \notin Pinned
            /\ ~WouldSplit(q, p.room)
            /\ rows' = (rows \ {p, q}) \cup {[p EXCEPT !.room = home],
                                            [q EXCEPT !.room = p.room]}
            /\ tally' = RelockRoom(RelockRoom(tally, p, home), q, p.room)
            /\ UNCHANGED used
  BY ONLY <1>picked DEF Rehousing, Frozen
<1>2. /\ phase = "search" /\ l \notin Pinned
      /\ UNCHANGED <<phase, left>> /\ EndIteration(rows')
  BY DEF HomeRoomRepair, Searching, Frozen
<1>3. /\ TypeOK /\ Orderly(rows) /\ Mirrored(rows, used, tally) /\ PinsIn(rows)
      /\ rows \in SUBSET Row
  BY <1>2 DEF Inv, TypeOK
<1>4. p \in rows /\ p \in Row /\ p.lesson = l
  BY <1>3 DEF RowsOf
<1> DEFINE p2 == [p EXCEPT !.room = home]
<1>5. p2 \in Row /\ MovedIn(p2, p, home)
  BY <1>4 DEF Row, MovedIn
<1> HIDE DEF p2
<1>6. CASE /\ <<home, p.slot>> \notin used.room
           /\ rows' = (rows \ {p}) \cup {[p EXCEPT !.room = home]}
           /\ used' = [used EXCEPT !.room =
                          (@ \ {<<p.room, p.slot>>}) \cup {<<home, p.slot>>}]
           /\ tally' = RelockRoom(tally, p, home)
  <2>1. rows' = (rows \ {p}) \cup {p2}
    BY <1>6 DEF p2
  <2>2. Orderly(rows') /\ Mirrored(rows', used', tally')
    BY <1>1, <1>3, <1>4, <1>5, <1>6, <2>1, TakeHomeRoom
  <2>3. Unpinned({p}) /\ Unpinned({p2})
    BY <1>2, <1>4, <1>5 DEF Unpinned, MovedIn
  <2>4. PinsIn(rows')
    BY <1>3, <2>1, <2>3, PinsKept
  <2> QED
    BY <1>2, <2>2, <2>4, MovedInv
<1>7. CASE \E q \in rows \ {p} :
              /\ q.room = home /\ q.slot = p.slot
              /\ q.lesson \notin Pinned
              /\ ~WouldSplit(q, p.room)
              /\ rows' = (rows \ {p, q}) \cup {[p EXCEPT !.room = home],
                                              [q EXCEPT !.room = p.room]}
              /\ tally' = RelockRoom(RelockRoom(tally, p, home), q, p.room)
              /\ UNCHANGED used
  <2>1. PICK q \in rows \ {p} :
              /\ q.room = home /\ q.slot = p.slot
              /\ q.lesson \notin Pinned
              /\ ~WouldSplit(q, p.room)
              /\ rows' = (rows \ {p, q}) \cup {[p EXCEPT !.room = home],
                                              [q EXCEPT !.room = p.room]}
              /\ tally' = RelockRoom(RelockRoom(tally, p, home), q, p.room)
              /\ UNCHANGED used
    BY <1>7
  <2> DEFINE q2 == [q EXCEPT !.room = p.room]
  <2>2. q \in rows /\ q \in Row /\ p # q
    BY <1>3
  <2>3. q2 \in Row /\ MovedIn(q2, q, p.room)
    BY <1>4, <2>2 DEF Row, MovedIn
  <2>4. rows' = (rows \ {p, q}) \cup {p2, q2}
    BY <2>1 DEF p2
  <2> HIDE DEF q2
  <2>5. Orderly(rows') /\ Mirrored(rows', used', tally')
    BY <1>1, <1>3, <1>4, <1>5, <2>1, <2>2, <2>3, <2>4, TradeRooms
  <2>6. Unpinned({p, q}) /\ Unpinned({p2, q2})
    BY <1>2, <1>4, <1>5, <2>1, <2>3 DEF Unpinned, MovedIn
  <2>7. PinsIn(rows')
    BY <1>3, <2>4, <2>6, PinsKept
  <2> QED
    BY <1>2, <2>5, <2>7, MovedInv
<1> QED
  BY <1>1, <1>6, <1>7

\* Every step preserves the invariant.
LEMMA NextInv == Inv /\ [Next]_vars => Inv'
<1> SUFFICES ASSUME Inv, [Next]_vars PROVE Inv'
  OBVIOUS
<1>1. TypeOK'
  BY NextType DEF Inv
<1>2. CASE UNCHANGED vars
  <2>1. UNCHANGED <<phase, rows, used, tally, left, best, attempt>>
    BY <1>2 DEF vars
  <2>2. Base' = Base
    BY <2>1 DEF Base
  <2> QED
    BY <1>1, <2>1, <2>2 DEF Inv, Rebuildable
<1>3. CASE Next
  BY <1>1, <1>3, FfdPlaceInv, FfdMissInv, FfdEndInv, ChangeInv, SwapInv, HomeRoomRepairInv,
     RescueInv, RuinInv, NothingToRuinInv, RebuildPlaceInv, RebuildMissInv, KeepInv,
     UndoInv, FinishInv DEF Next
<1> QED
  BY <1>2, <1>3

\* The search's state mirrors its placements at every moment.
THEOREM Invariance == Spec => []Inv
BY InitInv, NextInv, SpecLoose, PTL

-----------------------------------------------------------------------------
(* What follows.                                                            *)

\* No teacher, room or class ever holds two rows in one slot.
THEOREM NoConflicts == Spec => []NeverDoubleBooked
<1>1. Inv => NeverDoubleBooked
  BY DEF Inv, Orderly, NeverDoubleBooked
<1> QED
  BY <1>1, Invariance, PTL

\* The three used sets are exactly the keys of the placements.
THEOREM UsedExact == Spec => []UsedMirrorsRows
<1>1. Inv => UsedMirrorsRows
  BY DEF Inv, Mirrored, UsedMirrorsRows
<1> QED
  BY <1>1, Invariance, PTL

\* What the invariant says of counters and locks is a recount of the placements.
LEMMA CountersRecounted == Inv => CountersMirrorRows
<1>1. ASSUME Inv, phase # "done", NEW x \in Triples
      PROVE  {tally.lockRoom[x]} =
               IF TripleCount(rows, x) = 0 THEN {NoRoom}
               ELSE {r.room : r \in TripleRows(rows, x[1], x[2], x[3])}
  <2>1. rows \in SUBSET Row /\ Counted(rows, tally)
    BY <1>1 DEF Inv, TypeOK, Mirrored
  <2>2. CASE TripleCount(rows, x) = 0
    BY <2>1, <2>2 DEF Counted
  <2>3. CASE TripleCount(rows, x) # 0
    <3>1. PICK r \in TripleRows(rows, x[1], x[2], x[3]) : TRUE
      BY <2>1, <2>3, EmptyTriple
    <3>2. \A q \in TripleRows(rows, x[1], x[2], x[3]) : tally.lockRoom[x] = q.room
      BY <2>1 DEF Counted
    <3> QED
      BY <2>3, <3>1, <3>2
  <2> QED
    BY <2>2, <2>3
<1> QED
  BY <1>1 DEF Inv, Mirrored, Counted, CountersMirrorRows

\* The counters and room locks equal a recount of the placements.
THEOREM CountersExact == Spec => []CountersMirrorRows
BY CountersRecounted, Invariance, PTL

\* Every row is taught by the locked teacher of its classes and subject.
THEOREM LocksKept == Spec => []TeacherLocksHold
<1>1. Inv => TeacherLocksHold
  BY DEF Inv, Mirrored, LocksHold, TeacherLocksHold
<1> QED
  BY <1>1, Invariance, PTL

\* The pinned rows are in the schedule at every moment.
THEOREM PinsKeptAlways == Spec => []PinsNeverMove
<1>1. Inv => PinsNeverMove
  BY DEF Inv, PinsIn, PinsNeverMove
<1> QED
  BY <1>1, Invariance, PTL

\* The promise speaks of the same rows, conflicts and order.
LEMMA PromiseTerms ==
  ASSUME NEW R, NEW S
  PROVE  /\ Promise!Sound(R) <=> R \subseteq Row /\ NoDoubleBooking(R) /\ PinnedRows \subseteq R
         /\ Promise!Better(R, S) <=> Better(R, S)
<1>1. Promise!Row = Row
  BY DEF Promise!Row, Row
<1>2. Promise!NoDoubleBooking(R) <=> NoDoubleBooking(R)
  BY DEF Promise!NoDoubleBooking, Promise!Clash, NoDoubleBooking, Clash
<1>3. Promise!Better(R, S) <=> Better(R, S)
  <2>1. \A A : Promise!Cardinality(A) = Cardinality(A)
    BY DEF Promise!Cardinality, Cardinality, Promise!IsFiniteSet, IsFiniteSet
  <2> QED
    BY <2>1 DEF Promise!Better, Better
<1> QED
  BY <1>1, <1>2, <1>3 DEF Promise!Sound

\* An iteration that ends with the schedule it has improves the best or leaves
\* it alone.
LEMMA IterationKeepsPromise ==
  ASSUME Inv', phase \in Phases \ {"ffd", "done"}, phase' \in Phases \ {"ffd", "done"},
         (IterationEnds /\ BestPriced) \/ UNCHANGED best
  PROVE  Promise!Improve \/ UNCHANGED <<best, Stage>>
<1>1. Stage = "improving" /\ Stage' = "improving"
  BY DEF Stage
<1>2. best' = best \/ (Better(rows', best) /\ best' = rows')
  BY DEF BestPriced
<1>3. best' \in SUBSET Row /\ NoDoubleBooking(best') /\ PinnedRows \subseteq best'
  BY DEF Inv, TypeOK, Orderly, PinsIn
<1> QED
  BY <1>1, <1>2, <1>3, PromiseTerms DEF Promise!Improve

\* Every step of the search is a step of the anytime promise or invisible to
\* the caller.
LEMMA StepKeepsPromise ==
  ASSUME Inv, Inv', [PricedNext]_vars
  PROVE  [Promise!Next]_<<best, Stage>>
<1>0. BestPriced \/ UNCHANGED vars
  BY DEF PricedNext
<1>1. ASSUME phase = "ffd", phase' = "search", best' = rows, UNCHANGED rows
      PROVE  Promise!Build
  <2>1. best' \in SUBSET Row /\ NoDoubleBooking(best') /\ PinnedRows \subseteq best'
    BY <1>1 DEF Inv, TypeOK, Orderly, PinsIn
  <2> QED
    BY <1>1, <2>1, PromiseTerms DEF Promise!Build, Stage
<1>2. ASSUME phase \in Phases \ {"ffd", "done"}, phase' \in Phases \ {"ffd", "done"},
             phase' = "search" \/ UNCHANGED best
      PROVE  Promise!Improve \/ UNCHANGED <<best, Stage>>
  BY <1>2, <1>0, IterationKeepsPromise DEF IterationEnds, vars
<1>3. ASSUME UNCHANGED <<phase, best>> PROVE UNCHANGED <<best, Stage>>
  BY <1>3 DEF Stage
<1>4. CASE UNCHANGED vars
  BY <1>3, <1>4 DEF vars
<1>5. ASSUME NEW l \in Lessons, FfdPlace(l) \/ FfdMiss(l)
      PROVE  UNCHANGED <<best, Stage>>
  BY <1>3, <1>5 DEF FfdPlace, FfdMiss
<1>6. ASSUME FfdEnd PROVE Promise!Build
  BY <1>1, <1>6 DEF FfdEnd
<1>7. ASSUME NEW l \in Lessons, Change(l) \/ HomeRoomRepair(l)
      PROVE  Promise!Improve \/ UNCHANGED <<best, Stage>>
  BY <1>2, <1>7 DEF Change, HomeRoomRepair, Searching, Phases
<1>8. ASSUME NEW l \in Lessons, NEW m \in Lessons, Swap(l, m)
      PROVE  Promise!Improve \/ UNCHANGED <<best, Stage>>
  BY <1>2, <1>8 DEF Swap, Searching, Phases, Swappable
<1>9. ASSUME NEW l \in Lessons, Rescue(l) \/ RebuildPlace(l) \/ RebuildMiss(l)
      PROVE  Promise!Improve \/ UNCHANGED <<best, Stage>>
  <2>1. CASE Rescue(l)
    BY <1>2, <2>1 DEF Rescue, Phases
  <2>2. CASE RebuildPlace(l)
    <3>1. UNCHANGED <<phase, best>>
      BY <2>2 DEF RebuildPlace
    <3> QED
      BY <1>3, <3>1
  <2>3. CASE RebuildMiss(l)
    <3>1. UNCHANGED <<phase, best>>
      BY <2>3 DEF RebuildMiss
    <3> QED
      BY <1>3, <3>1
  <2> QED
    BY <1>9, <2>1, <2>2, <2>3
<1>10. ASSUME Ruin PROVE Promise!Improve \/ UNCHANGED <<best, Stage>>
  BY <1>2, <1>10 DEF Ruin, Phases
<1>11. ASSUME NothingToRuin \/ Keep PROVE Promise!Improve \/ UNCHANGED <<best, Stage>>
  <2>1. phase \in Phases \ {"ffd", "done"} /\ phase' = "search"
    BY <1>11 DEF NothingToRuin, Keep, Rebuilt, Phases
  <2> QED
    BY <1>2, <2>1 DEF Phases
<1>12. ASSUME Undo PROVE Promise!Improve \/ UNCHANGED <<best, Stage>>
  <2>1. /\ phase \in {"rescue", "recreate"} /\ phase' \in {"ruin", "search"}
        /\ phase' = "search" \/ UNCHANGED best
    BY <1>12 DEF Undo, Rebuilt
  <2> QED
    BY <1>2, <2>1 DEF Phases
<1>13. ASSUME Finish PROVE Promise!Return
  BY <1>13 DEF Finish, Promise!Return, Stage
<1> QED
  BY <1>4, <1>5, <1>6, <1>7, <1>8, <1>9, <1>10, <1>11, <1>12, <1>13
     DEF PricedNext, Next, Promise!Next

\* The search implements the anytime promise: what a cancellation would
\* return is conflict-free, holds every pin, and only ever improves.
THEOREM Anytime == Spec => KeepsPromise
<1>1. Init => Promise!Init
  BY DEF Init, Promise!Init, Stage
<1>2. Inv /\ Inv' /\ [PricedNext]_vars => [Promise!Next]_<<best, Stage>>
  BY StepKeepsPromise
<1> QED
  BY <1>1, <1>2, Invariance, PTL DEF Spec, KeepsPromise, Promise!Spec
=============================================================================
