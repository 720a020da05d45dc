--------------------------- MODULE TimetableSearch ---------------------------
(***************************************************************************)
(* One run of the solver: pins, greedy construction (FFD), then the        *)
(* late-acceptance local search (LAHC) over Change, block Change, Swap,    *)
(* home-room repair, ruin-and-recreate and rescue moves, and the running   *)
(* best that is returned (solver-core/src/solve.rs, lahc.rs).              *)
(*                                                                         *)
(* The point of the model is GreedyState: incrementally maintained sets    *)
(* and counters that every move trusts instead of looking at the schedule. *)
(*                                                                         *)
(* Scores are abstract: which feasible candidate the greedy step prefers   *)
(* and whether LAHC accepts a worse schedule depend on weights and on an   *)
(* old score in a 500-entry list, so both are choices.  Score only decides *)
(* what becomes the running best.                                          *)
(***************************************************************************)
EXTENDS Timetable, Sequences

CONSTANT
    RuinSize      \* lahc_rr_k, blocks ruined by one attempt

\* The pins by themselves pass the validators.  The solver does not check it
\* first: with other pins every schedule it can build fails post-solve.
ASSUME SearchAssumption ==
    /\ RuinSize \in Nat
    /\ NoDoubleBooking(PinnedRows) /\ LessonCardinality(PinnedRows)
    /\ BlockShape(PinnedRows) /\ NoRoomHopping(PinnedRows)
    /\ SubjectCaps(PinnedRows)
    /\ TeachersAllowed(PinnedRows) /\ OneTeacherPerClassSubject(PinnedRows)

VARIABLES
    phase,    \* where the solver is, see Phases
    rows,     \* the placements vector
    used,     \* used_teacher, used_class, used_room
    tally,    \* the counters and locks of GreedyState
    left,     \* lesson -> blocks the greedy loop has still to try
    missed,   \* lesson -> blocks reported as a violation
    best,     \* best_placements
    attempt   \* what a ruin-and-recreate or rescue move remembers

vars == <<phase, rows, used, tally, left, missed, best, attempt>>

\* "rescue" and "recreate": rebuilding after a ruin; "ruin": a rescue was not
\* possible or was undone, ruin-and-recreate follows in the same iteration.
Phases == {"ffd", "search", "rescue", "ruin", "recreate", "done"}

-----------------------------------------------------------------------------
(* used_teacher, used_class, used_room.                                     *)

TeacherKeys(R) == {<<r.teacher, r.slot>> : r \in R}
RoomKeys(R) == {<<r.room, r.slot>> : r \in R}
ClassKeys(R) ==
    UNION {{<<c, r.slot>> : c \in ClassesOf[r.lesson]} : r \in R}

Nobody == [teacher |-> {}, class |-> {}, room |-> {}]

Occupy(u, R) == [teacher |-> u.teacher \cup TeacherKeys(R),
                 class   |-> u.class \cup ClassKeys(R),
                 room    |-> u.room \cup RoomKeys(R)]

\* Broken variant: the room keys survive.
VacateKeepsRoom(u, R) == [u EXCEPT !.teacher = @ \ TeacherKeys(R),
                                   !.class = @ \ ClassKeys(R)]

Vacate(u, R) == [teacher |-> u.teacher \ TeacherKeys(R),
                 class   |-> u.class \ ClassKeys(R),
                 room    |-> u.room \ RoomKeys(R)]

-----------------------------------------------------------------------------
(* The counters.  hours: hours_by_teacher; subjectHours:                    *)
(* subject_hours_by_class_day; lessonsOn: lessons_by_class_day; lock and    *)
(* lockRoom: the reference count and the room of locked_room; teacherLock:  *)
(* class_subject_teacher.  A missing map entry is a zero count.             *)

SatSub(a, b) == IF a > b THEN a - b ELSE 0

TripleCount(R, x) == Cardinality(TripleRows(R, x[1], x[2], x[3]))

\* The room a lock is created with: that of a row just added to the triple.
RoomFor(R, x) == (CHOOSE r \in TripleRows(R, x[1], x[2], x[3]) : TRUE).room

EmptyTally ==
    [hours        |-> [t \in Teachers |-> 0],
     subjectHours |-> [x \in Triples |-> 0],
     lock         |-> [x \in Triples |-> 0],
     lockRoom     |-> [x \in Triples |-> NoRoom],
     lessonsOn    |-> [x \in Classes \X Days |-> 0],
     teacherLock  |-> [x \in Classes \X Subjects |-> NoTeacher]]

\* Row-wise increments and decrements; lessonsOn is counted by the callers.
CountIn(b, R) ==
    [b EXCEPT
        !.hours = [t \in Teachers |->
            @[t] + Cardinality({r \in R : r.teacher = t})],
        !.subjectHours = [x \in Triples |-> @[x] + TripleCount(R, x)],
        !.lock = [x \in Triples |-> @[x] + TripleCount(R, x)],
        !.lockRoom = [x \in Triples |->
            IF b.lock[x] = 0 /\ TripleCount(R, x) > 0 THEN RoomFor(R, x)
                                                      ELSE @[x]]]

\* Broken variant: the room locks are not counted down.
CountOutKeepsLock(b, R) ==
    [b EXCEPT
        !.hours = [t \in Teachers |->
            SatSub(@[t], Cardinality({r \in R : r.teacher = t}))],
        !.subjectHours = [x \in Triples |-> SatSub(@[x], TripleCount(R, x))]]

CountOut(b, R) ==
    [b EXCEPT
        !.hours = [t \in Teachers |->
            SatSub(@[t], Cardinality({r \in R : r.teacher = t}))],
        !.subjectHours = [x \in Triples |-> SatSub(@[x], TripleCount(R, x))],
        !.lock = [x \in Triples |-> SatSub(@[x], TripleCount(R, x))],
        !.lockRoom = [x \in Triples |->
            IF b.lock[x] <= TripleCount(R, x) THEN NoRoom ELSE @[x]]]

\* Blocks of Bs on day x[2] that class x[1] attends; a block is a set of rows
\* of one lesson on one day.
BlocksAt(Bs, x) ==
    Cardinality({B \in Bs : \E r \in B : x[1] \in ClassesOf[r.lesson]
                                         /\ Day(r.slot) = x[2]})

MoreLessons(b, Bs, n) ==
    [b EXCEPT !.lessonsOn =
        [x \in Classes \X Days |-> @[x] + n * BlocksAt(Bs, x)]]

FewerLessons(b, Bs, n) ==
    [b EXCEPT !.lessonsOn =
        [x \in Classes \X Days |-> SatSub(@[x], n * BlocksAt(Bs, x))]]

\* entry(..).or_insert(teacher) for every member class
LockTeacher(b, l, t) ==
    [b EXCEPT !.teacherLock = [x \in Classes \X Subjects |->
        IF x[1] \in ClassesOf[l] /\ x[2] = SubjectOf[l] /\ @[x] = NoTeacher
        THEN t ELSE @[x]]]

\* Broken variant: forgets the locks of lessons that still have rows.
ForgetAllLocks(b, R) == [b EXCEPT !.teacherLock = EmptyTally.teacherLock]

\* After a ruin: forget the lock of every pair that has no row left.
ForgetLocks(b, R) ==
    [b EXCEPT !.teacherLock = [x \in Classes \X Subjects |->
        IF \E r \in R : x[1] \in ClassesOf[r.lesson] /\ SubjectOf[r.lesson] = x[2]
        THEN @[x] ELSE NoTeacher]]

\* Moving rows `old` to rows `new` in one step of the counters.
Recount(b, old, new) == CountIn(CountOut(b, old), new)

-----------------------------------------------------------------------------
(* Candidate rows for a block of lesson l that starts at slot s.            *)

Window(s, n) == {<<Day(s), Pos(s) + k>> : k \in 0..(n - 1)}

Block(l, s, room, t) ==
    {[lesson |-> l, slot |-> w, room |-> room, teacher |-> t] :
        w \in Window(s, BlockSize[l])}

LockKeys(l, d) == {<<c, d, SubjectOf[l]>> : c \in ClassesOf[l]}

LockedTeachers(l) ==
    {tally.teacherLock[<<c, SubjectOf[l]>>] : c \in ClassesOf[l]} \ {NoTeacher}

\* Lock first, then the pin, then the free choice.
TeacherChoices(l) ==
    IF LockedTeachers(l) # {}
    THEN {t \in Teachers : LockedTeachers(l) = {t}}
    ELSE IF TeacherPin[l] # NoTeacher THEN {TeacherPin[l]} ELSE Candidates[l]

\* Broken variant: only the hours already taught count.
HoursAlready(l) == 0

\* A teacher about to be locked must have room for the whole lesson.
HoursRequired(l) ==
    IF LockedTeachers(l) = {} /\ TeacherPin[l] = NoTeacher
    THEN Hours[l] ELSE BlockSize[l]

\* Broken variant: one free class of a cross-class lesson is enough.
AnyClassFree(l, W) == \E c \in ClassesOf[l] : \A w \in W : <<c, w>> \notin used.class

ClassesFree(l, W) == \A c \in ClassesOf[l], w \in W : <<c, w>> \notin used.class

RoomFits(l, room, W) ==
    /\ <<room, SubjectOf[l]>> \in Suits
    /\ \A w \in W : <<room, w>> \notin used.room \cup RoomClosed

TeacherFits(t, W) == \A w \in W : <<t, w>> \notin used.teacher \cup TeacherAway

\* Broken variant: the cap is compared before the new lesson is added.
UnderCapsBefore(l, d, hrs, ls) ==
    \A c \in ClassesOf[l] :
        /\ tally.subjectHours[<<c, d, SubjectOf[l]>>] <= SubjectCap[SubjectOf[l]]
        /\ tally.lessonsOn[<<c, d>>] <= ClassCap[c]

\* Headroom on day d for `hrs` hours and `ls` lessons of l.
UnderCaps(l, d, hrs, ls) ==
    \A c \in ClassesOf[l] :
        /\ tally.subjectHours[<<c, d, SubjectOf[l]>>] + hrs <= SubjectCap[SubjectOf[l]]
        /\ tally.lessonsOn[<<c, d>>] + ls <= ClassCap[c]

\* Broken variant: travel time is looked at from the buffered lesson only.
TravelOneSided(l, s, t, own) ==
    LET meets(r) == r.teacher = t \/ ClassesOf[r.lesson] \cap ClassesOf[l] # {}
        clear(x) == x \in Breaks \cup own \/ \A r \in rows : r.slot = x => ~meets(r)
    IN  /\ l \in PreBuffer =>
             IF Pos(s) = 0 THEN l \in FirstSlotOk ELSE clear(SlotBefore(s))
        /\ l \in PostBuffer =>
             /\ SlotAfter(l, s) \in Slots \cup Breaks
             /\ clear(SlotAfter(l, s))

\* would_violate_travel_buffer, negated: l may start at s with teacher t once
\* the slots `own` are vacated.  First the buffers of the rows already there,
\* row by row, then the buffers of l itself.
TravelFits(l, s, t, own) ==
    LET meets(r) == r.teacher = t \/ ClassesOf[r.lesson] \cap ClassesOf[l] # {}
        clear(x) == x \in Breaks \cup own \/ \A r \in rows : r.slot = x => ~meets(r)
        covered == Window(s, BlockSize[l]) \ Breaks
    IN  /\ \A r \in rows : r.lesson # l /\ r.slot \notin own /\ meets(r) =>
             /\ r.lesson \in PreBuffer => SlotBefore(r.slot) \notin covered
             /\ r.lesson \in PostBuffer => SlotAfter(r.lesson, r.slot) \notin covered
        /\ l \in PreBuffer =>
             IF Pos(s) = 0 THEN l \in FirstSlotOk ELSE clear(SlotBefore(s))
        /\ l \in PostBuffer =>
             /\ SlotAfter(l, s) \in Slots \cup Breaks
             /\ clear(SlotAfter(l, s))

\* Broken variant: a block may run past the end of its day.
CanPlaceAnywhere(l, s, room, t) ==
    LET W == Window(s, BlockSize[l])
    IN  /\ ClassesFree(l, W)
        /\ UnderCaps(l, Day(s), BlockSize[l], 1)
        /\ \A x \in LockKeys(l, Day(s)) : tally.lock[x] > 0 => tally.lockRoom[x] = room
        /\ RoomFits(l, room, W)
        /\ t \in TeacherChoices(l)
        /\ TeacherFits(t, W)
        /\ tally.hours[t] + HoursRequired(l) <= TeacherMax[t]
        /\ TravelFits(l, s, t, {})

\* try_place_block may put l at s in this room with this teacher
CanPlace(l, s, room, t) ==
    LET W == Window(s, BlockSize[l])
    IN  /\ W \subseteq Slots
        /\ ClassesFree(l, W)
        /\ UnderCaps(l, Day(s), BlockSize[l], 1)
        /\ \A x \in LockKeys(l, Day(s)) : tally.lock[x] > 0 => tally.lockRoom[x] = room
        /\ RoomFits(l, room, W)
        /\ t \in TeacherChoices(l)
        /\ TeacherFits(t, W)
        /\ tally.hours[t] + HoursRequired(l) <= TeacherMax[t]
        /\ TravelFits(l, s, t, {})

Placeable(l) ==
    \E s \in Slots, room \in Rooms, t \in Teachers : CanPlace(l, s, room, t)

\* Broken variant: the class's lessons of the day are not counted.
PlaceUncounted(l, s, room, t) ==
    LET B == Block(l, s, room, t)
    IN  /\ CanPlace(l, s, room, t)
        /\ rows' = rows \cup B
        /\ used' = Occupy(used, B)
        /\ tally' = LockTeacher(CountIn(tally, B), l, t)

\* The commit of try_place_block.
Place(l, s, room, t) ==
    LET B == Block(l, s, room, t)
    IN  /\ CanPlace(l, s, room, t)
        /\ rows' = rows \cup B
        /\ used' = Occupy(used, B)
        /\ tally' = LockTeacher(MoreLessons(CountIn(tally, B), {B}, 1), l, t)

-----------------------------------------------------------------------------
(* Greedy construction.                                                     *)

\* ruined: the rows taken out; todo: lessons to place again, in this order;
\* added: blocks placed so far; heads: those of them whose day an undo
\* discounts; goal: {<<target, rows before>>} of a rescue; locks: the teacher
\* locks before the ruin.
NoAttempt == [ruined |-> {}, todo |-> <<>>, added |-> {}, heads |-> {},
              failed |-> FALSE, goal |-> {}, locks |-> EmptyTally.teacherLock]

Blocks(l) == Hours[l] \div BlockSize[l]

\* seed_greedy_state_from_pins counts one lesson per pinned row
SeedLessons ==
    [x \in Classes \X Days |->
        Cardinality({r \in PinnedRows : x[1] \in ClassesOf[r.lesson]
                                        /\ Day(r.slot) = x[2]})]

SeedLocks ==
    [x \in Classes \X Subjects |->
        LET pins == {r \in PinnedRows : x[1] \in ClassesOf[r.lesson]
                                        /\ SubjectOf[r.lesson] = x[2]}
        IN  IF pins = {} THEN NoTeacher ELSE (CHOOSE r \in pins : TRUE).teacher]

Init ==
    /\ phase = "ffd"
    /\ rows = PinnedRows
    /\ used = Occupy(Nobody, PinnedRows)
    /\ tally = [CountIn(EmptyTally, PinnedRows)
                   EXCEPT !.lessonsOn = SeedLessons, !.teacherLock = SeedLocks]
    /\ left = [l \in Lessons |-> IF l \in Frozen THEN 0 ELSE Blocks(l)]
    /\ missed = [l \in Lessons |-> 0]
    /\ best = {}
    /\ attempt = NoAttempt

\* The loop finishes one lesson before it starts the next; the order of the
\* lessons is ffd_order's, which depends on the data.
FfdTurn(l) ==
    /\ phase = "ffd"
    /\ left[l] > 0
    /\ \A m \in Lessons \ {l} : left[m] \in {0, Blocks(m)}

FfdPlace(l) ==
    /\ FfdTurn(l)
    /\ \E s \in Slots, room \in Rooms, t \in Teachers : Place(l, s, room, t)
    /\ left' = [left EXCEPT ![l] = @ - 1]
    /\ UNCHANGED <<phase, missed, best, attempt>>

FfdMiss(l) ==
    /\ FfdTurn(l)
    /\ ~Placeable(l)
    /\ missed' = [missed EXCEPT ![l] = @ + 1]
    /\ left' = [left EXCEPT ![l] = @ - 1]
    /\ UNCHANGED <<phase, rows, used, tally, best, attempt>>

FfdEnd ==
    /\ phase = "ffd"
    /\ \A l \in Lessons : left[l] = 0
    /\ phase' = "search"
    /\ best' = rows
    /\ UNCHANGED <<rows, used, tally, left, missed, attempt>>

-----------------------------------------------------------------------------
(* Local search.  Each iteration ends by comparing with the running best.   *)

\* More hours win.  Of as many the cheaper schedule does, by the price the
\* search keeps of it: BestPriced, and ScoredSearch where the price can be off.
EndIteration(R) == \/ Cardinality(R) <= Cardinality(best) /\ UNCHANGED best
                   \/ Cardinality(R) >= Cardinality(best) /\ best' = R

\* Broken variant: pins are not respected by the moves.
SearchingAll(l) == phase = "search"

Searching(l) == phase = "search" /\ l \notin Frozen

\* What one Change picks up: a row, or a whole block when it is alone on its
\* day and contiguous.
Sources(l) ==
    IF BlockSize[l] = 1 THEN {{r} : r \in RowsOf(rows, l)}
    ELSE {R \in {RowsOfOn(rows, l, d) : d \in DaysOf(rows, l)} :
            \E s \in Slots : {r.slot : r \in R} = Window(s, BlockSize[l])}

\* Rooms a Change may take: the destination's lock if another row holds it,
\* else the old room, else any other that fits.
ChangeRooms(l, old, d, W, own) ==
    LET held == {x \in LockKeys(l, d) :
                    /\ tally.lock[x] > 0
                    /\ ~(old.day = d /\ tally.lock[x] = BlockSize[l])}
        locked == {tally.lockRoom[x] : x \in held}
        fits(room) == RoomFits(l, room, IF room = old.room THEN W \ own ELSE W)
        open == {room \in Rooms : fits(room) /\ \A w \in W : <<room, w>> \notin RoomClosed}
    IN  IF locked # {} THEN {room \in open : locked = {room}}
        ELSE IF old.room \in open THEN {old.room} ELSE open

\* lessons_by_class_day moves by the block size, though a block was counted
\* as one lesson when it was placed.
LessonsMoved(l) == BlockSize[l]

\* try_change_move_n1 and try_change_block_move
Change(l) ==
    /\ Searching(l)
    /\ \E R \in Sources(l), s \in Slots :
        LET own == {r.slot : r \in R}
            W == Window(s, BlockSize[l])
            any == CHOOSE r \in R : TRUE
            old == [day |-> Day(any.slot), room |-> any.room]
        IN  /\ W \subseteq Slots
            /\ W # own
            /\ TeacherFits(any.teacher, W \ own)
            /\ \A w \in W : <<any.teacher, w>> \notin TeacherAway
            /\ ClassesFree(l, W \ own)
            /\ TravelFits(l, s, any.teacher, own)
            /\ old.day # Day(s) => UnderCaps(l, Day(s), BlockSize[l], BlockSize[l])
            /\ \E room \in ChangeRooms(l, old, Day(s), W, own) :
                LET B == Block(l, s, room, any.teacher)
                IN  /\ rows' = (rows \ R) \cup B
                    /\ used' = Occupy(Vacate(used, R), B)
                    /\ tally' = MoreLessons(
                                   FewerLessons(Recount(tally, R, B), {R}, LessonsMoved(l)),
                                   {B}, LessonsMoved(l))
    /\ EndIteration(rows')
    /\ UNCHANGED <<phase, left, missed, attempt>>

\* Swap checks a against b's slot under the overlay "b is leaving" (and the
\* converse): one side of those checks.
SwapFits(a, b) ==
    LET la == a.lesson
        lb == b.lesson
        shared == {c \in ClassesOf[la] \cap ClassesOf[lb] :
                      SubjectOf[la] = SubjectOf[lb]}
    IN  /\ a.teacher # b.teacher => <<a.teacher, b.slot>> \notin used.teacher
        /\ <<a.teacher, b.slot>> \notin TeacherAway
        /\ \A c \in ClassesOf[la] \ ClassesOf[lb] : <<c, b.slot>> \notin used.class
        /\ <<a.room, b.slot>> \notin RoomClosed
        /\ a.room # b.room => <<a.room, b.slot>> \notin used.room
        /\ Day(a.slot) # Day(b.slot) =>
             /\ \A c \in ClassesOf[la] \ ClassesOf[lb] :
                  tally.lessonsOn[<<c, Day(b.slot)>>] + 1 <= ClassCap[c]
             /\ \A c \in ClassesOf[la] \ shared :
                  tally.subjectHours[<<c, Day(b.slot), SubjectOf[la]>>] + 1
                      <= SubjectCap[SubjectOf[la]]
             /\ \A x \in LockKeys(la, Day(b.slot)) :
                  tally.lock[x] > 0 => tally.lockRoom[x] = a.room

\* No swap of blocks, or with a lesson that must stay.
Swappable(l, m) == l # m /\ m \notin Frozen /\ BlockSize[l] = 1 /\ BlockSize[m] = 1

\* The travel time of each, against the schedule before the swap.
SwapTravels(a, b) ==
    /\ TravelFits(a.lesson, b.slot, a.teacher, {a.slot})
    /\ TravelFits(b.lesson, a.slot, b.teacher, {b.slot})

\* try_swap_move: two single-hour lessons trade places.
Swap(l, m) ==
    /\ Searching(l)
    /\ Swappable(l, m)
    /\ \E a \in RowsOf(rows, l), b \in RowsOf(rows, m) :
        LET a2 == [a EXCEPT !.slot = b.slot]
            b2 == [b EXCEPT !.slot = a.slot]
        IN  /\ SwapFits(a, b)
            /\ SwapFits(b, a)
            /\ SwapTravels(a, b)
            /\ rows' = (rows \ {a, b}) \cup {a2, b2}
            /\ used' = Occupy(Vacate(used, {a, b}), {a2, b2})
            /\ tally' =
                 MoreLessons(FewerLessons(
                   MoreLessons(FewerLessons(
                     Recount(tally, {a, b}, {a2, b2}), {{a}}, 1), {{a2}}, 1),
                   {{b}}, 1), {{b2}}, 1)
    /\ EndIteration(rows')
    /\ UNCHANGED <<phase, left, missed, attempt>>

\* Broken variant: rooms of a class's subject may differ on a day.
NeverSplits(p, room) == FALSE

\* would_split_class_day_subject_room
WouldSplit(p, room) ==
    \E q \in rows \ {p} : /\ SubjectOf[q.lesson] = SubjectOf[p.lesson]
                          /\ Day(q.slot) = Day(p.slot)
                          /\ ClassesOf[q.lesson] \cap ClassesOf[p.lesson] # {}
                          /\ q.room # room

\* Broken variant: the room lock keeps the old room.
RelockNothing(b, p, room) == b

RelockRoom(b, p, room) ==
    [b EXCEPT !.lockRoom = [x \in Triples |->
        IF x \in LockKeys(p.lesson, Day(p.slot)) /\ b.lock[x] > 0
        THEN room ELSE @[x]]]

\* try_home_room_repair_move: take the free home room, or trade rooms with
\* the lesson that is in it.
HomeRoomRepair(l) ==
    /\ Searching(l)
    /\ BlockSize[l] = 1
    /\ \E p \in RowsOf(rows, l), home \in Rooms :
        /\ \A c \in ClassesOf[l] : HomeRoom[c] = home
        /\ p.room # home
        /\ <<home, p.slot>> \notin RoomClosed
        /\ <<home, SubjectOf[l]>> \in Suits
        /\ ~WouldSplit(p, home)
        /\ \/ /\ <<home, p.slot>> \notin used.room
              /\ rows' = (rows \ {p}) \cup {[p EXCEPT !.room = home]}
              /\ used' = [used EXCEPT !.room =
                             (@ \ {<<p.room, p.slot>>}) \cup {<<home, p.slot>>}]
              /\ tally' = RelockRoom(tally, p, home)
           \/ \E q \in rows \ {p} :
              /\ q.room = home /\ q.slot = p.slot
              /\ q.lesson \notin Frozen
              /\ BlockSize[q.lesson] = 1
              /\ <<p.room, SubjectOf[q.lesson]>> \in Suits
              /\ ~WouldSplit(q, p.room)
              /\ rows' = (rows \ {p, q}) \cup {[p EXCEPT !.room = home],
                                              [q EXCEPT !.room = p.room]}
              /\ tally' = RelockRoom(RelockRoom(tally, p, home), q, p.room)
              /\ UNCHANGED used
    /\ EndIteration(rows')
    /\ UNCHANGED <<phase, left, missed, attempt>>

-----------------------------------------------------------------------------
(* Ruin and rebuild, shared by rr_attempt and rr_rescue_attempt.            *)

\* The rows of a set, grouped into blocks by lesson and day.
BlocksOf(R) == {RowsOfOn(R, r.lesson, Day(r.slot)) : r \in R}

\* rr_ruin_block on every block of R, then the post-destroy lock cleanup.
TakeOut(R) ==
    /\ rows' = rows \ R
    /\ used' = Vacate(used, R)
    /\ tally' = ForgetLocks(FewerLessons(CountOut(tally, R), BlocksOf(R), 1), rows \ R)

\* Under-placed lessons a rescue may target, and the rows of other lessons of
\* a common class it may ruin with them.
Targets == Underplaced(rows) \ Frozen

Siblings(l) ==
    {r \in rows : /\ r.lesson \notin Frozen /\ r.lesson # l
                  /\ ClassesOf[r.lesson] \cap ClassesOf[l] # {}}

\* Every row of the target goes, and one day's rows of a sibling lesson.
Rescue(l) ==
    /\ phase = "search"
    /\ l \in Targets
    /\ \E r \in Siblings(l) :
        LET R == RowsOf(rows, l) \cup RowsOfOn(rows, r.lesson, Day(r.slot))
        IN  /\ TakeOut(R)
            /\ attempt' = [NoAttempt EXCEPT
                 !.ruined = R,
                 !.todo = Append([i \in 1..Blocks(l) |-> l], r.lesson),
                 !.goal = {<<l, Cardinality(RowsOf(rows, l))>>},
                 !.locks = tally.teacherLock]
    /\ phase' = "rescue"
    /\ UNCHANGED <<left, missed, best>>

\* rr_rescue_attempt finds no target, or a target without siblings.
NoRescue == Targets = {} \/ \E l \in Targets : Siblings(l) = {}

\* Blocks that ruin-and-recreate may take: alone on their day.
Anchors ==
    {B \in BlocksOf(rows) : \A r \in B : /\ r.lesson \notin Frozen
                                        /\ Cardinality(B) <= BlockSize[r.lesson]}

LessonOf(B) == (CHOOSE r \in B : TRUE).lesson

Ruin ==
    /\ phase = "ruin" \/ (phase = "search" /\ NoRescue)
    /\ LET n == IF RuinSize < Cardinality(Anchors) THEN RuinSize
                                                   ELSE Cardinality(Anchors)
       IN  /\ n > 0
           /\ \E chosen \in [1..n -> Anchors] :
               /\ \A i, j \in 1..n : chosen[i] = chosen[j] => i = j
               /\ LET R == UNION {chosen[i] : i \in 1..n}
                  IN  /\ TakeOut(R)
                      /\ attempt' = [NoAttempt EXCEPT
                            !.ruined = R,
                            !.todo = [i \in 1..n |-> LessonOf(chosen[i])],
                            !.locks = tally.teacherLock]
    /\ phase' = "recreate"
    /\ UNCHANGED <<left, missed, best>>

\* rr_attempt returns at once when there is nothing to ruin.
NothingToRuin ==
    /\ phase = "ruin"
    /\ Anchors = {}
    /\ phase' = "search"
    /\ EndIteration(rows)
    /\ UNCHANGED <<rows, used, tally, left, missed, attempt>>

Rebuilding(l) ==
    /\ phase \in {"rescue", "recreate"}
    /\ attempt.todo # <<>>
    /\ l = Head(attempt.todo)

\* A recreated block must not join rows of its lesson on a day this attempt
\* did not ruin.
Collides(l, d) ==
    /\ phase = "recreate"
    /\ RowsOfOn(attempt.ruined, l, d) = {}
    /\ RowsOfOn(rows, l, d) # {}

\* A rescue's undo knows one row group per lesson and looks at the day of the
\* first row only; ruin-and-recreate keeps one group per block.
HeadsGroup(l) == phase = "recreate" \/ RowsOf(UNION attempt.added, l) = {}

RebuildPlace(l) ==
    /\ Rebuilding(l)
    /\ \E s \in Slots, room \in Rooms, t \in Teachers :
        LET B == Block(l, s, room, t)
        IN  /\ Place(l, s, room, t)
            /\ attempt' = [attempt EXCEPT
                 !.todo = Tail(@),
                 !.added = @ \cup {B},
                 !.heads = IF HeadsGroup(l) THEN @ \cup {B} ELSE @,
                 !.failed = @ \/ Collides(l, Day(s))]
    /\ UNCHANGED <<phase, left, missed, best>>

\* A rescue stops at the target's first failure and goes on to the sibling;
\* it fails when the sibling (the last entry) does.
RebuildMiss(l) ==
    /\ Rebuilding(l)
    /\ ~Placeable(l)
    /\ attempt' = [attempt EXCEPT
         !.todo = IF phase = "rescue" /\ Len(@) > 1 THEN <<@[Len(@)]>> ELSE Tail(@),
         !.failed = @ \/ phase = "recreate" \/ Len(attempt.todo) = 1]
    /\ UNCHANGED <<phase, rows, used, tally, left, missed, best>>

Rebuilt == phase \in {"rescue", "recreate"} /\ attempt.todo = <<>>

\* Broken variant: blocks that could not be placed again are ignored.
GateIgnoresFailure ==
    \A g \in attempt.goal :
        Cardinality(RowsOf(UNION attempt.added, g[1])) > g[2]

\* The acceptance gate: nothing failed, and a rescue's target gained rows.
\* Ruin-and-recreate also needs LAHC's consent, which is a choice.
GateOpen ==
    /\ ~attempt.failed
    /\ \A g \in attempt.goal :
         Cardinality(RowsOf(UNION attempt.added, g[1])) > g[2]

Keep ==
    /\ Rebuilt
    /\ GateOpen
    /\ phase' = "search"
    /\ attempt' = NoAttempt
    /\ EndIteration(rows)
    /\ UNCHANGED <<rows, used, tally, left, missed>>

\* rr_rollback: drop the rebuilt rows, replay the ruined ones, restore the
\* teacher locks.
Undo ==
    /\ Rebuilt
    /\ phase = "rescue" => ~GateOpen
    /\ LET R == UNION attempt.added
       IN  /\ rows' = (rows \ R) \cup attempt.ruined
           /\ used' = Occupy(Vacate(used, R), attempt.ruined)
           /\ tally' = [MoreLessons(
                          FewerLessons(Recount(tally, R, attempt.ruined), attempt.heads, 1),
                          BlocksOf(attempt.ruined), 1)
                         EXCEPT !.teacherLock = attempt.locks]
    /\ phase' = IF phase = "rescue" THEN "ruin" ELSE "search"
    /\ attempt' = NoAttempt
    /\ IF phase = "rescue" THEN UNCHANGED best ELSE EndIteration(rows')
    /\ UNCHANGED <<left, missed>>

-----------------------------------------------------------------------------
(* Deadline, iteration limit, cancellation or early exit: the running best  *)
(* is what leaves the solver, and a violation survives only when its lesson *)
(* is still short of hours.                                                 *)

Finish ==
    /\ phase = "search"
    /\ phase' = "done"
    /\ rows' = best
    /\ UNCHANGED <<used, tally, left, missed, best, attempt>>

Reported == {l \in Underplaced(rows) : missed[l] > 0}

Next ==
    \/ \E l \in Lessons :
        \/ FfdPlace(l) \/ FfdMiss(l)
        \/ Change(l) \/ HomeRoomRepair(l) \/ Rescue(l)
        \/ RebuildPlace(l) \/ RebuildMiss(l)
    \/ \E l, m \in Lessons : Swap(l, m)
    \/ FfdEnd \/ Ruin \/ NothingToRuin \/ Keep \/ Undo \/ Finish

\* The tail of an iteration: every step back to the head of the loop.
IterationEnds == phase # "ffd" /\ phase' = "search"

\* Broken variant: a schedule with as many hours wins, too.
BestPricedByHours ==
    IterationEnds => best' = IF Cardinality(rows') >= Cardinality(best) THEN rows' ELSE best

\* The price that an iteration ends with is that of its schedule.
BestPriced == IterationEnds => best' = IF Better(rows', best) THEN rows' ELSE best

PricedNext == Next /\ BestPriced

Spec == Init /\ [][PricedNext]_vars

-----------------------------------------------------------------------------
(* Properties.                                                              *)

LockType == [Classes \X Subjects -> Teachers \cup {NoTeacher}]

UsedType == [teacher : SUBSET (Teachers \X Slots),
             class   : SUBSET (Classes \X Slots),
             room    : SUBSET (Rooms \X Slots)]

TallyType == [hours        : [Teachers -> Nat],
              subjectHours : [Triples -> Nat],
              lock         : [Triples -> Nat],
              lockRoom     : [Triples -> Rooms \cup {NoRoom}],
              lessonsOn    : [Classes \X Days -> Nat],
              teacherLock  : LockType]

AttemptType == [ruined : SUBSET Row,
                todo   : Seq(Lessons),
                added  : SUBSET SUBSET Row,
                heads  : SUBSET SUBSET Row,
                failed : BOOLEAN,
                goal   : SUBSET (Lessons \X Nat),
                locks  : LockType]

TypeOK ==
    /\ phase \in Phases
    /\ rows \in SUBSET Row
    /\ used \in UsedType
    /\ tally \in TallyType
    /\ left \in [Lessons -> Nat]
    /\ missed \in [Lessons -> Nat]
    /\ best \in SUBSET Row
    /\ attempt \in AttemptType

\* At every moment, the middle of a ruin included, no teacher, room or class
\* holds two rows in one slot: the three used sets are the only thing any
\* move looks at to ensure it.
NeverDoubleBooked == NoDoubleBooking(rows)

\* The used sets mirror the placements vector exactly; a stale key would hide
\* a free slot, a missing one would let the next move double-book.
UsedMirrorsRows == phase # "done" => used = Occupy(Nobody, rows)

\* Teacher hours, subject hours per class and day, and the room locks with
\* their reference counts equal what a recount of the placements gives, also
\* half way through a ruin and after an undo.
CountersMirrorRows ==
    phase # "done" =>
      /\ \A t \in Teachers :
           tally.hours[t] = Cardinality({r \in rows : r.teacher = t})
      /\ \A x \in Triples :
           /\ tally.subjectHours[x] = TripleCount(rows, x)
           /\ tally.lock[x] = TripleCount(rows, x)
           /\ {tally.lockRoom[x]} =
                IF TripleCount(rows, x) = 0 THEN {NoRoom}
                ELSE {r.room : r \in TripleRows(rows, x[1], x[2], x[3])}

\* Every row's teacher is the locked one of each (class, subject) pair it
\* serves, so a class never has two teachers in a subject.
TeacherLocksHold ==
    phase # "done" =>
      \A r \in rows : \A c \in ClassesOf[r.lesson] :
        tally.teacherLock[<<c, SubjectOf[r.lesson]>>] = r.teacher

\* lessons_by_class_day never claims fewer lessons than the day has: the
\* class cap is enforced against this counter, not against the rows.
LessonCounterCovers ==
    phase # "done" =>
      \A c \in Classes, d \in Days :
        tally.lessonsOn[<<c, d>>] >= Cardinality(RunsOn(rows, c, d))

\* What the solver returns passes every post-solve validator but those of
\* the class cap and of travel time; a failure turns the whole solve into an error.
ReturnedPassesValidators ==
    phase = "done" =>
      /\ NoDoubleBooking(rows) /\ LessonCardinality(rows) /\ BlockShape(rows)
      /\ NoRoomHopping(rows) /\ SubjectCaps(rows)
      /\ TeachersAllowed(rows) /\ OneTeacherPerClassSubject(rows)

\* The returned schedule keeps every class under max_lessons_per_day, where a
\* double lesson counts once.
ReturnedRespectsClassCaps == phase = "done" => ClassCaps(rows)

\* The returned schedule leaves travel time around every lesson that needs
\* it, whichever move brought the two neighbours together.
ReturnedKeepsTravelTime == phase = "done" => TravelBuffers(rows)

\* Pinned rows are in the schedule at every moment, ruins included, and their
\* lessons have no other row.
PinsNeverMove == {r \in rows : r.lesson \in Pinned} = PinnedRows

\* No one ever teaches beyond the weekly maximum, pins aside, although only
\* placing a block checks it.
TeacherHoursCapped ==
    \A t \in Teachers :
      LET taught == {r \in rows : r.teacher = t /\ r.lesson \notin Pinned}
      IN  taught # {} => Cardinality({r \in rows : r.teacher = t}) <= TeacherMax[t]

\* Every hour the greedy pass failed to place is either in the returned
\* schedule or reported, and nothing else is missing: a schedule without
\* violations is complete.
MissingHoursReported == phase = "done" => Reported = Underplaced(rows)

\* A ruin-and-recreate that passes its gate has put back exactly the hours of
\* each lesson that it took out.
RecreateRestoresHours ==
    phase = "recreate" /\ attempt.todo = <<>> /\ GateOpen =>
      \A l \in Lessons : Cardinality(RowsOf(UNION attempt.added, l))
                         = Cardinality(RowsOf(attempt.ruined, l))

\* A rescue that passes its gate leaves more hours placed than it found: "the
\* combined gate ensures the rescue never leaves the placement count below
\* where it started" (comment in rr_rescue_attempt).
RescueGainsHours ==
    phase = "rescue" /\ attempt.todo = <<>> /\ GateOpen =>
      Cardinality(UNION attempt.added) > Cardinality(attempt.ruined)

\* What the caller may rely on while it cannot see the search: the schedule
\* it would get on cancellation starts conflict-free with every pin in place
\* and from then on only improves, until it is returned unchanged.
Stage == CASE phase = "ffd" -> "building"
           [] phase = "done" -> "returned"
           [] OTHER -> "improving"

Promise == INSTANCE AnytimeTimetable WITH result <- best, stage <- Stage

KeepsPromise == Promise!Spec
=============================================================================
