----------------------------- MODULE LessonGroups -----------------------------
(***************************************************************************)
(* TimetableSearch with lesson groups: lessons of common classes that are  *)
(* given in parallel, each pupil attending one (religious education by     *)
(* denomination).  A group is placed as a whole or not at all, by the      *)
(* greedy pass and by the rescue of an under-placed group                  *)
(* (solver-core/src/solve.rs try_place_group, lahc.rs                      *)
(* rr_rescue_group_attempt); every other move leaves its lessons alone.    *)
(*                                                                         *)
(* Which room and teacher a member takes depends on the order of the       *)
(* members, on ids and on weights: a choice.  As members are served one    *)
(* after the other and never revised, a window may be given up although    *)
(* another distribution of rooms would have fitted.                        *)
(***************************************************************************)
EXTENDS TimetableSearch

VARIABLES
    groupLeft,    \* group -> blocks the greedy loop has still to try
    groupMissed,  \* group -> blocks reported as LessonGroupSplit
    target,       \* {g} while group g is being rescued, or {}
    pending       \* blocks of it that are still to be placed again

groupVars == <<groupLeft, groupMissed, target, pending>>

Distinct(f) == \A l, m \in DOMAIN f : f[l] = f[m] => l = m

\* validate_structural: no two members have the same assigned teacher, the
\* pinned one or the first candidate.
TeachersApart(g) ==
    \E f \in [g -> Teachers] :
        /\ Distinct(f)
        /\ \A l \in g : f[l] \in IF TeacherPin[l] # NoTeacher THEN {TeacherPin[l]} ELSE Candidates[l]

\* A group with a single lesson is placed like any lesson.
ASSUME GroupAssumption == \A g \in Groups : Cardinality(g) > 1 /\ TeachersApart(g)

Member(g) == CHOOSE l \in g : TRUE
GroupBlocks(g) == Blocks(Member(g))
GroupClasses(g) == UNION {ClassesOf[l] : l \in g}

-----------------------------------------------------------------------------
(* try_place_group                                                          *)

\* Broken variant: the class cap is compared as if one lesson came.
WindowOpenApart(g, s) ==
    LET W == Window(s, BlockSize[Member(g)])
    IN  W \subseteq Slots /\ \A l \in g : ClassesFree(l, W) /\ UnderCaps(l, Day(s), BlockSize[l], 1)

\* Broken variant: the classes may be busy.
WindowOpenBlind(g, s) ==
    LET W == Window(s, BlockSize[Member(g)])
    IN  W \subseteq Slots /\ \A l \in g : UnderCaps(l, Day(s), BlockSize[l], Cardinality(g))

\* What does not depend on rooms and teachers: every class of the group has
\* the window free, and room under its caps for all members.
WindowOpen(g, s) ==
    LET W == Window(s, BlockSize[Member(g)])
    IN  /\ W \subseteq Slots
        /\ \A l \in g : ClassesFree(l, W) /\ UnderCaps(l, Day(s), BlockSize[l], 0)
        /\ \A c \in GroupClasses(g) :
             tally.lessonsOn[<<c, Day(s)>>] + Cardinality(g) <= ClassCap[c]

RoomsFor(l, s) ==
    {q \in Rooms : /\ RoomFits(l, q, Window(s, BlockSize[l]))
                   /\ \A x \in LockKeys(l, Day(s)) : tally.lock[x] > 0 => tally.lockRoom[x] = q}

TeachersFor(l, s) ==
    {t \in TeacherChoices(l) : /\ TeacherFits(t, Window(s, BlockSize[l]))
                               /\ tally.hours[t] + HoursRequired(l) <= TeacherMax[t]}

\* The ways to serve the members h of the group, each with an option of its own.
Servings(h, options) ==
    {f \in [h -> UNION {options[l] : l \in h}] : Distinct(f) /\ \A l \in h : f[l] \in options[l]}

\* Serving some members first leaves another without an option.
DeadEnd(g, options) ==
    \E l \in g : \E h \in SUBSET (g \ {l}) : \E f \in Servings(h, options) :
        \A o \in options[l] : \E m \in h : f[m] = o

TravelTogether(g, s, who) == \A l \in g : TravelFits(l, s, who[l], {})

\* The walk over the windows can pass this one by.
GivesUp(g, s) ==
    LET rooms == [l \in g |-> RoomsFor(l, s)]
        teachers == [l \in g |-> TeachersFor(l, s)]
    IN  \/ ~WindowOpen(g, s)
        \/ DeadEnd(g, rooms)
        \/ DeadEnd(g, teachers)
        \/ \E who \in Servings(g, teachers) : ~TravelTogether(g, s, who)

NoWindow(g) == {s \in Slots : ~GivesUp(g, s)} = {}

LockTeachers(b, g, who) ==
    [b EXCEPT !.teacherLock = [x \in Classes \X Subjects |->
        LET serving == {l \in g : x[1] \in ClassesOf[l] /\ SubjectOf[l] = x[2]}
        IN  IF @[x] = NoTeacher /\ serving # {} THEN who[CHOOSE l \in serving : TRUE]
                                                ELSE @[x]]]

\* Broken variant: the group counts as one lesson.
CountGroupOnce(b, blocks) == MoreLessons(CountIn(b, UNION blocks), {UNION blocks}, 1)

CountGroup(b, blocks) == MoreLessons(CountIn(b, UNION blocks), blocks, 1)

PlaceGroup(g, s, room, who) ==
    LET blocks == {Block(l, s, room[l], who[l]) : l \in g}
        R == UNION blocks
    IN  /\ WindowOpen(g, s)
        /\ TravelTogether(g, s, who)
        /\ rows' = rows \cup R
        /\ used' = Occupy(used, R)
        /\ tally' = LockTeachers(CountGroup(tally, blocks), g, who)

PlaceSomewhere(g) ==
    \E s \in Slots :
        LET rooms == [l \in g |-> RoomsFor(l, s)]
            teachers == [l \in g |-> TeachersFor(l, s)]
        IN  \E room \in Servings(g, rooms), who \in Servings(g, teachers) :
              PlaceGroup(g, s, room, who)

-----------------------------------------------------------------------------
(* Greedy construction.                                                     *)

\* A group comes up with its first lesson that is not pinned; all its members
\* are placed then, the pinned ones again.
GroupInit ==
    /\ Init
    /\ groupLeft = [g \in Groups |-> IF g \subseteq Pinned THEN 0 ELSE GroupBlocks(g)]
    /\ groupMissed = [g \in Groups |-> 0]
    /\ target = {} /\ pending = 0

NoGroupBegun == \A g \in Groups : groupLeft[g] \in {0, GroupBlocks(g)}
NoLessonBegun == \A l \in Lessons : left[l] \in {0, Blocks(l)}

GroupTurn(g) ==
    /\ phase = "ffd"
    /\ groupLeft[g] > 0
    /\ NoLessonBegun
    /\ \A h \in Groups \ {g} : groupLeft[h] \in {0, GroupBlocks(h)}
    /\ groupLeft' = [groupLeft EXCEPT ![g] = @ - 1]
    /\ UNCHANGED <<phase, left, missed, best, attempt, target, pending>>

GroupPlace(g) ==
    /\ GroupTurn(g)
    /\ PlaceSomewhere(g)
    /\ UNCHANGED groupMissed

\* Broken variant: nothing is reported.
GroupMissSilently(g) ==
    /\ GroupTurn(g)
    /\ NoWindow(g)
    /\ UNCHANGED <<groupMissed, rows, used, tally>>

GroupMiss(g) ==
    /\ GroupTurn(g)
    /\ NoWindow(g)
    /\ groupMissed' = [groupMissed EXCEPT ![g] = @ + 1]
    /\ UNCHANGED <<rows, used, tally>>

-----------------------------------------------------------------------------
(* Rescue of a group.                                                       *)

GroupTargets == {g \in Groups : \E l \in g : l \in Underplaced(rows) \ Pinned}

RowsOfGroup(R, g) == UNION {RowsOf(R, l) : l \in g}

\* All rows of all members go, the pinned ones too.
GroupRescue(g) ==
    /\ phase = "search"
    /\ g \in GroupTargets
    /\ LET R == RowsOfGroup(rows, g)
       IN  /\ TakeOut(R)
           /\ attempt' = [NoAttempt EXCEPT !.ruined = R, !.locks = tally.teacherLock]
    /\ phase' = "rescue"
    /\ target' = {g} /\ pending' = GroupBlocks(g)
    /\ UNCHANGED <<left, missed, best, groupLeft, groupMissed>>

\* Only the day of the first row of all is discounted by an undo.
GroupRebuild(g) ==
    /\ target = {g}
    /\ pending > 0
    /\ PlaceSomewhere(g)
    /\ \E l \in g :
        LET R == rows' \ rows
        IN  attempt' = [attempt EXCEPT
                !.added = @ \cup {R},
                !.heads = IF attempt.added = {} THEN {RowsOf(R, l)} ELSE @]
    /\ pending' = pending - 1
    /\ UNCHANGED <<phase, left, missed, best, groupLeft, groupMissed, target>>

\* The first block without a window ends the rebuilding.
GroupGiveUp(g) ==
    /\ target = {g}
    /\ pending > 0
    /\ NoWindow(g)
    /\ pending' = 0
    /\ UNCHANGED <<vars, groupLeft, groupMissed, target>>

\* Broken variant: whatever could be placed is kept.
GroupGateAny(g) == attempt.added # {}

\* More hours for each member than any of them had before.
GroupGate(g) ==
    \A l \in g : Cardinality(attempt.added) * BlockSize[l] > Cardinality(RowsOf(attempt.ruined, l))

GroupKeep(g) ==
    /\ target = {g} /\ pending = 0
    /\ GroupGate(g)
    /\ phase' = "search"
    /\ attempt' = NoAttempt
    /\ target' = {}
    /\ EndIteration(rows)
    /\ UNCHANGED <<rows, used, tally, left, missed, groupLeft, groupMissed, pending>>

GroupUndo(g) ==
    /\ target = {g} /\ pending = 0
    /\ ~GroupGate(g)
    /\ LET R == UNION attempt.added
       IN  /\ rows' = (rows \ R) \cup attempt.ruined
           /\ used' = Occupy(Vacate(used, R), attempt.ruined)
           /\ tally' = [MoreLessons(
                          FewerLessons(Recount(tally, R, attempt.ruined), attempt.heads, 1),
                          BlocksOf(attempt.ruined), 1)
                         EXCEPT !.teacherLock = attempt.locks]
    /\ phase' = "ruin"
    /\ attempt' = NoAttempt
    /\ target' = {}
    /\ UNCHANGED <<left, missed, best, groupLeft, groupMissed, pending>>

-----------------------------------------------------------------------------

\* The steps of TimetableSearch, as far as groups let them happen.
SingleStep ==
    /\ \/ \E l \in Lessons :
           \/ NoGroupBegun /\ (FfdPlace(l) \/ FfdMiss(l))
           \/ Change(l) \/ HomeRoomRepair(l) \/ Rescue(l)
           \/ RebuildPlace(l) \/ RebuildMiss(l)
       \/ \E l, m \in Lessons : Swap(l, m)
       \/ FfdEnd /\ \A g \in Groups : groupLeft[g] = 0
       \/ Ruin /\ (phase = "search" /\ GroupTargets # {} =>
                     \E l \in Targets : Siblings(l) = {})
       \/ NothingToRuin \/ Finish
       \/ target = {} /\ (Keep \/ Undo)
    /\ UNCHANGED groupVars

GroupNext ==
    \/ SingleStep
    \/ \E g \in Groups :
         \/ GroupPlace(g) \/ GroupMiss(g)
         \/ GroupRescue(g) \/ GroupRebuild(g) \/ GroupGiveUp(g)
         \/ GroupKeep(g) \/ GroupUndo(g)

GroupSpec == GroupInit /\ [][GroupNext /\ BestPriced]_<<vars, groupVars>>

-----------------------------------------------------------------------------
(* Properties.                                                              *)

\* The lessons of a group are given in the same slots at every moment, rescues
\* and their undo included: a pupil who attends one of them is free in no
\* other slot of the group.
GroupsStayTogether ==
    \A g \in Groups : \A l, m \in g :
        {r.slot : r \in RowsOf(rows, l)} = {r.slot : r \in RowsOf(rows, m)}

\* A class has two lessons in one slot only when they are parallel lessons of
\* one group; teachers and rooms never have (validate_no_double_booking).
OnlyGroupsShareSlots ==
    \A r, q \in rows : r # q /\ Clash(r, q) =>
        /\ r.teacher # q.teacher /\ r.room # q.room
        /\ \E g \in Groups : {r.lesson, q.lesson} \subseteq g

\* A group that the returned schedule leaves short of hours was reported, and
\* all its lessons are short by the same blocks.
SplitGroupsReported ==
    phase = "done" => \A g \in Groups :
        g \cap Underplaced(rows) # {} => g \subseteq Underplaced(rows) /\ groupMissed[g] > 0

\* A rescue of a group ends with more rows than it found, or with exactly the
\* rows it found.
GroupRescueGainsOrRestores ==
    [][target # {} /\ target' = {} =>
         LET found == (rows \ UNION attempt.added) \cup attempt.ruined
         IN  rows' = found \/ Cardinality(rows') > Cardinality(found)]_<<vars, groupVars>>
=============================================================================
