-------------------------- MODULE LessonGroups_proofs --------------------------
(***************************************************************************)
(* Proofs about LessonGroups: types, that the lessons of a group are given *)
(* in the same slots whatever the search does, that a group that is split  *)
(* was reported, that only lessons of a group share slots, and that a      *)
(* rescue of a group is a gain.                                            *)
(***************************************************************************)
EXTENDS LessonGroups, SearchValidators_proofs

GroupTypeOK ==
    /\ TypeOK
    /\ groupLeft \in [Groups -> Nat]
    /\ groupMissed \in [Groups -> Nat]
    /\ target \in SUBSET Groups
    /\ pending \in Nat

-----------------------------------------------------------------------------
(* Placing a group.                                                         *)

\* A group has members, and they have as many hours in blocks of one size.
LEMMA Members ==
  ASSUME NEW g \in Groups
  PROVE  /\ g \in SUBSET Lessons /\ Member(g) \in g
         /\ \A l \in g : BlockSize[l] = BlockSize[Member(g)]
         /\ GroupBlocks(g) \in Nat
<1>1. g # {}
  <2>1. Cardinality(g) > 1
    BY GroupAssumption
  <2> QED
    BY <2>1, FS_EmptySet
<1>2. g \in SUBSET Lessons /\ Member(g) \in g
  BY <1>1, ProblemAssumption DEF ValidGroups, Member
<1> QED
  BY <1>2, BlocksType, ProblemAssumption DEF ValidGroups, GroupBlocks

\* A member is served with a room and a teacher of its own choices.
LEMMA Served ==
  ASSUME NEW g \in Groups, NEW s,
         NEW room \in Servings(g, [l \in g |-> RoomsFor(l, s)]),
         NEW who \in Servings(g, [l \in g |-> TeachersFor(l, s)]),
         NEW l \in g
  PROVE  room[l] \in RoomsFor(l, s) /\ who[l] \in TeachersFor(l, s)
         /\ room[l] \in Rooms /\ who[l] \in Teachers
<1>1. room[l] \in RoomsFor(l, s) /\ who[l] \in TeachersFor(l, s)
  BY DEF Servings
<1>2. l \in Lessons
  BY Members
<1>3. TeacherChoices(l) \subseteq Teachers
  BY <1>2, ProblemAssumption DEF TeacherChoices, ValidLessons
<1> QED
  BY <1>1, <1>3 DEF RoomsFor, TeachersFor

\* Every member with a room and a teacher of its choices.
AllServed(g, s, room, who) ==
    \A l \in g : /\ room[l] \in RoomsFor(l, s) /\ room[l] \in Rooms
                 /\ who[l] \in TeachersFor(l, s) /\ who[l] \in Teachers

\* The slots a lesson is given in.
SlotsOf(R, l) == {r.slot : r \in RowsOf(R, l)}

\* The rows of a placed group.
GroupRows(g, s, room, who) == UNION {Block(l, s, room[l], who[l]) : l \in g}

\* They are in the same window for every member.
LEMMA GroupRowsShape ==
  ASSUME NEW g \in Groups, NEW s \in Slots, NEW room, NEW who,
         AllServed(g, s, room, who),
         Window(s, BlockSize[Member(g)]) \subseteq Slots
  PROVE  /\ {Block(l, s, room[l], who[l]) : l \in g} \in SUBSET SUBSET Row
         /\ GroupRows(g, s, room, who) \in SUBSET Row
         /\ \A r \in GroupRows(g, s, room, who) : r.lesson \in g
         /\ \A l \in g : SlotsOf(GroupRows(g, s, room, who), l)
                           = Window(s, BlockSize[Member(g)])
<1>1. ASSUME NEW l \in g PROVE Block(l, s, room[l], who[l]) \in SUBSET Row
  <2>1. l \in Lessons /\ BlockSize[l] = BlockSize[Member(g)]
    BY Members
  <2> QED
    BY <2>1, BlockType DEF AllServed
<1>2. \A l \in g : \A r \in Block(l, s, room[l], who[l]) : r.lesson = l
  BY DEF Block
<1>3. ASSUME NEW l \in g
      PROVE  SlotsOf(GroupRows(g, s, room, who), l) = Window(s, BlockSize[Member(g)])
  <2> DEFINE W == Window(s, BlockSize[Member(g)])
             B == Block(l, s, room[l], who[l])
  <2>1. RowsOf(GroupRows(g, s, room, who), l) = B
    BY <1>2 DEF RowsOf, GroupRows
  <2>2. BlockSize[l] = BlockSize[Member(g)]
    BY Members
  <2>3. \A r \in B : r.slot \in W
    BY <2>2 DEF Block
  <2>4. ASSUME NEW w \in W PROVE \E r \in B : r.slot = w
    <3>1. [lesson |-> l, slot |-> w, room |-> room[l], teacher |-> who[l]] \in B
      BY <2>2 DEF Block
    <3> QED
      BY <3>1
  <2> HIDE DEF W, B
  <2> QED
    BY <2>1, <2>3, <2>4 DEF SlotsOf, W
<1> QED
  BY <1>1, <1>2, <1>3 DEF GroupRows

\* What the commit of a group does.
LEMMA GroupPlaced ==
  ASSUME NEW g \in Groups, PlaceSomewhere(g)
  PROVE  \E s, room, who :
           /\ s \in Slots /\ PlaceGroup(g, s, room, who)
           /\ AllServed(g, s, room, who)
           /\ Window(s, BlockSize[Member(g)]) \subseteq Slots
           /\ rows' = rows \cup GroupRows(g, s, room, who)
<1>1. PICK s \in Slots :
        \E room \in Servings(g, [l \in g |-> RoomsFor(l, s)]),
           who \in Servings(g, [l \in g |-> TeachersFor(l, s)]) :
             PlaceGroup(g, s, room, who)
  BY DEF PlaceSomewhere
<1>2. PICK room \in Servings(g, [l \in g |-> RoomsFor(l, s)]),
           who \in Servings(g, [l \in g |-> TeachersFor(l, s)]) :
             PlaceGroup(g, s, room, who)
  BY <1>1
<1>3. AllServed(g, s, room, who)
  BY Served DEF AllServed
<1>4. Window(s, BlockSize[Member(g)]) \subseteq Slots
  BY <1>2 DEF PlaceGroup, WindowOpen
<1>5. rows' = rows \cup GroupRows(g, s, room, who)
  BY <1>2 DEF PlaceGroup, GroupRows
<1> QED
  BY <1>2, <1>3, <1>4, <1>5

-----------------------------------------------------------------------------
(* Types.                                                                   *)

\* The commit of a group keeps the types.
LEMMA GroupPlaceType ==
  ASSUME TypeOK, NEW g \in Groups, PlaceSomewhere(g)
  PROVE  rows' \in SUBSET Row /\ used' \in UsedType /\ tally' \in TallyType
<1>1. PICK s, room, who :
           /\ s \in Slots /\ PlaceGroup(g, s, room, who)
           /\ AllServed(g, s, room, who)
           /\ Window(s, BlockSize[Member(g)]) \subseteq Slots
  BY GroupPlaced
<1> DEFINE blocks == {Block(l, s, room[l], who[l]) : l \in g}
           R == UNION blocks
<1>2. R \in SUBSET Row /\ blocks \in SUBSET SUBSET Row
  <2>1. /\ {Block(l, s, room[l], who[l]) : l \in g} \in SUBSET SUBSET Row
        /\ GroupRows(g, s, room, who) \in SUBSET Row
    BY <1>1, GroupRowsShape
  <2> QED
    BY <2>1 DEF GroupRows
<1>3. /\ rows' = rows \cup R /\ used' = Occupy(used, R)
      /\ tally' = LockTeachers(CountGroup(tally, blocks), g, who)
  BY <1>1 DEF PlaceGroup
<1> HIDE DEF blocks
<1>4. CountGroup(tally, blocks) \in TallyType
  <2>1. CountIn(tally, R) \in TallyType
    BY <1>2, CountType DEF TypeOK
  <2> QED
    BY <1>2, <2>1, LessonsType DEF CountGroup
<1>5. ASSUME NEW b \in TallyType PROVE LockTeachers(b, g, who) \in TallyType
  <2> DEFINE serving(x) == {l \in g : x[1] \in ClassesOf[l] /\ SubjectOf[l] = x[2]}
             value(x) == IF b.teacherLock[x] = NoTeacher /\ serving(x) # {}
                         THEN who[CHOOSE l \in serving(x) : TRUE] ELSE b.teacherLock[x]
  <2>1. ASSUME NEW x \in Classes \X Subjects PROVE value(x) \in Teachers \cup {NoTeacher}
    <3>1. serving(x) # {} => (CHOOSE l \in serving(x) : TRUE) \in g
      OBVIOUS
    <3>2. b.teacherLock[x] \in Teachers \cup {NoTeacher}
      BY DEF TallyType, LockType
    <3> HIDE DEF serving
    <3> QED
      BY <1>1, <3>1, <3>2 DEF AllServed
  <2> HIDE DEF value
  <2>2. [x \in Classes \X Subjects |-> value(x)] \in LockType
    BY <2>1 DEF LockType
  <2>3. LockTeachers(b, g, who) = [b EXCEPT !.teacherLock = [x \in Classes \X Subjects |-> value(x)]]
    BY DEF LockTeachers, value
  <2> QED
    BY <2>2, <2>3, LocksType
<1>6. used' \in UsedType
  BY <1>2, <1>3, UsedTyping DEF TypeOK
<1> QED
  BY <1>2, <1>3, <1>4, <1>5, <1>6 DEF TypeOK

\* The start is well typed.
LEMMA GroupInitType == GroupInit => GroupTypeOK
<1> SUFFICES ASSUME GroupInit PROVE GroupTypeOK
  OBVIOUS
<1>1. TypeOK
  BY InitType DEF GroupInit
<1>2. groupLeft \in [Groups -> Nat]
  BY Members DEF GroupInit
<1> QED
  BY <1>1, <1>2 DEF GroupInit, GroupTypeOK

\* The steps that only groups take keep the types.
LEMMA GroupTurnType ==
  ASSUME GroupTypeOK, NEW g \in Groups, GroupPlace(g) \/ GroupMiss(g)
  PROVE  GroupTypeOK'
<1>1. groupLeft' \in [Groups -> Nat]
  BY DEF GroupPlace, GroupMiss, GroupTurn, GroupTypeOK
<1>2. groupMissed' \in [Groups -> Nat] /\ target' \in SUBSET Groups /\ pending' \in Nat
  BY DEF GroupPlace, GroupMiss, GroupTurn, GroupTypeOK
<1>3. TypeOK'
  <2>1. rows' \in SUBSET Row /\ used' \in UsedType /\ tally' \in TallyType
    BY GroupPlaceType DEF GroupPlace, GroupMiss, GroupTypeOK, TypeOK
  <2> QED
    BY <2>1 DEF GroupPlace, GroupMiss, GroupTurn, GroupTypeOK, TypeOK
<1> QED
  BY <1>1, <1>2, <1>3 DEF GroupTypeOK

\* Taking a group out keeps the types.
LEMMA GroupRescueType ==
  ASSUME GroupTypeOK, NEW g \in Groups, GroupRescue(g)
  PROVE  GroupTypeOK'
<1> DEFINE R == RowsOfGroup(rows, g)
<1>1. R \in SUBSET Row /\ TakeOut(R)
  BY DEF RowsOfGroup, RowsOf, GroupTypeOK, TypeOK, GroupRescue
<1>2. rows' \in SUBSET Row /\ used' \in UsedType /\ tally' \in TallyType
  BY <1>1, TakeOutType DEF GroupTypeOK
<1>3. attempt' = [NoAttempt EXCEPT !.ruined = R, !.locks = tally.teacherLock]
  BY DEF GroupRescue
<1> HIDE DEF R
<1>4. attempt' \in AttemptType
  BY <1>1, <1>3, EmptyType DEF AttemptType, GroupTypeOK, TypeOK, TallyType
<1>5. TypeOK'
  BY <1>2, <1>4 DEF GroupRescue, GroupTypeOK, TypeOK, Phases
<1> QED
  BY <1>5, Members DEF GroupRescue, GroupTypeOK

\* So does placing a block of it again,
LEMMA GroupRebuildType ==
  ASSUME GroupTypeOK, NEW g \in Groups, GroupRebuild(g)
  PROVE  GroupTypeOK'
<1>1. rows' \in SUBSET Row /\ used' \in UsedType /\ tally' \in TallyType
  <2>1. TypeOK /\ PlaceSomewhere(g)
    BY DEF GroupRebuild, GroupTypeOK
  <2> QED
    BY ONLY <2>1, GroupPlaceType
<1>2. PICK l \in g :
        attempt' = [attempt EXCEPT
                !.added = @ \cup {rows' \ rows},
                !.heads = IF attempt.added = {} THEN {RowsOf(rows' \ rows, l)} ELSE @]
  BY DEF GroupRebuild
<1> DEFINE heads == IF attempt.added = {} THEN {RowsOf(rows' \ rows, l)} ELSE attempt.heads
<1>3. heads \in SUBSET SUBSET Row /\ attempt.added \cup {rows' \ rows} \in SUBSET SUBSET Row
  BY <1>1 DEF RowsOf, GroupTypeOK, TypeOK, AttemptType
<1>4. attempt' = [attempt EXCEPT !.added = @ \cup {rows' \ rows}, !.heads = heads]
  BY <1>2
<1> HIDE DEF heads
<1>5. attempt' \in AttemptType
  BY <1>3, <1>4 DEF AttemptType, GroupTypeOK, TypeOK
<1>6. TypeOK'
  BY <1>1, <1>5 DEF GroupRebuild, GroupTypeOK, TypeOK
<1> QED
  BY <1>6 DEF GroupRebuild, GroupTypeOK

\* putting it back as it was,
LEMMA GroupUndoType ==
  ASSUME GroupTypeOK, NEW g \in Groups, GroupUndo(g)
  PROVE  GroupTypeOK'
<1> DEFINE R == UNION attempt.added
<1>1. R \in SUBSET Row /\ attempt.ruined \in SUBSET Row /\ attempt.heads \in SUBSET SUBSET Row
      /\ attempt.locks \in LockType
  BY DEF GroupTypeOK, TypeOK, AttemptType
<1>2. BlocksOf(attempt.ruined) \in SUBSET SUBSET Row
  BY <1>1 DEF BlocksOf, RowsOfOn
<1> DEFINE b0 == Recount(tally, R, attempt.ruined)
           b1 == FewerLessons(b0, attempt.heads, 1)
           b2 == MoreLessons(b1, BlocksOf(attempt.ruined), 1)
<1>3. b0 \in TallyType
  BY <1>1, CountType DEF Recount, GroupTypeOK, TypeOK
<1>4. b1 \in TallyType
  <2> HIDE DEF b0
  <2> QED
    BY <1>1, <1>3, LessonsType
<1>5. b2 \in TallyType
  <2> HIDE DEF b1
  <2> QED
    BY <1>2, <1>4, LessonsType
<1>6. tally' \in TallyType
  <2>1. tally' = [b2 EXCEPT !.teacherLock = attempt.locks]
    BY DEF GroupUndo
  <2> HIDE DEF b2
  <2> QED
    BY <1>1, <1>5, <2>1, LocksType
<1>7. used' \in UsedType
  BY <1>1, UsedTyping DEF GroupUndo, GroupTypeOK, TypeOK
<1>8. rows' \in SUBSET Row
  BY <1>1 DEF GroupUndo, GroupTypeOK, TypeOK
<1>9. TypeOK'
  BY <1>6, <1>7, <1>8, EmptyType DEF GroupUndo, GroupTypeOK, TypeOK, Phases
<1> QED
  BY <1>9 DEF GroupUndo, GroupTypeOK

\* and ending its rescue.
LEMMA GroupKeepType ==
  ASSUME GroupTypeOK, NEW g \in Groups, GroupKeep(g) \/ GroupGiveUp(g)
  PROVE  GroupTypeOK'
<1>1. CASE GroupKeep(g)
  <2>1. best' \in SUBSET Row
    BY <1>1, EndIterationType DEF GroupKeep, GroupTypeOK, TypeOK
  <2> QED
    BY <1>1, <2>1, EmptyType DEF GroupKeep, GroupTypeOK, TypeOK, Phases
<1>2. CASE GroupGiveUp(g)
  BY <1>2 DEF GroupGiveUp, vars, GroupTypeOK, TypeOK
<1> QED
  BY <1>1, <1>2

\* A step of a single lesson is one of the search.
LEMMA SingleStepNext == SingleStep => Next /\ UNCHANGED groupVars
BY DEF SingleStep, Next

\* Groups or not, every step keeps the types.
LEMMA GroupNextType ==
  GroupTypeOK /\ [GroupNext]_<<vars, groupVars>> => GroupTypeOK'
<1> SUFFICES ASSUME GroupTypeOK, [GroupNext]_<<vars, groupVars>> PROVE GroupTypeOK'
  OBVIOUS
<1>1. CASE SingleStep
  <2>1. TypeOK' /\ UNCHANGED groupVars
    BY <1>1, NextType, SingleStepNext DEF GroupTypeOK
  <2> QED
    BY <2>1 DEF GroupTypeOK, groupVars
<1>2. CASE UNCHANGED <<vars, groupVars>>
  BY <1>2 DEF vars, groupVars, GroupTypeOK, TypeOK
<1> QED
  BY <1>1, <1>2, GroupTurnType, GroupRescueType, GroupRebuildType, GroupUndoType,
     GroupKeepType DEF GroupNext

\* What decides between two schedules with as many hours does not matter.
LEMMA GroupLoose == GroupSpec => GroupInit /\ [][GroupNext]_<<vars, groupVars>>
<1>1. [GroupNext /\ BestPriced]_<<vars, groupVars>> => [GroupNext]_<<vars, groupVars>>
  OBVIOUS
<1> QED
  BY <1>1, PTL DEF GroupSpec

\* With groups, too, every variable keeps its type: a group's placement, its
\* rescue and the undo of one name only slots, rooms and teachers there are,
\* and no counter goes below zero.
THEOREM GroupTypeCorrect == GroupSpec => []GroupTypeOK
BY GroupInitType, GroupNextType, GroupLoose, PTL

-----------------------------------------------------------------------------
(* The lessons of a group stay together.                                    *)

HeldTogether(R) == \A g \in Groups : \A l, m \in g : SlotsOf(R, l) = SlotsOf(R, m)

\* Rows of lessons in no group.
Ungrouped(R) == \A r \in R : r.lesson \notin Grouped

\* The rows of lessons in groups.
GroupedRows(R) == {r \in R : r.lesson \in Grouped}

\* Single lessons are placed, taken out and placed again apart from the groups;
\* while a group is out no single lesson is.
TurnsInv ==
    /\ \A l \in Grouped : left[l] = 0
    /\ target # {} => phase = "rescue" /\ attempt.todo = <<>>
    /\ target = {} =>
         /\ \A i \in 1..Len(attempt.todo) : attempt.todo[i] \notin Grouped
         /\ Ungrouped(attempt.ruined) /\ Ungrouped(UNION attempt.added)

\* The slots of the lessons of a group are those of the schedule that a search
\* or a rescue may go back to, too.
TogetherInv ==
    /\ TurnsInv
    /\ HeldTogether(rows) /\ HeldTogether(best)
    /\ target # {} => HeldTogether(rows \ UNION attempt.added) /\ HeldTogether(attempt.ruined)

\* A step that touches rows of lessons in no group only.
OthersOnly ==
    /\ target = {} /\ target' = {}
    /\ best' = best \/ best' = rows'
    /\ \E A, B : Ungrouped(A) /\ Ungrouped(B) /\ rows' = (rows \ A) \cup B

\* A member's rows, joined and taken apart.
LEMMA TogetherParts ==
  ASSUME NEW R, NEW S, HeldTogether(R)
  PROVE  /\ HeldTogether(S) => HeldTogether(R \cup S)
         /\ Ungrouped(S) => HeldTogether(R \ S) /\ HeldTogether(R \cup S)
<1>1. ASSUME NEW l PROVE SlotsOf(R \cup S, l) = SlotsOf(R, l) \cup SlotsOf(S, l)
  BY DEF SlotsOf, RowsOf
<1>2. ASSUME HeldTogether(S) PROVE HeldTogether(R \cup S)
  <2> SUFFICES ASSUME NEW g \in Groups, NEW l \in g, NEW m \in g
               PROVE  SlotsOf(R \cup S, l) = SlotsOf(R \cup S, m)
    BY DEF HeldTogether
  <2>1. SlotsOf(R, l) = SlotsOf(R, m) /\ SlotsOf(S, l) = SlotsOf(S, m)
    BY <1>2 DEF HeldTogether
  <2>2. /\ SlotsOf(R \cup S, l) = SlotsOf(R, l) \cup SlotsOf(S, l)
        /\ SlotsOf(R \cup S, m) = SlotsOf(R, m) \cup SlotsOf(S, m)
    BY <1>1
  <2> QED
    BY <2>1, <2>2
<1>3. ASSUME Ungrouped(S), NEW l \in Grouped
      PROVE  SlotsOf(R \ S, l) = SlotsOf(R, l) /\ SlotsOf(S, l) = {}
  <2>1. RowsOf(S, l) = {} /\ RowsOf(R \ S, l) = RowsOf(R, l)
    BY <1>3 DEF RowsOf, Ungrouped
  <2> QED
    BY <2>1 DEF SlotsOf
<1>4. \A g \in Groups : \A l \in g : l \in Grouped
  BY DEF Grouped
<1>5. Ungrouped(S) => HeldTogether(R \ S)
  BY <1>3, <1>4 DEF HeldTogether
<1>6. Ungrouped(S) => HeldTogether(S)
  BY <1>3, <1>4 DEF HeldTogether
<1> QED
  BY <1>2, <1>5, <1>6

\* Rows of other lessons come and go.
LEMMA OthersMove ==
  ASSUME NEW R, NEW A, NEW B, Ungrouped(A), Ungrouped(B)
  PROVE  GroupedRows((R \ A) \cup B) = GroupedRows(R)
BY DEF GroupedRows, Ungrouped

\* A group goes as a whole.
LEMMA TogetherWithout ==
  ASSUME NEW R, NEW g \in Groups, HeldTogether(R)
  PROVE  HeldTogether(RowsOfGroup(R, g)) /\ HeldTogether(R \ RowsOfGroup(R, g))
<1> DEFINE S == RowsOfGroup(R, g)
<1>1. ASSUME NEW h \in Groups, NEW l \in h
      PROVE  /\ RowsOf(S, l) = IF h = g THEN RowsOf(R, l) ELSE {}
             /\ RowsOf(R \ S, l) = IF h = g THEN {} ELSE RowsOf(R, l)
  <2>1. l \in g <=> h = g
    BY ProblemAssumption DEF ValidGroups
  <2> QED
    BY <2>1 DEF RowsOfGroup, RowsOf
<1> HIDE DEF S
<1>2. HeldTogether(S)
  <2> SUFFICES ASSUME NEW h \in Groups, NEW l \in h, NEW m \in h
               PROVE  SlotsOf(S, l) = SlotsOf(S, m)
    BY DEF HeldTogether
  <2>1. SlotsOf(R, l) = SlotsOf(R, m)
    BY DEF HeldTogether
  <2>2. CASE h = g
    BY <1>1, <2>1, <2>2 DEF SlotsOf
  <2>3. CASE h # g
    BY <1>1, <2>3 DEF SlotsOf
  <2> QED
    BY <2>2, <2>3
<1>3. HeldTogether(R \ S)
  <2> SUFFICES ASSUME NEW h \in Groups, NEW l \in h, NEW m \in h
               PROVE  SlotsOf(R \ S, l) = SlotsOf(R \ S, m)
    BY DEF HeldTogether
  <2>1. SlotsOf(R, l) = SlotsOf(R, m)
    BY DEF HeldTogether
  <2>2. CASE h = g
    BY <1>1, <2>2 DEF SlotsOf
  <2>3. CASE h # g
    BY <1>1, <2>1, <2>3 DEF SlotsOf
  <2> QED
    BY <2>2, <2>3
<1> QED
  BY <1>2, <1>3 DEF S

\* The search for a better timetable and the greedy pass begin with no group
\* taken out.
LEMMA NoTarget == ASSUME TurnsInv, phase # "rescue" PROVE target = {}
BY DEF TurnsInv

\* A move of lessons in no group.
LEMMA MovedTurns ==
  ASSUME TurnsInv, target = {}, target' = {}, NEW A, NEW B, Ungrouped(A), Ungrouped(B),
         rows' = (rows \ A) \cup B, best' = best \/ best' = rows',
         \A l \in Grouped : left'[l] = 0, attempt' = attempt
  PROVE  TurnsInv' /\ OthersOnly
BY DEF TurnsInv, OthersOnly

\* A step that leaves the schedule alone.
LEMMA SameRows ==
  ASSUME target = {}, target' = {}, best' = best \/ best' = rows', rows' = rows
  PROVE  OthersOnly
<1>1. Ungrouped({}) /\ rows' = (rows \ {}) \cup {}
  BY DEF Ungrouped
<1> QED
  BY <1>1 DEF OthersOnly

\* Lessons of groups wait for their group.
LEMMA FfdTurns ==
  ASSUME GroupTypeOK, TurnsInv, NEW l \in Lessons, FfdPlace(l) \/ FfdMiss(l),
         UNCHANGED groupVars
  PROVE  TurnsInv' /\ OthersOnly
<1>1. phase = "ffd" /\ left[l] > 0 /\ left' = [left EXCEPT ![l] = @ - 1]
      /\ best' = best /\ attempt' = attempt
  BY DEF FfdPlace, FfdMiss, FfdTurn
<1>2. l \notin Grouped /\ target = {} /\ target' = {}
  BY <1>1, NoTarget DEF TurnsInv, groupVars
<1>3. \A m \in Grouped : left'[m] = 0
  <2>1. Grouped \subseteq Lessons
    BY ProblemAssumption DEF Grouped, ValidGroups
  <2> QED
    BY <1>1, <1>2, <2>1 DEF TurnsInv, GroupTypeOK, TypeOK
<1>4. CASE FfdPlace(l)
  <2>1. PICK s \in Slots, room \in Rooms, t \in Teachers : Place(l, s, room, t)
    BY <1>4 DEF FfdPlace
  <2>2. rows' = (rows \ {}) \cup Block(l, s, room, t)
    BY <2>1 DEF Place
  <2>3. Ungrouped({}) /\ Ungrouped(Block(l, s, room, t))
    BY <1>2 DEF Ungrouped, Block
  <2> QED
    BY <1>1, <1>2, <1>3, <2>2, <2>3, MovedTurns
<1>5. CASE FfdMiss(l)
  BY <1>1, <1>2, <1>3, <1>5, SameRows DEF FfdMiss, TurnsInv
<1> QED
  BY <1>4, <1>5

\* The moves of the local search leave the lessons of groups alone.
LEMMA ChangeTurns ==
  ASSUME GroupTypeOK, TurnsInv, NEW l \in Lessons, Change(l), UNCHANGED groupVars
  PROVE  TurnsInv' /\ OthersOnly
<1>1. PICK R, s, room, t :
        R \in Sources(l) /\ rows' = (rows \ R) \cup Block(l, s, room, t)
  BY DEF Change
<1>2. phase = "search" /\ l \notin Grouped /\ UNCHANGED <<left, attempt>> /\ EndIteration(rows')
  BY DEF Change, Searching, Frozen
<1>3. \A r \in R : r.lesson = l
  <2>1. CASE BlockSize[l] = 1
    BY <1>1, <2>1 DEF Sources, RowsOf
  <2>2. CASE BlockSize[l] # 1
    <3>1. R \in {RowsOfOn(rows, l, d) : d \in DaysOf(rows, l)}
      BY <1>1, <2>2 DEF Sources
    <3> QED
      BY <3>1 DEF RowsOfOn
  <2> QED
    BY <2>1, <2>2
<1>4. Ungrouped(R) /\ Ungrouped(Block(l, s, room, t))
  BY <1>2, <1>3 DEF Ungrouped, Block
<1>5. target = {} /\ target' = {}
  BY <1>2, NoTarget DEF groupVars
<1>6. \A m \in Grouped : left'[m] = 0
  BY <1>2 DEF TurnsInv
<1> QED
  BY <1>1, <1>2, <1>4, <1>5, <1>6, MovedTurns DEF EndIteration

\* Swap trades the slots of two lessons in no group.
LEMMA SwapTurns ==
  ASSUME GroupTypeOK, TurnsInv, NEW l \in Lessons, NEW m \in Lessons, Swap(l, m),
         UNCHANGED groupVars
  PROVE  TurnsInv' /\ OthersOnly
<1>1. PICK p \in RowsOf(rows, l), q \in RowsOf(rows, m) :
        rows' = (rows \ {p, q}) \cup {[p EXCEPT !.slot = q.slot], [q EXCEPT !.slot = p.slot]}
  BY DEF Swap
<1>2. phase = "search" /\ l \notin Grouped /\ m \notin Grouped
      /\ UNCHANGED <<left, attempt>> /\ EndIteration(rows')
  BY DEF Swap, Searching, Swappable, Frozen
<1>3. p \in Row /\ q \in Row /\ p.lesson = l /\ q.lesson = m
  BY DEF RowsOf, GroupTypeOK, TypeOK
<1>4. /\ [p EXCEPT !.slot = q.slot].lesson = l
      /\ [q EXCEPT !.slot = p.slot].lesson = m
  BY <1>3 DEF Row
<1>5. /\ Ungrouped({p, q})
      /\ Ungrouped({[p EXCEPT !.slot = q.slot], [q EXCEPT !.slot = p.slot]})
  BY <1>2, <1>3, <1>4 DEF Ungrouped
<1>6. target = {} /\ target' = {}
  BY <1>2, NoTarget DEF groupVars
<1>7. \A k \in Grouped : left'[k] = 0
  BY <1>2 DEF TurnsInv
<1> QED
  BY <1>1, <1>2, <1>5, <1>6, <1>7, MovedTurns DEF EndIteration

\* A home-room repair, too, moves lessons in no group only.
LEMMA RepairTurns ==
  ASSUME GroupTypeOK, TurnsInv, NEW l \in Lessons, HomeRoomRepair(l), UNCHANGED groupVars
  PROVE  TurnsInv' /\ OthersOnly
<1>picked. PICK p \in RowsOf(rows, l), home \in Rooms : Rehousing(l, p, home)
  BY RepairRehouses
<1>1. \/ rows' = (rows \ {p}) \cup {[p EXCEPT !.room = home]}
      \/ \E q \in rows \ {p} :
           /\ q.lesson \notin Frozen
           /\ rows' = (rows \ {p, q}) \cup {[p EXCEPT !.room = home], [q EXCEPT !.room = p.room]}
  BY ONLY <1>picked DEF Rehousing
<1>2. phase = "search" /\ l \notin Grouped /\ UNCHANGED <<left, attempt>> /\ EndIteration(rows')
  BY DEF HomeRoomRepair, Searching, Frozen
<1>3. p \in rows /\ p.lesson = l /\ rows \in SUBSET Row
  BY DEF RowsOf, GroupTypeOK, TypeOK
<1>4. ASSUME NEW r \in rows, NEW room PROVE [r EXCEPT !.room = room].lesson = r.lesson
  BY <1>3 DEF Row
<1>5. \E A, B : Ungrouped(A) /\ Ungrouped(B) /\ rows' = (rows \ A) \cup B
  <2>1. CASE rows' = (rows \ {p}) \cup {[p EXCEPT !.room = home]}
    <3>1. Ungrouped({p}) /\ Ungrouped({[p EXCEPT !.room = home]})
      BY <1>2, <1>3, <1>4 DEF Ungrouped
    <3> QED
      BY <2>1, <3>1
  <2>2. CASE \E q \in rows \ {p} :
               /\ q.lesson \notin Frozen
               /\ rows' = (rows \ {p, q}) \cup {[p EXCEPT !.room = home],
                                               [q EXCEPT !.room = p.room]}
    <3>1. PICK q \in rows \ {p} :
            /\ q.lesson \notin Frozen
            /\ rows' = (rows \ {p, q}) \cup {[p EXCEPT !.room = home], [q EXCEPT !.room = p.room]}
      BY <2>2
    <3>2. Ungrouped({p, q}) /\ Ungrouped({[p EXCEPT !.room = home], [q EXCEPT !.room = p.room]})
      BY <1>2, <1>3, <1>4, <3>1 DEF Ungrouped, Frozen
    <3> QED
      BY <3>1, <3>2
  <2> QED
    BY <1>1, <2>1, <2>2
<1>6. target = {} /\ target' = {}
  BY <1>2, NoTarget DEF groupVars
<1>7. \A k \in Grouped : left'[k] = 0
  BY <1>2 DEF TurnsInv
<1> QED
  BY <1>2, <1>5, <1>6, <1>7, MovedTurns DEF EndIteration

\* What a ruin takes out, and the turns it leaves, are lessons in no group.
LEMMA RuinedTurns ==
  ASSUME TurnsInv, target = {}, target' = {}, NEW R, Ungrouped(R), TakeOut(R),
         attempt'.ruined = R, attempt'.added = {},
         \A i \in 1..Len(attempt'.todo) : attempt'.todo[i] \notin Grouped,
         UNCHANGED <<left, best>>
  PROVE  TurnsInv' /\ OthersOnly
<1>1. Ungrouped(UNION attempt'.added) /\ Ungrouped({})
  BY DEF Ungrouped
<1>2. rows' = (rows \ R) \cup {}
  BY DEF TakeOut
<1> QED
  BY <1>1, <1>2 DEF TurnsInv, OthersOnly

\* The rescue of a single lesson takes out a lesson in no group and its sibling.
LEMMA RescuedTurns ==
  ASSUME GroupTypeOK, TurnsInv, NEW l \in Lessons, Rescue(l), UNCHANGED groupVars
  PROVE  TurnsInv' /\ OthersOnly
<1>1. PICK r \in Siblings(l) :
        LET R == RowsOf(rows, l) \cup RowsOfOn(rows, r.lesson, Day(r.slot))
        IN  /\ TakeOut(R)
            /\ attempt' = [NoAttempt EXCEPT
                 !.ruined = R,
                 !.todo = Append([i \in 1..Blocks(l) |-> l], r.lesson),
                 !.goal = {<<l, Cardinality(RowsOf(rows, l))>>},
                 !.locks = tally.teacherLock]
  BY DEF Rescue
<1> DEFINE R == RowsOf(rows, l) \cup RowsOfOn(rows, r.lesson, Day(r.slot))
           turns == [i \in 1..Blocks(l) |-> l]
<1>2. l \notin Grouped /\ r.lesson \notin Grouped /\ r.lesson \in Lessons
      /\ target = {} /\ target' = {} /\ UNCHANGED <<left, best>>
  <2>1. l \notin Grouped /\ r.lesson \notin Grouped /\ phase = "search"
    BY DEF Rescue, Targets, Siblings, Frozen
  <2>2. r \in Row
    BY DEF Siblings, GroupTypeOK, TypeOK
  <2> QED
    BY <2>1, <2>2, NoTarget DEF Row, Rescue, groupVars
<1>3. Ungrouped(R)
  BY <1>2 DEF RowsOf, RowsOfOn, Ungrouped
<1>4. attempt'.ruined = R /\ attempt'.added = {} /\ attempt'.todo = Append(turns, r.lesson)
  <2> HIDE DEF R, turns
  <2> QED
    BY <1>1 DEF NoAttempt, R, turns
<1>5. \A i \in 1..Len(attempt'.todo) : attempt'.todo[i] \notin Grouped
  <2>1. Blocks(l) \in Nat
    BY BlocksType
  <2>2. turns \in Seq(Lessons) /\ Len(turns) = Blocks(l)
    BY <2>1, SeqDef
  <2>3. \A i \in 1..Blocks(l) : turns[i] = l
    OBVIOUS
  <2> HIDE DEF turns
  <2>4. \A i \in 1..Len(Append(turns, r.lesson)) :
          Append(turns, r.lesson)[i] = l \/ Append(turns, r.lesson)[i] = r.lesson
    BY <1>2, <2>1, <2>2, <2>3
  <2> QED
    BY <1>2, <1>4, <2>4
<1> HIDE DEF R
<1>6. TakeOut(R)
  BY <1>1 DEF R
<1> QED
  BY <1>2, <1>3, <1>4, <1>5, <1>6, RuinedTurns

\* Anchors are blocks of lessons in no group.
LEMMA RuinTurns ==
  ASSUME GroupTypeOK, TurnsInv, Ruin, UNCHANGED groupVars
  PROVE  TurnsInv' /\ OthersOnly
<1> DEFINE n == IF RuinSize < Cardinality(Anchors) THEN RuinSize
                                                   ELSE Cardinality(Anchors)
<1>1. PICK chosen \in [1..n -> Anchors] :
        LET R == UNION {chosen[i] : i \in 1..n}
        IN  /\ TakeOut(R)
            /\ attempt' = [NoAttempt EXCEPT
                  !.ruined = R,
                  !.todo = [i \in 1..n |-> LessonOf(chosen[i])],
                  !.locks = tally.teacherLock]
  BY DEF Ruin
<1> DEFINE R == UNION {chosen[i] : i \in 1..n}
           turns == [i \in 1..n |-> LessonOf(chosen[i])]
<1>2. n \in Nat
  <2>1. Anchors \in SUBSET SUBSET Row
    BY DEF Anchors, BlocksOf, RowsOfOn, GroupTypeOK, TypeOK
  <2>2. IsFiniteSet(SUBSET Row)
    BY RowFinite, FS_SUBSET
  <2>3. Cardinality(Anchors) \in Nat
    BY <2>1, <2>2, FS_Subset, FS_CardinalityType
  <2> QED
    BY <2>3, SearchAssumption
<1>3. \A B \in Anchors : Ungrouped(B) /\ LessonOf(B) \notin Grouped
  <2>1. \A B \in Anchors : B # {} /\ Ungrouped(B)
    BY DEF Anchors, BlocksOf, RowsOfOn, Ungrouped, Frozen
  <2> QED
    BY <2>1 DEF LessonOf, Ungrouped
<1> HIDE DEF n
<1>4. Ungrouped(R)
  BY <1>3 DEF Ungrouped
<1>5. attempt'.ruined = R /\ attempt'.added = {} /\ attempt'.todo = turns
  <2> HIDE DEF R, turns
  <2> QED
    BY <1>1 DEF NoAttempt, R, turns
<1>6. \A i \in 1..Len(attempt'.todo) : attempt'.todo[i] \notin Grouped
  BY <1>2, <1>3, <1>5
<1> HIDE DEF R
<1>7. TakeOut(R)
  BY <1>1 DEF R
<1>8. target = {} /\ target' = {} /\ UNCHANGED <<left, best>>
  BY NoTarget DEF Ruin, groupVars
<1> QED
  BY <1>4, <1>5, <1>6, <1>7, <1>8, RuinedTurns

\* The turns that are left after one.
LEMMA TurnsLeft ==
  ASSUME NEW todo \in Seq(Lessons), todo # <<>>,
         \A i \in 1..Len(todo) : todo[i] \notin Grouped
  PROVE  /\ Head(todo) \notin Grouped
         /\ \A i \in 1..Len(Tail(todo)) : Tail(todo)[i] \notin Grouped
         /\ \A i \in 1..Len(<<todo[Len(todo)]>>) : <<todo[Len(todo)]>>[i] \notin Grouped
<1>1. /\ Head(todo) = todo[1] /\ 1 \in 1..Len(todo) /\ Len(todo) \in 1..Len(todo)
      /\ Len(Tail(todo)) = Len(todo) - 1
      /\ \A i \in 1..Len(Tail(todo)) : Tail(todo)[i] = todo[i + 1] /\ i + 1 \in 1..Len(todo)
  BY HeadTailProperties
<1> QED
  BY <1>1

\* A turn is only taken while no group is out.
LEMMA TurnNoTarget ==
  ASSUME TurnsInv, NEW l, Rebuilding(l), GroupTypeOK
  PROVE  /\ target = {} /\ l \notin Grouped /\ attempt \in AttemptType
         /\ \A i \in 1..Len(Tail(attempt.todo)) : Tail(attempt.todo)[i] \notin Grouped
         /\ \A i \in 1..Len(<<attempt.todo[Len(attempt.todo)]>>) :
              <<attempt.todo[Len(attempt.todo)]>>[i] \notin Grouped
<1>1. attempt.todo # <<>> /\ l = Head(attempt.todo) /\ target = {} /\ attempt \in AttemptType
  BY DEF Rebuilding, TurnsInv, GroupTypeOK, TypeOK
<1>2. attempt.todo \in Seq(Lessons) /\ \A i \in 1..Len(attempt.todo) : attempt.todo[i] \notin Grouped
  BY <1>1 DEF TurnsInv, AttemptType
<1> QED
  BY <1>1, <1>2, TurnsLeft

\* What is placed again was taken out: lessons in no group.
LEMMA RebuildTurns ==
  ASSUME GroupTypeOK, TurnsInv, NEW l \in Lessons, RebuildPlace(l) \/ RebuildMiss(l),
         UNCHANGED groupVars
  PROVE  TurnsInv' /\ OthersOnly
<1>1. Rebuilding(l) /\ UNCHANGED <<left, best, target>>
  BY DEF RebuildPlace, RebuildMiss, groupVars
<1>2. /\ target = {} /\ l \notin Grouped /\ attempt \in AttemptType
      /\ \A i \in 1..Len(Tail(attempt.todo)) : Tail(attempt.todo)[i] \notin Grouped
      /\ \A i \in 1..Len(<<attempt.todo[Len(attempt.todo)]>>) :
           <<attempt.todo[Len(attempt.todo)]>>[i] \notin Grouped
  BY <1>1, TurnNoTarget
<1>3. CASE RebuildPlace(l)
  <2>1. PICK s \in Slots, room \in Rooms, t \in Teachers :
          /\ Place(l, s, room, t)
          /\ attempt' = [attempt EXCEPT
               !.todo = Tail(@),
               !.added = @ \cup {Block(l, s, room, t)},
               !.heads = IF HeadsGroup(l) THEN @ \cup {Block(l, s, room, t)} ELSE @,
               !.failed = @ \/ Collides(l, Day(s))]
    BY <1>3 DEF RebuildPlace
  <2> DEFINE B == Block(l, s, room, t)
  <2>2. rows' = rows \cup B /\ Ungrouped(B)
    BY <1>2, <2>1 DEF Place, Ungrouped, Block
  <2> HIDE DEF B
  <2>3. /\ attempt'.todo = Tail(attempt.todo) /\ attempt'.added = attempt.added \cup {B}
        /\ attempt'.ruined = attempt.ruined
    BY <1>2, <2>1 DEF AttemptType, B
  <2>4. Ungrouped(UNION attempt'.added)
    <3>1. Ungrouped(UNION attempt.added)
      BY <1>2 DEF TurnsInv
    <3> QED
      BY <2>2, <2>3, <3>1 DEF Ungrouped
  <2>5. OthersOnly
    <3>1. rows' = (rows \ {}) \cup B /\ Ungrouped({})
      BY <2>2 DEF Ungrouped
    <3> QED
      BY <1>1, <1>2, <2>2, <3>1 DEF OthersOnly
  <2> QED
    BY <1>1, <1>2, <2>3, <2>4, <2>5 DEF TurnsInv
<1>4. CASE RebuildMiss(l)
  <2> DEFINE next == IF phase = "rescue" /\ Len(attempt.todo) > 1
                     THEN <<attempt.todo[Len(attempt.todo)]>> ELSE Tail(attempt.todo)
  <2>1. attempt' = [attempt EXCEPT
          !.todo = next,
          !.failed = @ \/ phase = "recreate" \/ Len(attempt.todo) = 1]
        /\ rows' = rows
    BY <1>4 DEF RebuildMiss
  <2>2. \A i \in 1..Len(next) : next[i] \notin Grouped
    BY <1>2
  <2> HIDE DEF next
  <2>3. /\ attempt'.todo = next /\ attempt'.added = attempt.added
        /\ attempt'.ruined = attempt.ruined
    BY <1>2, <2>1 DEF AttemptType
  <2> QED
    BY <1>1, <1>2, <2>1, <2>2, <2>3, SameRows DEF TurnsInv
<1> QED
  BY <1>3, <1>4

\* With nothing taken out the search has nothing to go back to.
LEMMA SettledTurns ==
  ASSUME \A l \in Grouped : left'[l] = 0, attempt' = NoAttempt, target' = {}
  PROVE  TurnsInv'
<1>1. /\ attempt'.todo = <<>> /\ attempt'.ruined = {} /\ attempt'.added = {}
  BY DEF NoAttempt
<1>2. Ungrouped({}) /\ Ungrouped(UNION {})
  BY DEF Ungrouped
<1>3. \A i \in 1..Len(attempt'.todo) : attempt'.todo[i] \notin Grouped
  BY <1>1
<1> QED
  BY <1>1, <1>2, <1>3 DEF TurnsInv

\* An attempt that ends leaves the groups in place, kept or undone.
LEMMA KeepTurns ==
  ASSUME GroupTypeOK, TurnsInv, target = {}, Keep \/ Undo, UNCHANGED groupVars
  PROVE  TurnsInv' /\ OthersOnly
<1>1. attempt' = NoAttempt /\ target' = {} /\ left' = left
  BY DEF Keep, Undo, groupVars
<1>2. best' = best \/ best' = rows'
  BY DEF Keep, Undo, EndIteration
<1>3. OthersOnly
  <2>1. CASE Keep
    BY <1>1, <1>2, <2>1, SameRows DEF Keep
  <2>2. CASE Undo
    <3>1. rows' = (rows \ UNION attempt.added) \cup attempt.ruined
      BY <2>2 DEF Undo
    <3>2. Ungrouped(UNION attempt.added) /\ Ungrouped(attempt.ruined)
      BY DEF TurnsInv
    <3> QED
      BY <1>1, <1>2, <3>1, <3>2 DEF OthersOnly
  <2> QED
    BY <2>1, <2>2
<1> QED
  BY <1>1, <1>3, SettledTurns DEF TurnsInv

\* No step of a single lesson touches the lessons of a group.
LEMMA SingleTurns ==
  ASSUME GroupTypeOK, TurnsInv, SingleStep
  PROVE  TurnsInv' /\ (Finish \/ OthersOnly)
<1>1. UNCHANGED groupVars
  BY DEF SingleStep
<1>2. CASE \E l \in Lessons : FfdPlace(l) \/ FfdMiss(l)
  BY <1>1, <1>2, FfdTurns
<1>3. CASE \E l \in Lessons : Change(l) \/ HomeRoomRepair(l) \/ Rescue(l)
  BY <1>1, <1>3, ChangeTurns, RepairTurns, RescuedTurns
<1>4. CASE \E l \in Lessons : RebuildPlace(l) \/ RebuildMiss(l)
  BY <1>1, <1>4, RebuildTurns
<1>5. CASE \E l, m \in Lessons : Swap(l, m)
  BY <1>1, <1>5, SwapTurns
<1>6. CASE Ruin
  BY <1>1, <1>6, RuinTurns
<1>7. CASE target = {} /\ (Keep \/ Undo)
  BY <1>1, <1>7, KeepTurns
<1>8. CASE FfdEnd \/ NothingToRuin \/ Finish
  <2>1. phase # "rescue" /\ UNCHANGED <<left, attempt, target>>
    BY <1>1, <1>8 DEF FfdEnd, NothingToRuin, Finish, groupVars
  <2>2. target = {} /\ target' = {}
    BY <2>1, NoTarget
  <2>3. Finish \/ OthersOnly
    BY <1>8, <2>2, SameRows DEF FfdEnd, NothingToRuin, EndIteration
  <2> QED
    BY <2>1, <2>2, <2>3 DEF TurnsInv
<1> QED
  BY <1>2, <1>3, <1>4, <1>5, <1>6, <1>7, <1>8 DEF SingleStep

\* So the groups stay as they are, and together.
LEMMA SingleTogether ==
  ASSUME GroupTypeOK, TogetherInv, SingleStep
  PROVE  /\ TogetherInv'
         /\ Finish \/ GroupedRows(rows') = GroupedRows(rows)
<1>1. TurnsInv' /\ (Finish \/ OthersOnly)
  BY SingleTurns DEF TogetherInv
<1>2. CASE Finish
  <2>1. phase = "search" /\ rows' = best /\ best' = best /\ target' = target
    BY <1>2 DEF Finish, SingleStep, groupVars
  <2>2. target = {}
    BY <2>1, NoTarget DEF TogetherInv
  <2> QED
    BY <1>1, <1>2, <2>1, <2>2 DEF TogetherInv
<1>3. CASE OthersOnly
  <2>1. PICK A, B : Ungrouped(A) /\ Ungrouped(B) /\ rows' = (rows \ A) \cup B
    BY <1>3 DEF OthersOnly
  <2>2. HeldTogether(rows \ A)
    BY <2>1, TogetherParts DEF TogetherInv
  <2>3. HeldTogether(rows')
    BY <2>1, <2>2, TogetherParts
  <2>4. GroupedRows(rows') = GroupedRows(rows)
    BY <2>1, OthersMove
  <2> QED
    BY <1>1, <1>3, <2>3, <2>4 DEF TogetherInv, OthersOnly
<1> QED
  BY <1>1, <1>2, <1>3

\* A placed group is in one window.
LEMMA PlacedTogether ==
  ASSUME HeldTogether(rows), NEW g \in Groups, PlaceSomewhere(g)
  PROVE  HeldTogether(rows') /\ rows \subseteq rows'
<1>1. PICK s, room, who :
        /\ s \in Slots /\ AllServed(g, s, room, who) /\ Window(s, BlockSize[Member(g)]) \subseteq Slots
        /\ rows' = rows \cup GroupRows(g, s, room, who)
  BY GroupPlaced
<1> DEFINE R == GroupRows(g, s, room, who)
<1>2. /\ \A r \in R : r.lesson \in g
      /\ \A l \in g : SlotsOf(R, l) = Window(s, BlockSize[Member(g)])
  BY <1>1, GroupRowsShape
<1> HIDE DEF R
<1>3. HeldTogether(R)
  <2> SUFFICES ASSUME NEW h \in Groups, NEW l \in h, NEW m \in h
               PROVE  SlotsOf(R, l) = SlotsOf(R, m)
    BY DEF HeldTogether
  <2>1. CASE h = g
    BY <1>2, <2>1
  <2>2. CASE h # g
    <3>1. l \notin g /\ m \notin g
      BY <2>2, ProblemAssumption DEF ValidGroups
    <3>2. RowsOf(R, l) = {} /\ RowsOf(R, m) = {}
      BY <1>2, <3>1 DEF RowsOf
    <3> QED
      BY <3>2 DEF SlotsOf
  <2> QED
    BY <2>1, <2>2
<1> QED
  BY <1>1, <1>3, TogetherParts DEF R

\* A group is taken out and placed again while no single lesson is.
LEMMA GroupStepTurns ==
  ASSUME GroupTypeOK, TurnsInv, NEW g \in Groups,
         \/ GroupPlace(g) \/ GroupMiss(g) \/ GroupRescue(g) \/ GroupRebuild(g)
         \/ GroupGiveUp(g) \/ GroupKeep(g) \/ GroupUndo(g)
  PROVE  TurnsInv'
<1>1. left' = left
  BY DEF GroupPlace, GroupMiss, GroupTurn, GroupRescue, GroupRebuild, GroupGiveUp, GroupKeep,
         GroupUndo, vars
<1>2. CASE GroupPlace(g) \/ GroupMiss(g)
  <2>1. phase = "ffd" /\ UNCHANGED <<attempt, target>>
    BY <1>2 DEF GroupPlace, GroupMiss, GroupTurn
  <2> QED
    BY <1>1, <2>1, NoTarget DEF TurnsInv
<1>3. CASE GroupRescue(g)
  <2>1. /\ phase' = "rescue" /\ target' = {g}
        /\ attempt' = [NoAttempt EXCEPT !.ruined = RowsOfGroup(rows, g), !.locks = tally.teacherLock]
    BY <1>3 DEF GroupRescue
  <2>2. attempt'.todo = <<>>
    BY <2>1 DEF NoAttempt
  <2> QED
    BY <1>1, <2>1, <2>2 DEF TurnsInv
<1>4. CASE GroupRebuild(g)
  <2>1. target = {g} /\ UNCHANGED <<phase, target>> /\ attempt'.todo = attempt.todo
    BY <1>4 DEF GroupRebuild, GroupTypeOK, TypeOK, AttemptType
  <2>2. phase = "rescue" /\ attempt.todo = <<>> /\ \A l \in Grouped : left[l] = 0
    BY <2>1 DEF TurnsInv
  <2>3. target' # {}
    BY <2>1
  <2> QED
    BY ONLY <1>1, <2>1, <2>2, <2>3 DEF TurnsInv
<1>5. CASE GroupGiveUp(g)
  BY <1>5 DEF GroupGiveUp, vars, TurnsInv
<1>6. CASE GroupKeep(g) \/ GroupUndo(g)
  BY <1>1, <1>6, SettledTurns DEF GroupKeep, GroupUndo, TurnsInv
<1> QED
  BY <1>2, <1>3, <1>4, <1>5, <1>6

\* Groups are placed, taken out, placed again and put back as a whole.
LEMMA GroupStepTogether ==
  ASSUME GroupTypeOK, TogetherInv, NEW g \in Groups,
         \/ GroupPlace(g) \/ GroupMiss(g) \/ GroupRescue(g) \/ GroupRebuild(g)
         \/ GroupGiveUp(g) \/ GroupKeep(g) \/ GroupUndo(g)
  PROVE  TogetherInv'
<1>1. TurnsInv /\ TurnsInv'
  BY GroupStepTurns DEF TogetherInv
<1>2. CASE GroupPlace(g) \/ GroupMiss(g)
  <2>1. phase = "ffd" /\ UNCHANGED <<best, target>>
    BY <1>2 DEF GroupPlace, GroupMiss, GroupTurn
  <2>2. target = {}
    BY <1>1, <2>1, NoTarget
  <2>3. HeldTogether(rows')
    BY <1>2, PlacedTogether DEF GroupPlace, GroupMiss, TogetherInv
  <2> QED
    BY <1>1, <2>1, <2>2, <2>3 DEF TogetherInv
<1>3. CASE GroupRescue(g)
  <2> DEFINE R == RowsOfGroup(rows, g)
  <2>1. /\ rows' = rows \ R /\ best' = best
        /\ attempt' = [NoAttempt EXCEPT !.ruined = R, !.locks = tally.teacherLock]
    BY <1>3 DEF GroupRescue, TakeOut
  <2>2. HeldTogether(R) /\ HeldTogether(rows \ R)
    BY TogetherWithout DEF TogetherInv
  <2> HIDE DEF R
  <2>3. attempt'.ruined = R /\ attempt'.added = {}
    BY <2>1 DEF NoAttempt
  <2>4. rows' \ UNION attempt'.added = rows \ R
    BY <2>1, <2>3
  <2> QED
    BY <1>1, <2>1, <2>2, <2>3, <2>4 DEF TogetherInv
<1>4. CASE GroupRebuild(g)
  <2>1. target = {g} /\ UNCHANGED <<best, target>>
    BY <1>4 DEF GroupRebuild
  <2>2. HeldTogether(rows') /\ rows \subseteq rows'
    BY <1>4, PlacedTogether DEF GroupRebuild, TogetherInv
  <2>3. rows' \ UNION attempt'.added = rows \ UNION attempt.added
        /\ attempt'.ruined = attempt.ruined
    <3>1. /\ attempt'.added = attempt.added \cup {rows' \ rows}
          /\ attempt'.ruined = attempt.ruined
      BY <1>4 DEF GroupRebuild, GroupTypeOK, TypeOK, AttemptType
    <3> QED
      BY <2>2, <3>1
  <2> QED
    BY <1>1, <2>1, <2>2, <2>3 DEF TogetherInv
<1>5. CASE GroupGiveUp(g)
  BY <1>1, <1>5 DEF GroupGiveUp, vars, TogetherInv
<1>6. CASE GroupKeep(g)
  <2>1. HeldTogether(rows') /\ HeldTogether(best') /\ target' = {}
    BY <1>6 DEF GroupKeep, EndIteration, TogetherInv
  <2> QED
    BY <1>1, <2>1 DEF TogetherInv
<1>7. CASE GroupUndo(g)
  <2>1. target # {} /\ rows' = (rows \ UNION attempt.added) \cup attempt.ruined
        /\ best' = best /\ target' = {}
    BY <1>7 DEF GroupUndo
  <2>2. HeldTogether(rows')
    BY <2>1, TogetherParts DEF TogetherInv
  <2> QED
    BY <1>1, <2>1, <2>2 DEF TogetherInv
<1> QED
  BY <1>2, <1>3, <1>4, <1>5, <1>6, <1>7

\* The start.
LEMMA TurnsInit == GroupInit => TurnsInv
<1> SUFFICES ASSUME GroupInit PROVE TurnsInv
  OBVIOUS
<1>1. \A l \in Grouped : left[l] = 0
  <2>1. Grouped \subseteq Lessons
    BY ProblemAssumption DEF Grouped, ValidGroups
  <2> QED
    BY <2>1 DEF GroupInit, Init, Frozen
<1>2. /\ attempt.todo = <<>> /\ attempt.ruined = {} /\ attempt.added = {}
  BY DEF GroupInit, Init, NoAttempt
<1>3. Ungrouped({}) /\ Ungrouped(UNION {})
  BY DEF Ungrouped
<1>4. \A i \in 1..Len(attempt.todo) : attempt.todo[i] \notin Grouped
  BY <1>2
<1> QED
  BY <1>1, <1>2, <1>3, <1>4 DEF GroupInit, TurnsInv

LEMMA TogetherInit == HeldTogether(PinnedRows) /\ GroupInit => TogetherInv
<1>1. HeldTogether({})
  BY DEF HeldTogether, SlotsOf, RowsOf
<1> QED
  BY <1>1, TurnsInit DEF GroupInit, Init, TogetherInv

\* Every step keeps the turns apart,
LEMMA TurnsNext ==
  GroupTypeOK /\ TurnsInv /\ [GroupNext]_<<vars, groupVars>> => TurnsInv'
<1> SUFFICES ASSUME GroupTypeOK, TurnsInv, [GroupNext]_<<vars, groupVars>>
             PROVE  TurnsInv'
  OBVIOUS
<1>1. CASE UNCHANGED <<vars, groupVars>>
  BY <1>1 DEF vars, groupVars, TurnsInv
<1> QED
  BY <1>1, SingleTurns, GroupStepTurns DEF GroupNext

\* and the lessons of a group together.
LEMMA TogetherNext ==
  GroupTypeOK /\ TogetherInv /\ [GroupNext]_<<vars, groupVars>> => TogetherInv'
<1> SUFFICES ASSUME GroupTypeOK, TogetherInv, [GroupNext]_<<vars, groupVars>>
             PROVE  TogetherInv'
  OBVIOUS
<1>1. CASE UNCHANGED <<vars, groupVars>>
  BY <1>1 DEF vars, groupVars, TogetherInv, TurnsInv
<1> QED
  BY <1>1, SingleTogether, GroupStepTogether DEF GroupNext

\* The lessons of a group are given in the same slots at every moment, a
\* rescue, its undo and the returned schedule included, for every problem
\* whose pins keep them so: no move of a single lesson ever picks one of them.
THEOREM GroupsTogether ==
  ASSUME HeldTogether(PinnedRows)
  PROVE  GroupSpec => []GroupsStayTogether
<1>1. GroupInit => TogetherInv
  BY TogetherInit
<1>2. TogetherInv => GroupsStayTogether
  BY DEF TogetherInv, HeldTogether, SlotsOf, GroupsStayTogether
<1> QED
  BY <1>1, <1>2, TogetherNext, GroupTypeCorrect, GroupLoose, PTL

-----------------------------------------------------------------------------
(* A group that is short of hours was reported.                             *)

\* No lesson of a group has two rows in one slot.
OwnSlots(R) ==
    \A r, q \in R : r.lesson \in Grouped /\ r.lesson = q.lesson /\ r.slot = q.slot => r = q

Full(R, g) == \A l \in g : Cardinality(RowsOf(R, l)) = Hours[l]

\* The classes of these rows are known to be busy.
Covered(R, u) == \A r \in R : \A c \in ClassesOf[r.lesson] : <<c, r.slot>> \in u.class

\* The hours of a lesson are those placed, those to come and those missed.
HoursMade(g) ==
    \A l \in g : Cardinality(RowsOf(rows, l))
                   + BlockSize[l] * (groupLeft[g] + groupMissed[g]) = Hours[l]

\* What the greedy pass has not reported is complete from then on; only a
\* group it reported is ever taken out, and what is placed again of it is all
\* there is of it.
SplitInv ==
    /\ OwnSlots(rows) /\ OwnSlots(best) /\ OwnSlots(attempt.ruined)
    /\ phase = "ffd" =>
         \A g \in Groups : HoursMade(g) /\ Covered(RowsOfGroup(rows, g), used)
    /\ phase # "ffd" =>
         \A g \in Groups : groupMissed[g] = 0 => Full(rows, g) /\ Full(best, g)
    /\ \A g \in target :
         /\ groupMissed[g] > 0
         /\ RowsOfGroup(rows, g) = UNION attempt.added
         /\ \A r \in attempt.ruined : r.lesson \in g
         /\ Covered(RowsOfGroup(rows, g), used)

\* A member has as many rows as slots, so all members have as many rows.
LEMMA MembersAlike ==
  ASSUME NEW R \in SUBSET Row, OwnSlots(R), HeldTogether(R), NEW g \in Groups,
         NEW l \in g, NEW m \in g
  PROVE  Cardinality(RowsOf(R, l)) = Cardinality(RowsOf(R, m))
<1>1. ASSUME NEW k \in g
      PROVE  Cardinality(RowsOf(R, k)) = Cardinality(SlotsOf(R, k))
  <2> DEFINE f == [r \in RowsOf(R, k) |-> r.slot]
  <2>1. k \in Grouped
    BY DEF Grouped
  <2>2. \A r, q \in RowsOf(R, k) : r.slot = q.slot => r = q
    BY <2>1 DEF RowsOf, OwnSlots
  <2>3. f \in [RowsOf(R, k) -> SlotsOf(R, k)]
    BY DEF SlotsOf
  <2>4. \A w \in SlotsOf(R, k) : \E r \in RowsOf(R, k) : f[r] = w
    BY DEF SlotsOf
  <2>5. \A r, q \in RowsOf(R, k) : f[r] = f[q] => r = q
    BY <2>2
  <2> HIDE DEF f
  <2>6. f \in Bijection(RowsOf(R, k), SlotsOf(R, k))
    BY <2>3, <2>4, <2>5, Fun_IsBij
  <2>7. IsFiniteSet(RowsOf(R, k))
    <3>1. RowsOf(R, k) \in SUBSET Row
      BY DEF RowsOf
    <3> QED
      BY <3>1, ScheduleFinite
  <2> QED
    BY <2>6, <2>7, FS_Bijection DEF ExistsBijection
<1>2. SlotsOf(R, l) = SlotsOf(R, m)
  BY DEF HeldTogether
<1> QED
  BY <1>1, <1>2

\* Rows of other lessons are no matter for a group.
LEMMA SameGroupRows ==
  ASSUME NEW R, NEW S, GroupedRows(R) = GroupedRows(S)
  PROVE  /\ OwnSlots(R) => OwnSlots(S)
         /\ \A g \in Groups : Full(R, g) => Full(S, g)
         /\ \A g \in Groups : RowsOfGroup(R, g) = RowsOfGroup(S, g)
         /\ \A g \in Groups : \A l \in g : RowsOf(R, l) = RowsOf(S, l)
<1>1. ASSUME NEW l \in Grouped PROVE RowsOf(R, l) = RowsOf(S, l)
  <2>1. ASSUME NEW T PROVE RowsOf(T, l) = {r \in GroupedRows(T) : r.lesson = l}
    BY DEF RowsOf, GroupedRows
  <2>2. /\ RowsOf(R, l) = {r \in GroupedRows(R) : r.lesson = l}
        /\ RowsOf(S, l) = {r \in GroupedRows(S) : r.lesson = l}
    BY <2>1
  <2> QED
    BY <2>2
<1>2. \A g \in Groups : \A l \in g : l \in Grouped
  BY DEF Grouped
<1>3. \A g \in Groups : \A l \in g : RowsOf(R, l) = RowsOf(S, l)
  BY <1>1, <1>2
<1>4. ASSUME OwnSlots(R) PROVE OwnSlots(S)
  <2>1. \A r \in S : r.lesson \in Grouped => r \in R
    BY DEF GroupedRows
  <2> QED
    BY <1>4, <2>1 DEF OwnSlots
<1>5. ASSUME NEW g \in Groups PROVE RowsOfGroup(R, g) = RowsOfGroup(S, g)
  BY <1>3 DEF RowsOfGroup
<1>6. ASSUME NEW g \in Groups, Full(R, g) PROVE Full(S, g)
  <2> SUFFICES ASSUME NEW l \in g PROVE Cardinality(RowsOf(S, l)) = Hours[l]
    BY DEF Full
  <2>1. RowsOf(R, l) = RowsOf(S, l)
    BY <1>3
  <2> QED
    BY <1>6, <2>1 DEF Full
<1> QED
  BY <1>3, <1>4, <1>5, <1>6

\* A placed group adds one block to each member, where it had none.
LEMMA GroupAdds ==
  ASSUME TypeOK, NEW g \in Groups, PlaceSomewhere(g),
         OwnSlots(rows), Covered(RowsOfGroup(rows, g), used)
  PROVE  /\ OwnSlots(rows')
         /\ \A l \in g : Cardinality(RowsOf(rows', l))
                           = Cardinality(RowsOf(rows, l)) + BlockSize[l]
         /\ \A h \in Groups : \A l \in h : h # g => RowsOf(rows', l) = RowsOf(rows, l)
         /\ \A h \in Groups : h # g => RowsOfGroup(rows', h) = RowsOfGroup(rows, h)
         /\ RowsOfGroup(rows', g) = RowsOfGroup(rows, g) \cup (rows' \ rows)
         /\ Covered(RowsOfGroup(rows', g), used')
         /\ used.class \subseteq used'.class
<1>1. PICK s, room, who :
        /\ s \in Slots /\ PlaceGroup(g, s, room, who) /\ AllServed(g, s, room, who)
        /\ Window(s, BlockSize[Member(g)]) \subseteq Slots
        /\ rows' = rows \cup GroupRows(g, s, room, who)
  BY GroupPlaced
<1> DEFINE N == GroupRows(g, s, room, who)
           W == Window(s, BlockSize[Member(g)])
           B(l) == Block(l, s, room[l], who[l])
<1>2. /\ \A r \in N : r.lesson \in g /\ r \in B(r.lesson) /\ r.slot \in W
      /\ \A l \in g : RowsOf(N, l) = B(l) /\ \A r \in B(l) : r.lesson = l
  <2>1. \A l \in g : \A r \in B(l) : r.lesson = l /\ r.slot \in W
    <3> SUFFICES ASSUME NEW l \in g, NEW r \in B(l) PROVE r.lesson = l /\ r.slot \in W
      OBVIOUS
    <3>1. BlockSize[l] = BlockSize[Member(g)]
      BY Members
    <3> QED
      BY <3>1 DEF Block
  <2>2. N = UNION {B(l) : l \in g}
    BY DEF GroupRows
  <2> HIDE DEF N, B, W
  <2> QED
    BY <2>1, <2>2 DEF RowsOf
<1>3. \A l \in g : \A c \in ClassesOf[l] : \A w \in W : <<c, w>> \notin used.class
  <2> SUFFICES ASSUME NEW l \in g PROVE ClassesFree(l, W)
    BY DEF ClassesFree
  <2>1. WindowOpen(g, s)
    BY <1>1 DEF PlaceGroup
  <2> QED
    BY <2>1 DEF WindowOpen
<1>4. ASSUME NEW l \in g PROVE \E c \in ClassesOf[l] : TRUE
  <2>1. l \in Lessons
    BY Members
  <2> QED
    BY <2>1, ProblemAssumption DEF ValidLessons
<1>5. ASSUME NEW r \in rows, r.lesson \in g PROVE r.slot \notin W
  <2>1. r \in RowsOfGroup(rows, g)
    BY <1>5 DEF RowsOfGroup, RowsOf
  <2>2. PICK c \in ClassesOf[r.lesson] : TRUE
    BY <1>4, <1>5
  <2>3. <<c, r.slot>> \in used.class
    BY <2>1, <2>2 DEF Covered
  <2> HIDE DEF W
  <2> QED
    BY <1>3, <1>5, <2>2, <2>3
<1>6. used'.class = used.class \cup ClassKeys(N)
  <2>1. used' = Occupy(used, N)
    BY <1>1 DEF PlaceGroup, GroupRows
  <2> QED
    BY <2>1 DEF Occupy
<1>7. ASSUME NEW l \in g
      PROVE  Cardinality(RowsOf(rows', l)) = Cardinality(RowsOf(rows, l)) + BlockSize[l]
  <2>1. l \in Lessons
    BY Members
  <2>2. IsFiniteSet(B(l)) /\ Cardinality(B(l)) = BlockSize[l]
    BY <1>1, <2>1, BlockOfRows
  <2>3. RowsOf(rows', l) = RowsOf(rows, l) \cup B(l)
    BY <1>1, <1>2 DEF RowsOf
  <2>4. RowsOf(rows, l) \cap B(l) = {}
    <3> SUFFICES ASSUME NEW r \in RowsOf(rows, l), r \in B(l) PROVE FALSE
      OBVIOUS
    <3>1. r \in rows /\ r.lesson = l
      BY DEF RowsOf
    <3>2. r \in N
      BY DEF GroupRows
    <3>3. r.slot \in W
      BY <1>2, <3>2
    <3> QED
      BY <1>5, <3>1, <3>3
  <2>5. IsFiniteSet(RowsOf(rows, l))
    <3>1. RowsOf(rows, l) \in SUBSET Row
      BY DEF RowsOf, TypeOK
    <3> QED
      BY <3>1, ScheduleFinite
  <2> HIDE DEF B
  <2> QED
    BY <2>2, <2>3, <2>4, <2>5, SizeOfUnion
<1>8. \A h \in Groups : \A l \in h : h # g => l \notin g
  BY ProblemAssumption DEF ValidGroups
<1> HIDE DEF N
<1>9. OwnSlots(rows')
  <2> SUFFICES ASSUME NEW r \in rows', NEW q \in rows', r.lesson \in Grouped,
                      r.lesson = q.lesson, r.slot = q.slot
               PROVE  r = q
    BY DEF OwnSlots
  <2>1. CASE r \in rows /\ q \in rows
    BY <2>1 DEF OwnSlots
  <2>2. CASE r \in N /\ q \in N
    <3>1. r \in B(r.lesson) /\ q \in B(r.lesson)
      BY <1>2, <2>2
    <3> QED
      BY <3>1 DEF Block
  <2>3. CASE (r \in rows /\ q \in N) \/ (r \in N /\ q \in rows)
    BY <1>2, <1>5, <2>3
  <2> QED
    BY <1>1, <2>1, <2>2, <2>3 DEF N
<1>10. \A h \in Groups : \A l \in h : h # g => RowsOf(rows', l) = RowsOf(rows, l)
  <2> SUFFICES ASSUME NEW h \in Groups, NEW l \in h, h # g
               PROVE  RowsOf(rows', l) = RowsOf(rows, l)
    OBVIOUS
  <2>1. rows' = rows \cup N /\ l \notin g
    BY <1>1, <1>8 DEF N
  <2> QED
    BY <1>2, <2>1 DEF RowsOf
<1>11. \A h \in Groups : h # g => RowsOfGroup(rows', h) = RowsOfGroup(rows, h)
  BY <1>10 DEF RowsOfGroup
<1>12. rows' = rows \cup N
  BY <1>1 DEF N
<1>13. RowsOfGroup(rows', g) = RowsOfGroup(rows, g) \cup (rows' \ rows)
  <2>1. ASSUME NEW R PROVE RowsOfGroup(R, g) = {r \in R : r.lesson \in g}
    BY DEF RowsOfGroup, RowsOf
  <2>2. /\ RowsOfGroup(rows', g) = {r \in rows' : r.lesson \in g}
        /\ RowsOfGroup(rows, g) = {r \in rows : r.lesson \in g}
    BY <2>1
  <2> QED
    BY <1>2, <1>12, <2>2
<1>14. Covered(RowsOfGroup(rows', g), used')
  <2> SUFFICES ASSUME NEW r \in RowsOfGroup(rows', g), NEW c \in ClassesOf[r.lesson]
               PROVE  <<c, r.slot>> \in used'.class
    BY DEF Covered
  <2>1. CASE r \in RowsOfGroup(rows, g)
    BY <1>6, <2>1 DEF Covered
  <2>2. CASE r \in N
    BY <1>6, <2>2 DEF ClassKeys
  <2> QED
    BY <1>12, <1>13, <2>1, <2>2
<1> QED
  BY <1>6, <1>7, <1>9, <1>10, <1>11, <1>13, <1>14

\* What a step of a single lesson does to the phase and the running best.
LEMMA SingleFacts ==
  ASSUME TurnsInv, SingleStep
  PROVE  /\ target = {} /\ UNCHANGED groupVars
         /\ phase' = "ffd" => phase = "ffd" /\ used.class \subseteq used'.class
         /\ phase = "ffd" /\ phase' # "ffd" =>
              best' = rows' /\ \A g \in Groups : groupLeft[g] = 0
         /\ best' = best \/ best' = rows'
         /\ Finish => phase = "search" /\ phase' = "done" /\ rows' = best /\ best' = best
<1>1. UNCHANGED groupVars
  BY DEF SingleStep
<1>2. Finish => phase = "search" /\ phase' = "done" /\ rows' = best /\ best' = best
  BY DEF Finish
<1>3. CASE \E l \in Lessons : FfdPlace(l)
  <2>1. phase = "ffd" /\ phase' = phase /\ best' = best
    BY <1>3 DEF FfdPlace, FfdTurn
  <2>2. used.class \subseteq used'.class
    BY <1>3 DEF FfdPlace, Place, Occupy
  <2> QED
    BY <1>1, <1>2, <2>1, <2>2, NoTarget
<1>4. CASE \E l \in Lessons : FfdMiss(l)
  <2>1. phase = "ffd" /\ phase' = phase /\ best' = best /\ used' = used
    BY <1>4 DEF FfdMiss, FfdTurn
  <2> QED
    BY <1>1, <1>2, <2>1, NoTarget
<1>5. CASE \/ \E l \in Lessons : Change(l) \/ HomeRoomRepair(l)
           \/ \E l, m \in Lessons : Swap(l, m)
  <2>1. phase = "search" /\ phase' = phase /\ (best' = best \/ best' = rows')
    BY <1>5 DEF Change, HomeRoomRepair, Swap, Searching, EndIteration
  <2> QED
    BY <1>1, <1>2, <2>1, NoTarget
<1>6. CASE (\E l \in Lessons : Rescue(l)) \/ Ruin
  <2>1. phase \in {"search", "ruin"} /\ phase' \in {"rescue", "recreate"} /\ best' = best
    BY <1>6 DEF Rescue, Ruin
  <2> QED
    BY <1>1, <1>2, <2>1, NoTarget
<1>7. CASE \E l \in Lessons : RebuildPlace(l) \/ RebuildMiss(l)
  <2>1. phase \in {"rescue", "recreate"} /\ phase' = phase /\ best' = best
        /\ attempt.todo # <<>>
    BY <1>7 DEF RebuildPlace, RebuildMiss, Rebuilding
  <2> QED
    BY <1>1, <1>2, <2>1 DEF TurnsInv
<1>8. CASE FfdEnd /\ \A g \in Groups : groupLeft[g] = 0
  <2>1. phase = "ffd" /\ phase' = "search" /\ best' = rows'
    BY <1>8 DEF FfdEnd
  <2> QED
    BY <1>1, <1>2, <1>8, <2>1, NoTarget
<1>9. CASE NothingToRuin \/ Finish
  <2>1. phase \in {"ruin", "search"} /\ phase' \in {"search", "done"}
        /\ (best' = best \/ best' = rows')
    BY <1>9 DEF NothingToRuin, Finish, EndIteration
  <2> QED
    BY <1>1, <1>2, <2>1, NoTarget
<1>10. CASE target = {} /\ (Keep \/ Undo)
  <2>1. phase \in {"rescue", "recreate"} /\ phase' \in {"search", "ruin"}
        /\ (best' = best \/ best' = rows')
    BY <1>10 DEF Keep, Undo, Rebuilt, EndIteration
  <2> QED
    BY <1>1, <1>2, <1>10, <2>1
<1> QED
  BY <1>3, <1>4, <1>5, <1>6, <1>7, <1>8, <1>9, <1>10 DEF SingleStep

\* Rows of lessons in no group have nothing to keep apart.
LEMMA OwnSlotsOfOthers == ASSUME NEW R, Ungrouped(R) PROVE OwnSlots(R)
BY DEF Ungrouped, OwnSlots

\* A step of a single lesson leaves the groups as they are.
LEMMA SingleSplit ==
  ASSUME GroupTypeOK, TogetherInv, SplitInv, SingleStep
  PROVE  SplitInv'
<1>1. /\ TogetherInv' /\ (Finish \/ GroupedRows(rows') = GroupedRows(rows))
      /\ target = {} /\ target' = {}
      /\ groupLeft' = groupLeft /\ groupMissed' = groupMissed
      /\ phase' = "ffd" => phase = "ffd" /\ used.class \subseteq used'.class
      /\ phase = "ffd" /\ phase' # "ffd" =>
              best' = rows' /\ \A g \in Groups : groupLeft[g] = 0
      /\ best' = best \/ best' = rows'
      /\ Finish => phase = "search" /\ phase' = "done" /\ rows' = best /\ best' = best
  BY SingleTogether, SingleFacts DEF groupVars, TogetherInv
<1>2. OwnSlots(attempt'.ruined)
  BY <1>1, OwnSlotsOfOthers DEF TogetherInv, TurnsInv
<1>3. CASE Finish
  BY <1>1, <1>2, <1>3 DEF SplitInv
<1>4. CASE GroupedRows(rows') = GroupedRows(rows)
  <2>1. /\ OwnSlots(rows) => OwnSlots(rows')
        /\ \A g \in Groups : Full(rows, g) => Full(rows', g)
        /\ \A g \in Groups : RowsOfGroup(rows, g) = RowsOfGroup(rows', g)
        /\ \A g \in Groups : \A l \in g : RowsOf(rows, l) = RowsOf(rows', l)
    BY <1>4, SameGroupRows
  <2>2. OwnSlots(rows') /\ OwnSlots(best')
    BY <1>1, <2>1 DEF SplitInv
  <2>3. ASSUME phase' = "ffd", NEW g \in Groups
        PROVE  HoursMade(g)' /\ Covered(RowsOfGroup(rows', g), used')
    <3>1. HoursMade(g) /\ Covered(RowsOfGroup(rows, g), used)
      BY <1>1, <2>3 DEF SplitInv
    <3>2. HoursMade(g)'
      BY <1>1, <2>1, <3>1 DEF HoursMade
    <3>3. Covered(RowsOfGroup(rows', g), used')
      BY <1>1, <2>1, <2>3, <3>1 DEF Covered
    <3> QED
      BY <3>2, <3>3
  <2>4. ASSUME phase' # "ffd", NEW g \in Groups, groupMissed[g] = 0
        PROVE  Full(rows', g) /\ Full(best', g)
    <3>1. CASE phase = "ffd"
      <4>1. groupLeft[g] = 0 /\ HoursMade(g)
        BY <1>1, <2>4, <3>1 DEF SplitInv
      <4>2. ASSUME NEW l \in g PROVE Cardinality(RowsOf(rows, l)) = Hours[l]
        <5>1. Cardinality(RowsOf(rows, l)) + BlockSize[l] * (0 + 0) = Hours[l]
          BY <2>4, <4>1 DEF HoursMade
        <5>2. l \in Lessons /\ BlockSize[l] \in Nat
          BY Members, ProblemAssumption DEF ValidLessons
        <5>3. RowsOf(rows, l) \in SUBSET Row
          BY DEF RowsOf, GroupTypeOK, TypeOK
        <5>4. Cardinality(RowsOf(rows, l)) \in Nat
          BY <5>3, ScheduleFinite
        <5> QED
          BY <5>1, <5>2, <5>4
      <4>3. Full(rows', g)
        BY <2>1, <4>2 DEF Full
      <4>4. best' = rows'
        BY <1>1, <2>4, <3>1
      <4> QED
        BY <4>3, <4>4
    <3>2. CASE phase # "ffd"
      <4>1. Full(rows, g) /\ Full(best, g)
        BY <2>4, <3>2 DEF SplitInv
      <4> QED
        BY <1>1, <2>1, <4>1
    <3> QED
      BY <3>1, <3>2
  <2> QED
    BY <1>1, <1>2, <2>2, <2>3, <2>4 DEF SplitInv
<1> QED
  BY <1>1, <1>3, <1>4

\* A block more placed, or missed, is one less to come.
LEMMA BlockDone ==
  ASSUME NEW b \in Nat, NEW left1 \in Nat, NEW m \in Nat, left1 > 0
  PROVE  /\ b * ((left1 - 1) + m) + b = b * (left1 + m)
         /\ (left1 - 1) + (m + 1) = left1 + m
<1>1. left1 - 1 \in Nat
  OBVIOUS
<1>2. PICK n \in Nat : left1 = n + 1
  BY <1>1
<1> QED
  BY <1>2

\* The greedy pass counts the hours of a group.
LEMMA GroupTurnSplit ==
  ASSUME GroupTypeOK, TogetherInv, SplitInv, NEW g \in Groups, GroupPlace(g) \/ GroupMiss(g)
  PROVE  SplitInv'
<1>1. /\ phase = "ffd" /\ phase' = "ffd" /\ groupLeft[g] > 0 /\ target = {} /\ target' = {}
      /\ groupLeft' = [groupLeft EXCEPT ![g] = @ - 1] /\ best' = best /\ attempt' = attempt
  BY NoTarget DEF GroupPlace, GroupMiss, GroupTurn, TogetherInv
<1>2. /\ groupLeft[g] \in Nat /\ groupMissed[g] \in Nat
      /\ groupLeft'[g] = groupLeft[g] - 1
      /\ \A h \in Groups : h # g => groupLeft'[h] = groupLeft[h]
  BY <1>1 DEF GroupTypeOK
<1>3. ASSUME NEW l \in g
      PROVE  /\ BlockSize[l] \in Nat /\ Cardinality(RowsOf(rows, l)) \in Nat
             /\ BlockSize[l] * (groupLeft'[g] + groupMissed[g]) + BlockSize[l]
                  = BlockSize[l] * (groupLeft[g] + groupMissed[g])
             /\ BlockSize[l] * (groupLeft'[g] + groupMissed[g]) \in Nat
             /\ groupLeft'[g] + (groupMissed[g] + 1) = groupLeft[g] + groupMissed[g]
  <2>1. l \in Lessons /\ BlockSize[l] \in Nat
    BY Members, ProblemAssumption DEF ValidLessons
  <2>2. RowsOf(rows, l) \in SUBSET Row
    BY DEF RowsOf, GroupTypeOK, TypeOK
  <2>3. groupLeft'[g] + groupMissed[g] \in Nat
    BY <1>1, <1>2
  <2>4. BlockSize[l] * (groupLeft'[g] + groupMissed[g]) \in Nat
    BY <2>1, <2>3
  <2> QED
    BY <1>1, <1>2, <2>1, <2>2, <2>4, BlockDone, ScheduleFinite
<1>4. CASE GroupPlace(g)
  <2>1. PlaceSomewhere(g) /\ groupMissed' = groupMissed
    BY <1>4 DEF GroupPlace
  <2>2. OwnSlots(rows) /\ Covered(RowsOfGroup(rows, g), used)
    BY <1>1 DEF SplitInv
  <2>3. /\ OwnSlots(rows')
        /\ \A l \in g : Cardinality(RowsOf(rows', l))
                          = Cardinality(RowsOf(rows, l)) + BlockSize[l]
        /\ \A h \in Groups : \A l \in h : h # g => RowsOf(rows', l) = RowsOf(rows, l)
        /\ \A h \in Groups : h # g => RowsOfGroup(rows', h) = RowsOfGroup(rows, h)
        /\ Covered(RowsOfGroup(rows', g), used')
        /\ used.class \subseteq used'.class
    BY <2>1, <2>2, GroupAdds DEF GroupTypeOK
  <2>4. ASSUME NEW h \in Groups
        PROVE  HoursMade(h)' /\ Covered(RowsOfGroup(rows', h), used')
    <3>1. HoursMade(h) /\ Covered(RowsOfGroup(rows, h), used)
      BY <1>1 DEF SplitInv
    <3>2. CASE h # g
      <4>1. HoursMade(h)'
        BY <1>2, <2>1, <2>3, <3>1, <3>2 DEF HoursMade
      <4>2. Covered(RowsOfGroup(rows', h), used')
        BY <2>3, <3>1, <3>2 DEF Covered
      <4> QED
        BY <4>1, <4>2
    <3>3. CASE h = g
      <4>1. ASSUME NEW l \in g
            PROVE  Cardinality(RowsOf(rows', l))
                     + BlockSize[l] * (groupLeft'[g] + groupMissed'[g]) = Hours[l]
        <5> DEFINE a == Cardinality(RowsOf(rows, l))
                   x == BlockSize[l] * (groupLeft'[g] + groupMissed[g])
                   y == BlockSize[l] * (groupLeft[g] + groupMissed[g])
        <5>1. a + y = Hours[l]
          BY <3>1, <3>3 DEF HoursMade
        <5>2. x + BlockSize[l] = y /\ a \in Nat /\ x \in Nat /\ BlockSize[l] \in Nat
          BY <1>3
        <5>3. Cardinality(RowsOf(rows', l)) = a + BlockSize[l]
          BY <2>3
        <5>4. BlockSize[l] * (groupLeft'[g] + groupMissed'[g]) = x
          BY <2>1
        <5> HIDE DEF a, x, y
        <5> QED
          BY <5>1, <5>2, <5>3, <5>4
      <4> QED
        BY <2>3, <3>3, <4>1 DEF HoursMade
    <3> QED
      BY <3>2, <3>3
  <2> QED
    BY <1>1, <2>3, <2>4 DEF SplitInv
<1>5. CASE GroupMiss(g)
  <2>1. /\ groupMissed' = [groupMissed EXCEPT ![g] = @ + 1]
        /\ rows' = rows /\ used' = used
    BY <1>5 DEF GroupMiss
  <2>2. /\ groupMissed'[g] = groupMissed[g] + 1
        /\ \A h \in Groups : h # g => groupMissed'[h] = groupMissed[h]
    BY <2>1 DEF GroupTypeOK
  <2>3. ASSUME NEW h \in Groups
        PROVE  HoursMade(h)' /\ Covered(RowsOfGroup(rows', h), used')
    <3>1. HoursMade(h) /\ Covered(RowsOfGroup(rows, h), used)
      BY <1>1 DEF SplitInv
    <3>2. CASE h # g
      BY <1>2, <2>1, <2>2, <3>1, <3>2 DEF HoursMade
    <3>3. CASE h = g
      <4>1. ASSUME NEW l \in g
            PROVE  groupLeft'[g] + groupMissed'[g] = groupLeft[g] + groupMissed[g]
        BY <1>3, <2>2
      <4> QED
        BY <2>1, <3>1, <3>3, <4>1 DEF HoursMade
    <3> QED
      BY <3>2, <3>3
  <2> QED
    BY <1>1, <2>1, <2>3 DEF SplitInv
<1> QED
  BY <1>4, <1>5

\* Only a group that was reported is taken out, and what comes back of it is
\* as much as went or more.
LEMMA GroupRescueSplit ==
  ASSUME GroupTypeOK, TogetherInv, SplitInv, NEW g \in Groups, GroupRescue(g)
  PROVE  SplitInv'
<1> DEFINE R == RowsOfGroup(rows, g)
<1>1. /\ phase = "search" /\ phase' = "rescue" /\ rows' = rows \ R /\ target' = {g}
      /\ best' = best /\ groupMissed' = groupMissed
      /\ attempt' = [NoAttempt EXCEPT !.ruined = R, !.locks = tally.teacherLock]
  BY DEF GroupRescue, TakeOut
<1>2. R = {r \in rows : r.lesson \in g}
  BY DEF RowsOfGroup, RowsOf
<1> HIDE DEF R
<1>3. attempt'.ruined = R /\ attempt'.added = {}
  BY <1>1 DEF NoAttempt
<1>4. OwnSlots(rows') /\ OwnSlots(R)
  BY <1>1, <1>2 DEF OwnSlots, SplitInv
<1>5. groupMissed[g] > 0
  <2>1. PICK l \in g : l \in Underplaced(rows)
    BY DEF GroupRescue, GroupTargets
  <2>2. l \in Lessons /\ Cardinality(RowsOf(rows, l)) < Hours[l]
    BY <2>1 DEF Underplaced
  <2>3. Hours[l] \in Nat /\ Cardinality(RowsOf(rows, l)) \in Nat
    <3>1. RowsOf(rows, l) \in SUBSET Row
      BY DEF RowsOf, GroupTypeOK, TypeOK
    <3> QED
      BY <2>2, <3>1, ScheduleFinite, ProblemAssumption DEF ValidLessons
  <2>4. ~Full(rows, g)
    BY <2>1, <2>2, <2>3 DEF Full
  <2>5. groupMissed[g] # 0
    BY <1>1, <2>4 DEF SplitInv
  <2> QED
    BY <2>5 DEF GroupTypeOK
<1>6. ASSUME NEW h \in Groups, groupMissed[h] = 0 PROVE Full(rows', h) /\ Full(best', h)
  <2>1. Full(rows, h) /\ Full(best, h) /\ h # g
    BY <1>1, <1>5, <1>6 DEF SplitInv
  <2>2. ASSUME NEW l \in h PROVE RowsOf(rows', l) = RowsOf(rows, l)
    <3>1. l \notin g
      BY <2>1, ProblemAssumption DEF ValidGroups
    <3> QED
      BY <1>1, <1>2, <3>1 DEF RowsOf
  <2> QED
    BY <1>1, <2>1, <2>2 DEF Full
<1>7. RowsOfGroup(rows', g) = {}
  BY <1>1, <1>2 DEF RowsOfGroup, RowsOf
<1>8. Covered(RowsOfGroup(rows', g), used') /\ UNION attempt'.added = {}
  BY <1>3, <1>7 DEF Covered
<1>9. \A r \in attempt'.ruined : r.lesson \in g
  BY <1>2, <1>3
<1>10. OwnSlots(rows') /\ OwnSlots(best') /\ OwnSlots(attempt'.ruined)
  BY <1>1, <1>3, <1>4 DEF SplitInv
<1>11. \A h \in Groups : groupMissed'[h] = 0 => Full(rows', h) /\ Full(best', h)
  BY <1>1, <1>6
<1>12. ASSUME NEW h \in target'
       PROVE  /\ groupMissed'[h] > 0
              /\ RowsOfGroup(rows', h) = UNION attempt'.added
              /\ \A r \in attempt'.ruined : r.lesson \in h
              /\ Covered(RowsOfGroup(rows', h), used')
  <2>1. h = g
    BY <1>1, <1>12
  <2> QED
    BY <1>1, <1>5, <1>7, <1>8, <1>9, <2>1
<1> QED
  BY <1>1, <1>10, <1>11, <1>12 DEF SplitInv

\* A block placed again goes to the group that is out.
LEMMA GroupRebuildSplit ==
  ASSUME GroupTypeOK, TogetherInv, SplitInv, NEW g \in Groups, GroupRebuild(g)
  PROVE  SplitInv'
<1>1. /\ phase = "rescue" /\ phase' = "rescue" /\ target = {g} /\ target' = {g}
      /\ best' = best /\ groupMissed' = groupMissed /\ PlaceSomewhere(g)
  BY DEF GroupRebuild, TogetherInv, TurnsInv
<1>2. /\ attempt'.added = attempt.added \cup {rows' \ rows}
      /\ attempt'.ruined = attempt.ruined
  BY DEF GroupRebuild, GroupTypeOK, TypeOK, AttemptType
<1>3. /\ groupMissed[g] > 0 /\ RowsOfGroup(rows, g) = UNION attempt.added
      /\ \A r \in attempt.ruined : r.lesson \in g
      /\ Covered(RowsOfGroup(rows, g), used) /\ OwnSlots(rows)
  BY <1>1 DEF SplitInv
<1>4. /\ OwnSlots(rows')
      /\ \A h \in Groups : \A l \in h : h # g => RowsOf(rows', l) = RowsOf(rows, l)
      /\ RowsOfGroup(rows', g) = RowsOfGroup(rows, g) \cup (rows' \ rows)
      /\ Covered(RowsOfGroup(rows', g), used')
  BY <1>1, <1>3, GroupAdds DEF GroupTypeOK
<1>5. RowsOfGroup(rows', g) = UNION attempt'.added
  <2>1. UNION attempt'.added = (UNION attempt.added) \cup (rows' \ rows)
    BY <1>2, UnionOfMore, Zenon
  <2> QED
    BY <1>3, <1>4, <2>1
<1>6. ASSUME NEW h \in Groups, groupMissed[h] = 0 PROVE Full(rows', h) /\ Full(best', h)
  <2>1. Full(rows, h) /\ Full(best, h) /\ h # g
    BY <1>1, <1>3, <1>6 DEF SplitInv
  <2>2. \A l \in h : RowsOf(rows', l) = RowsOf(rows, l)
    BY <1>4, <2>1
  <2> QED
    BY <1>1, <2>1, <2>2 DEF Full
<1> QED
  BY <1>1, <1>2, <1>3, <1>4, <1>5, <1>6 DEF SplitInv

\* A rescue is over with the new rows or with the old ones.
LEMMA GroupEndSplit ==
  ASSUME GroupTypeOK, TogetherInv, SplitInv, NEW g \in Groups, GroupKeep(g) \/ GroupUndo(g)
  PROVE  SplitInv'
<1>1. /\ phase = "rescue" /\ phase' # "ffd" /\ target = {g} /\ target' = {}
      /\ groupMissed' = groupMissed /\ attempt' = NoAttempt
      /\ best' = best \/ best' = rows'
  BY DEF GroupKeep, GroupUndo, EndIteration, TogetherInv, TurnsInv
<1>2. OwnSlots(attempt'.ruined)
  BY <1>1 DEF NoAttempt, OwnSlots
<1>3. /\ groupMissed[g] > 0 /\ RowsOfGroup(rows, g) = UNION attempt.added
      /\ \A r \in attempt.ruined : r.lesson \in g
      /\ OwnSlots(rows) /\ OwnSlots(best) /\ OwnSlots(attempt.ruined)
  BY <1>1 DEF SplitInv
<1>4. /\ OwnSlots(rows')
      /\ \A h \in Groups : \A l \in h : h # g => RowsOf(rows', l) = RowsOf(rows, l)
  <2>1. CASE GroupKeep(g)
    BY <1>3, <2>1 DEF GroupKeep
  <2>2. CASE GroupUndo(g)
    <3>1. rows' = (rows \ RowsOfGroup(rows, g)) \cup attempt.ruined
      BY <1>3, <2>2 DEF GroupUndo
    <3>2. RowsOfGroup(rows, g) = {r \in rows : r.lesson \in g}
      BY DEF RowsOfGroup, RowsOf
    <3>3. OwnSlots(rows')
      <4>1. ASSUME NEW r \in rows', NEW q \in rows', r.lesson = q.lesson
            PROVE  \/ r \in rows /\ q \in rows
                   \/ r \in attempt.ruined /\ q \in attempt.ruined
        BY <1>3, <3>1, <3>2, <4>1
      <4> QED
        BY <1>3, <4>1 DEF OwnSlots
    <3>4. ASSUME NEW h \in Groups, NEW l \in h, h # g
          PROVE  RowsOf(rows', l) = RowsOf(rows, l)
      <4>1. l \notin g
        BY <3>4, ProblemAssumption DEF ValidGroups
      <4> QED
        BY <1>3, <3>1, <3>2, <4>1 DEF RowsOf
    <3> QED
      BY <3>3, <3>4
  <2> QED
    BY <2>1, <2>2
<1>5. ASSUME NEW h \in Groups, groupMissed[h] = 0 PROVE Full(rows', h) /\ Full(best', h)
  <2>1. Full(rows, h) /\ Full(best, h) /\ h # g
    BY <1>1, <1>3, <1>5 DEF SplitInv
  <2>2. \A l \in h : RowsOf(rows', l) = RowsOf(rows, l)
    BY <1>4, <2>1
  <2> QED
    BY <1>1, <2>1, <2>2 DEF Full
<1> QED
  BY <1>1, <1>2, <1>3, <1>4, <1>5 DEF SplitInv

\* A group that the returned schedule leaves short of hours was reported, and
\* all its lessons are short: for every problem whose pins keep groups
\* together and are complete, as validate_pins leaves them.
THEOREM SplitsReported ==
  ASSUME HeldTogether(PinnedRows),
         \A l \in Pinned : Cardinality(RowsOf(PinnedRows, l)) = Hours[l]
  PROVE  GroupSpec => []SplitGroupsReported
<1>1. GroupInit => TogetherInv /\ SplitInv
  <2> SUFFICES ASSUME GroupInit PROVE SplitInv
    BY TogetherInit
  <2>1. /\ phase = "ffd" /\ rows = PinnedRows /\ used = Occupy(Nobody, PinnedRows)
        /\ best = {} /\ attempt.ruined = {} /\ target = {}
    BY DEF GroupInit, Init, NoAttempt
  <2>2. OwnSlots(PinnedRows)
    <3>1. PinnedRows \in SUBSET Row /\ NoDoubleBooking(PinnedRows)
      BY ProblemAssumption, SearchAssumption
    <3> QED
      BY <3>1, SameLessonClashes DEF OwnSlots
  <2>3. ASSUME NEW g \in Groups PROVE HoursMade(g)
    <3> SUFFICES ASSUME NEW l \in g
                 PROVE  Cardinality(RowsOf(PinnedRows, l))
                          + BlockSize[l] * (groupLeft[g] + groupMissed[g]) = Hours[l]
      BY <2>1 DEF HoursMade
    <3>1. /\ groupMissed[g] = 0
          /\ groupLeft[g] = IF g \subseteq Pinned THEN 0 ELSE GroupBlocks(g)
      BY DEF GroupInit
    <3>2. l \in Lessons /\ BlockSize[l] \in Nat \ {0} /\ Hours[l] \in Nat
          /\ Hours[l] % BlockSize[l] = 0
      BY Members, ProblemAssumption DEF ValidLessons
    <3>3. CASE g \subseteq Pinned
      <4>1. Cardinality(RowsOf(PinnedRows, l)) = Hours[l]
        BY <3>3
      <4>2. BlockSize[l] * (0 + 0) = 0
        BY <3>2
      <4>3. groupLeft[g] + groupMissed[g] = 0 + 0
        BY <3>1, <3>3
      <4> QED
        BY <3>2, <4>1, <4>2, <4>3
    <3>4. CASE ~(g \subseteq Pinned)
      <4>1. PICK m \in g : m \notin Pinned
        BY <3>4
      <4>2. RowsOf(PinnedRows, m) = {}
        BY <4>1 DEF Pinned, RowsOf
      <4>3. SlotsOf(PinnedRows, l) = SlotsOf(PinnedRows, m)
        BY DEF HeldTogether
      <4>4. RowsOf(PinnedRows, l) = {}
        BY <4>2, <4>3 DEF SlotsOf
      <4>5. Cardinality(RowsOf(PinnedRows, l)) = 0
        BY <4>4, FS_EmptySet
      <4>6. Hours[l] = BlockSize[l] * (Hours[l] \div BlockSize[l])
            /\ Hours[l] \div BlockSize[l] \in Nat
        BY <3>2, Quotient
      <4>7. GroupBlocks(g) = Hours[l] \div BlockSize[l]
        BY Members, ProblemAssumption DEF GroupBlocks, Blocks, ValidGroups
      <4>8. groupLeft[g] + groupMissed[g] = Hours[l] \div BlockSize[l]
        BY <3>1, <3>4, <4>6, <4>7
      <4> QED
        BY <3>2, <4>5, <4>6, <4>8
    <3> QED
      BY <3>3, <3>4
  <2>4. ASSUME NEW g \in Groups PROVE Covered(RowsOfGroup(rows, g), used)
    BY <2>1 DEF RowsOfGroup, RowsOf, Covered, Occupy, ClassKeys
  <2> QED
    BY <2>1, <2>2, <2>3, <2>4 DEF SplitInv, OwnSlots
<1>2. GroupTypeOK /\ TogetherInv /\ SplitInv /\ [GroupNext]_<<vars, groupVars>>
        => TogetherInv' /\ SplitInv'
  <2> SUFFICES ASSUME GroupTypeOK, TogetherInv, SplitInv, [GroupNext]_<<vars, groupVars>>
               PROVE  SplitInv'
    BY TogetherNext
  <2>1. CASE UNCHANGED <<vars, groupVars>>
    BY <2>1 DEF vars, groupVars, SplitInv, HoursMade
  <2>2. ASSUME NEW g \in Groups, GroupGiveUp(g) PROVE SplitInv'
    <3>1. target = {g} /\ phase = "rescue" /\ UNCHANGED <<vars, groupLeft, groupMissed, target>>
      BY <2>2 DEF GroupGiveUp, TogetherInv, TurnsInv
    <3> QED
      BY <3>1 DEF vars, SplitInv
  <2> QED
    BY <2>1, <2>2, SingleSplit, GroupTurnSplit, GroupRescueSplit, GroupRebuildSplit,
       GroupEndSplit DEF GroupNext
<1>3. GroupTypeOK /\ TogetherInv /\ SplitInv => SplitGroupsReported
  <2> SUFFICES ASSUME GroupTypeOK, TogetherInv, SplitInv, phase = "done", NEW g \in Groups,
                      NEW l \in g, l \in Underplaced(rows)
               PROVE  g \subseteq Underplaced(rows) /\ groupMissed[g] > 0
    BY DEF SplitGroupsReported
  <2>1. rows \in SUBSET Row /\ OwnSlots(rows) /\ HeldTogether(rows) /\ groupMissed[g] \in Nat
    BY DEF GroupTypeOK, TypeOK, TogetherInv, SplitInv
  <2>2. Cardinality(RowsOf(rows, l)) < Hours[l] /\ Hours[l] \in Nat
    BY ProblemAssumption DEF Underplaced, ValidLessons
  <2>3. Cardinality(RowsOf(rows, l)) \in Nat
    <3>1. RowsOf(rows, l) \in SUBSET Row
      BY <2>1 DEF RowsOf
    <3> QED
      BY <3>1, ScheduleFinite
  <2>4. groupMissed[g] # 0
    BY <2>2, <2>3 DEF SplitInv, Full
  <2>5. ASSUME NEW m \in g PROVE m \in Underplaced(rows)
    <3>1. Cardinality(RowsOf(rows, m)) = Cardinality(RowsOf(rows, l))
      BY <2>1, MembersAlike
    <3>2. m \in Lessons /\ Hours[m] = Hours[l]
      BY Members, ProblemAssumption DEF ValidGroups
    <3> QED
      BY <2>2, <3>1, <3>2 DEF Underplaced
  <2> QED
    BY <2>1, <2>4, <2>5
<1> QED
  BY <1>1, <1>2, <1>3, GroupTypeCorrect, GroupLoose, PTL
-----------------------------------------------------------------------------
(* Only the lessons of a group share slots.                                 *)

\* The property of a schedule.
Parallel(R) ==
    \A r, q \in R : r # q /\ Clash(r, q) =>
        /\ r.teacher # q.teacher /\ r.room # q.room
        /\ \E g \in Groups : {r.lesson, q.lesson} \subseteq g

\* Rows of lessons in no group.
Singles(R) == {r \in R : r.lesson \notin Grouped}

\* The rows of R that a triple locks.
Locking(R, x) == TripleRows(R, x[1], x[2], x[3])

\* No other lesson of the group gives a class of l the same subject.
SoleOfSubject(l) ==
    \A g \in Groups : l \in g =>
        \A m \in g \ {l} : SubjectOf[m] = SubjectOf[l] => ClassesOf[m] \cap ClassesOf[l] = {}

\* Rows that no lesson of the same group can draw into another room.
Firm(R) == {r \in R : SoleOfSubject(r.lesson)}

\* The counters count all rows, and a room lock is right about the firm ones.
Recounted(R, b) ==
    /\ \A t \in Teachers : b.hours[t] = Cardinality({r \in R : r.teacher = t})
    /\ \A x \in Triples : /\ b.subjectHours[x] = TripleCount(R, x)
                          /\ b.lock[x] = TripleCount(R, x)
                          /\ TripleCount(R, x) = 0 => b.lockRoom[x] = NoRoom
                          /\ \A r \in Locking(Firm(R), x) : b.lockRoom[x] = r.room

\* Two tallies that differ in the lessons per day and the teacher locks only.
SameUse(b, n) ==
    /\ n.hours = b.hours /\ n.subjectHours = b.subjectHours
    /\ n.lock = b.lock /\ n.lockRoom = b.lockRoom

\* What the moves of single lessons rely on.
Kept(R, u, b) ==
    /\ u = Occupy(Nobody, R)
    /\ Recounted(R, b)
    /\ LocksHold(Singles(R), b.teacherLock)

\* A lock keeps its room as long as a row holds it.
SameLocks(R, b, n) ==
    \A x \in Triples : Locking(R, x) # {} => n.lockRoom[x] = b.lockRoom[x]

\* Rows that may come in beside R: the firm ones among them go where the lock
\* is, or are all together.
Welcome(R, S, b) ==
    \A x \in Triples : \A r \in Locking(Firm(S), x) :
        IF Locking(R, x) # {} THEN b.lockRoom[x] = r.room
                              ELSE \A q \in Locking(S, x) : q.room = r.room

\* Nobody shares a slot with a lesson in no group.
LEMMA SinglesApart ==
  ASSUME NEW R, Parallel(R), NEW r \in Singles(R), NEW q \in R, r # q
  PROVE  ~Clash(r, q) /\ ~Clash(q, r)
<1>1. r \in R /\ \A g \in Groups : r.lesson \notin g
  BY DEF Singles, Grouped
<1> QED
  BY <1>1 DEF Parallel

\* They are firm.
LEMMA SinglesFirm ==
  ASSUME NEW R
  PROVE  Singles(R) \subseteq Firm(R) /\ \A x : Locking(Singles(R), x) \subseteq Locking(Firm(R), x)
<1>1. Singles(R) \subseteq Firm(R)
  BY DEF Singles, Firm, SoleOfSubject, Grouped
<1> QED
  BY <1>1 DEF Locking, TripleRows

\* Fewer rows share fewer slots; rows that clash with nobody may be added.
LEMMA ParallelParts ==
  ASSUME NEW R, NEW S, Parallel(R)
  PROVE  /\ S \subseteq R => Parallel(S)
         /\ Parallel(S) /\ (\A r \in R, q \in S : ~Clash(r, q)) => Parallel(R \cup S) /\ R \cap S = {}
<1>1. \A r, q : Clash(r, q) => Clash(q, r)
  BY DEF Clash
<1>2. ASSUME NEW r \in R PROVE Clash(r, r)
  BY DEF Clash
<1> QED
  BY <1>1, <1>2 DEF Parallel

\* Rows without any clash.
LEMMA ApartParallel ==
  ASSUME NEW S, NoDoubleBooking(S)
  PROVE  Parallel(S)
BY DEF NoDoubleBooking, Parallel

\* Counting rows in keeps the counters and the room locks.
LEMMA CountInRooms ==
  ASSUME NEW b \in TallyType, NEW R \in SUBSET Row, NEW S \in SUBSET Row,
         R \cap S = {}, Recounted(R, b), Welcome(R, S, b)
  PROVE  Recounted(R \cup S, CountIn(b, S)) /\ SameLocks(R, b, CountIn(b, S))
<1> DEFINE n == CountIn(b, S)
<1>1. ASSUME NEW t \in Teachers
      PROVE  n.hours[t] = Cardinality({r \in R \cup S : r.teacher = t})
  <2>1. n.hours[t] = b.hours[t] + Cardinality({r \in S : r.teacher = t})
    BY CountFields
  <2>2. Cardinality({r \in R \cup S : r.teacher = t})
          = Cardinality({r \in R : r.teacher = t}) + Cardinality({r \in S : r.teacher = t})
    BY CountsOfUnion
  <2>3. b.hours[t] = Cardinality({r \in R : r.teacher = t})
    BY DEF Recounted
  <2> QED
    BY ONLY <2>1, <2>2, <2>3
<1>2. ASSUME NEW x \in Triples
      PROVE  /\ n.subjectHours[x] = TripleCount(R \cup S, x)
             /\ n.lock[x] = TripleCount(R \cup S, x)
             /\ TripleCount(R \cup S, x) = 0 => n.lockRoom[x] = NoRoom
             /\ \A r \in Locking(Firm(R \cup S), x) : n.lockRoom[x] = r.room
             /\ Locking(R, x) # {} => n.lockRoom[x] = b.lockRoom[x]
  <2>1. TripleCount(R \cup S, x) = TripleCount(R, x) + TripleCount(S, x)
    BY CountsOfUnion
  <2>2. /\ TripleCount(R, x) \in Nat /\ (TripleCount(R, x) = 0 <=> Locking(R, x) = {})
        /\ TripleCount(S, x) \in Nat /\ (TripleCount(S, x) = 0 <=> Locking(S, x) = {})
    BY EmptyTriple DEF Locking
  <2>3. /\ n.subjectHours[x] = b.subjectHours[x] + TripleCount(S, x)
        /\ n.lock[x] = b.lock[x] + TripleCount(S, x)
        /\ n.lockRoom[x] = IF b.lock[x] = 0 /\ TripleCount(S, x) > 0
                           THEN RoomFor(S, x) ELSE b.lockRoom[x]
    BY CountFields
  <2>4. /\ b.subjectHours[x] = TripleCount(R, x) /\ b.lock[x] = TripleCount(R, x)
        /\ TripleCount(R, x) = 0 => b.lockRoom[x] = NoRoom
        /\ \A r \in Locking(Firm(R), x) : b.lockRoom[x] = r.room
    BY DEF Recounted
  <2>5. ASSUME NEW r \in Locking(Firm(R \cup S), x) PROVE n.lockRoom[x] = r.room
    <3>1. \/ r \in Locking(Firm(R), x) /\ r \in Locking(R, x)
          \/ r \in Locking(Firm(S), x) /\ r \in Locking(S, x)
      BY DEF Locking, TripleRows, Firm
    <3>2. CASE Locking(R, x) # {}
      BY <2>2, <2>3, <2>4, <3>1, <3>2 DEF Welcome
    <3>3. CASE Locking(R, x) = {}
      <4>1. r \in Locking(Firm(S), x) /\ TripleCount(S, x) > 0
        BY <2>2, <3>1, <3>3
      <4>2. PICK q \in Locking(S, x) : RoomFor(S, x) = q.room
        BY <4>1, RoomForIsARoom DEF Locking
      <4>3. q.room = r.room
        BY <3>3, <4>1 DEF Welcome
      <4> QED
        BY <2>2, <2>3, <2>4, <3>3, <4>1, <4>2, <4>3
    <3> QED
      BY <3>2, <3>3
  <2>6. Locking(R, x) # {} => n.lockRoom[x] = b.lockRoom[x]
    BY <2>2, <2>3, <2>4
  <2>7. /\ n.subjectHours[x] = TripleCount(R \cup S, x) /\ n.lock[x] = TripleCount(R \cup S, x)
        /\ TripleCount(R \cup S, x) = 0 => n.lockRoom[x] = NoRoom
    BY ONLY <2>1, <2>2, <2>3, <2>4
  <2> QED
    BY <2>5, <2>6, <2>7
<1> HIDE DEF n
<1> QED
  BY <1>1, <1>2 DEF Recounted, SameLocks, n

\* Counting rows out keeps them, too.
LEMMA CountOutRooms ==
  ASSUME NEW b \in TallyType, NEW R \in SUBSET Row, NEW S \in SUBSET R, Recounted(R, b)
  PROVE  Recounted(R \ S, CountOut(b, S)) /\ SameLocks(R \ S, b, CountOut(b, S))
<1> DEFINE n == CountOut(b, S)
           K == R \ S
<1>1. K \in SUBSET Row /\ S \in SUBSET Row /\ K \cap S = {} /\ K \cup S = R
  OBVIOUS
<1>2. ASSUME NEW t \in Teachers PROVE n.hours[t] = Cardinality({r \in K : r.teacher = t})
  <2> DEFINE k == Cardinality({r \in K : r.teacher = t})
             o == Cardinality({r \in S : r.teacher = t})
  <2>1. k \in Nat /\ o \in Nat
    <3>1. {r \in K : r.teacher = t} \in SUBSET Row /\ {r \in S : r.teacher = t} \in SUBSET Row
      BY <1>1
    <3> QED
      BY <3>1, ScheduleFinite
  <2>2. Cardinality({r \in K \cup S : r.teacher = t}) = k + o
    BY <1>1, CountsOfUnion
  <2>3. b.hours[t] = k + o
    BY <1>1, <2>2 DEF Recounted
  <2>4. n.hours[t] = SatSub(b.hours[t], o)
    BY CountFields
  <2> HIDE DEF k, o, n
  <2>5. SatSub(k + o, o) = k
    BY <2>1, SatSubOfSum
  <2> QED
    BY <2>3, <2>4, <2>5 DEF k
<1>3. ASSUME NEW x \in Triples
      PROVE  /\ n.subjectHours[x] = TripleCount(K, x) /\ n.lock[x] = TripleCount(K, x)
             /\ TripleCount(K, x) = 0 => n.lockRoom[x] = NoRoom
             /\ \A r \in Locking(Firm(K), x) : n.lockRoom[x] = r.room
             /\ Locking(K, x) # {} => n.lockRoom[x] = b.lockRoom[x]
  <2> DEFINE k == TripleCount(K, x)
             o == TripleCount(S, x)
  <2>1. k \in Nat /\ o \in Nat /\ (k = 0 <=> Locking(K, x) = {})
    BY EmptyTriple DEF Locking
  <2>2. TripleCount(R, x) = k + o
    <3>1. TripleCount(K \cup S, x) = k + o
      BY <1>1, CountsOfUnion
    <3> QED
      BY <1>1, <3>1
  <2>3. /\ b.subjectHours[x] = k + o /\ b.lock[x] = k + o
        /\ \A r \in Locking(Firm(R), x) : b.lockRoom[x] = r.room
    BY <2>2 DEF Recounted
  <2>4. /\ n.subjectHours[x] = SatSub(b.subjectHours[x], o)
        /\ n.lock[x] = SatSub(b.lock[x], o)
        /\ n.lockRoom[x] = IF b.lock[x] <= o THEN NoRoom ELSE b.lockRoom[x]
    BY CountFields
  <2>5. Locking(Firm(K), x) \subseteq Locking(Firm(R), x)
        /\ Locking(Firm(K), x) \subseteq Locking(K, x)
    BY DEF Locking, TripleRows, Firm
  <2> HIDE DEF k, o, K, n
  <2>6. SatSub(k + o, o) = k /\ (k + o <= o <=> k = 0)
    BY <2>1, SatSubOfSum
  <2>7. /\ n.subjectHours[x] = k /\ n.lock[x] = k /\ (k = 0 => n.lockRoom[x] = NoRoom)
        /\ Locking(K, x) # {} => n.lockRoom[x] = b.lockRoom[x]
    BY <2>1, <2>3, <2>4, <2>6
  <2>8. \A r \in Locking(Firm(K), x) : n.lockRoom[x] = r.room
    BY <2>3, <2>5, <2>7
  <2> QED
    BY <2>7, <2>8 DEF k
<1> HIDE DEF n, K
<1>4. Recounted(K, n) /\ SameLocks(K, b, n)
  BY <1>2, <1>3 DEF Recounted, SameLocks
<1> QED
  BY <1>4 DEF n, K

\* The lessons per day and the teacher locks play no part in it.
LEMMA LocksAlone ==
  ASSUME NEW b \in TallyType
  PROVE  /\ \A Bs, n : /\ SameUse(b, MoreLessons(b, Bs, n)) /\ SameUse(b, FewerLessons(b, Bs, n))
                       /\ MoreLessons(b, Bs, n).teacherLock = b.teacherLock
                       /\ FewerLessons(b, Bs, n).teacherLock = b.teacherLock
         /\ \A l, t : SameUse(b, LockTeacher(b, l, t))
         /\ \A g, who : SameUse(b, LockTeachers(b, g, who))
         /\ \A S : SameUse(b, ForgetLocks(b, S))
         /\ \A L : /\ SameUse(b, [b EXCEPT !.teacherLock = L])
                   /\ [b EXCEPT !.teacherLock = L].teacherLock = L
<1>1. ASSUME NEW Bs, NEW n
      PROVE  /\ SameUse(b, MoreLessons(b, Bs, n)) /\ SameUse(b, FewerLessons(b, Bs, n))
             /\ MoreLessons(b, Bs, n).teacherLock = b.teacherLock
             /\ FewerLessons(b, Bs, n).teacherLock = b.teacherLock
  BY DEF MoreLessons, FewerLessons, TallyType, SameUse
<1>2. ASSUME NEW L
      PROVE  /\ SameUse(b, [b EXCEPT !.teacherLock = L])
             /\ [b EXCEPT !.teacherLock = L].teacherLock = L
  BY DEF TallyType, SameUse
<1>3. \A l, t : SameUse(b, LockTeacher(b, l, t))
  BY <1>2 DEF LockTeacher
<1>4. \A g, who : SameUse(b, LockTeachers(b, g, who))
  BY DEF LockTeachers, TallyType, SameUse
<1>5. \A S : SameUse(b, ForgetLocks(b, S))
  BY DEF ForgetLocks, TallyType, SameUse
<1> QED
  BY <1>1, <1>2, <1>3, <1>4, <1>5

\* The same counters and locks, the same invariant.
LEMMA SameRoomLocks ==
  ASSUME NEW R, NEW b, NEW n, SameUse(b, n)
  PROVE  /\ Recounted(R, b) => Recounted(R, n)
         /\ \A a : SameLocks(R, a, b) => SameLocks(R, a, n)
BY DEF Recounted, SameLocks, SameUse

\* Locks that only grow hold on.
LEMMA LocksGrow ==
  ASSUME NEW R \in SUBSET Row, NEW L, NEW M, LocksHold(R, L),
         \A x \in Classes \X Subjects : L[x] # NoTeacher => M[x] = L[x]
  PROVE  LocksHold(R, M)
<1> SUFFICES ASSUME NEW r \in R, NEW c \in ClassesOf[r.lesson]
             PROVE  M[<<c, SubjectOf[r.lesson]>>] = r.teacher
  BY DEF LocksHold
<1>1. r.teacher \in Teachers /\ <<c, SubjectOf[r.lesson]>> \in Classes \X Subjects
  BY RowTriple
<1>2. L[<<c, SubjectOf[r.lesson]>>] = r.teacher
  BY DEF LocksHold
<1>3. r.teacher # NoTeacher
  BY <1>1, ProblemAssumption DEF ValidLessons, ValidGroups
<1> QED
  BY <1>1, <1>2, <1>3

\* Free keys keep a new row off everyone.
LEMMA FreeRow ==
  ASSUME NEW R, NEW u, u = Occupy(Nobody, R), NEW q,
         <<q.teacher, q.slot>> \notin u.teacher, <<q.room, q.slot>> \notin u.room,
         \A c \in ClassesOf[q.lesson] : <<c, q.slot>> \notin u.class
  PROVE  \A r \in R : ~Clash(r, q)
BY FreeKeys DEF Clash

\* A lock that a row holds counts.
LEMMA HeldLock ==
  ASSUME NEW R \in SUBSET Row, NEW b, Recounted(R, b), NEW x \in Triples
  PROVE  Locking(R, x) # {} <=> b.lock[x] > 0
<1>1. TripleCount(R, x) \in Nat /\ (TripleCount(R, x) = 0 <=> Locking(R, x) = {})
  BY EmptyTriple DEF Locking
<1> QED
  BY <1>1 DEF Recounted

\* Placing a block of a single lesson.
LEMMA PlaceShared ==
  ASSUME TypeOK, Parallel(rows), Kept(rows, used, tally),
         NEW l \in Lessons, NEW s \in Slots, NEW room \in Rooms, NEW t \in Teachers,
         Place(l, s, room, t)
  PROVE  /\ Parallel(rows') /\ Kept(rows', used', tally') /\ SameLocks(rows, tally, tally')
         /\ rows' = rows \cup Block(l, s, room, t) /\ rows \cap Block(l, s, room, t) = {}
         /\ \A r \in rows, q \in Block(l, s, room, t) : ~Clash(r, q)
<1> DEFINE B == Block(l, s, room, t)
           W == Window(s, BlockSize[l])
<1>1. W \subseteq Slots /\ B \in SUBSET Row /\ rows' = rows \cup B /\ rows \in SUBSET Row
      /\ tally \in TallyType
  BY PlaceType DEF Place, CanPlace, TypeOK
<1>2. \A q \in B : /\ q.lesson = l /\ q.room = room /\ q.teacher = t
                   /\ q.slot \in W /\ Day(q.slot) = Day(s)
                   /\ \A r \in B : q.slot = r.slot => q = r
  BY BlockRows
<1>3. \A r \in rows, q \in B : ~Clash(r, q)
  <2> SUFFICES ASSUME NEW q \in B PROVE \A r \in rows : ~Clash(r, q)
    OBVIOUS
  <2>1. <<q.teacher, q.slot>> \notin used.teacher /\ <<q.room, q.slot>> \notin used.room
        /\ \A c \in ClassesOf[q.lesson] : <<c, q.slot>> \notin used.class
    BY <1>2 DEF Place, CanPlace, ClassesFree, RoomFits, TeacherFits
  <2> QED
    BY <2>1, FreeRow DEF Kept
<1>4. Parallel(rows \cup B) /\ rows \cap B = {}
  <2>1. NoDoubleBooking(B)
    BY <1>2 DEF NoDoubleBooking, Clash
  <2> QED
    BY <1>3, <2>1, ApartParallel, ParallelParts
<1>5. used' = Occupy(Nobody, rows')
  BY <1>1, OccupyMirror DEF Place, Kept
<1>6. Welcome(rows, B, tally)
  <2> SUFFICES ASSUME NEW x \in Triples, NEW r \in Locking(Firm(B), x)
               PROVE  IF Locking(rows, x) # {} THEN tally.lockRoom[x] = r.room
                      ELSE \A q \in Locking(B, x) : q.room = r.room
    BY DEF Welcome
  <2>1. r \in B /\ r \in TripleRows(B, x[1], x[2], x[3])
    BY DEF Locking, Firm, TripleRows
  <2>2. x \in LockKeys(l, Day(s)) /\ r.room = room
    BY <1>2, <2>1, TripleOfRow
  <2>3. Locking(rows, x) # {} => tally.lockRoom[x] = room
    BY <1>1, <2>2, HeldLock DEF Kept, Place, CanPlace
  <2>4. \A q \in Locking(B, x) : q.room = room
    BY <1>2 DEF Locking, TripleRows
  <2> QED
    BY <2>2, <2>3, <2>4
<1> DEFINE b0 == CountIn(tally, B)
           b1 == MoreLessons(b0, {B}, 1)
<1>7. b0 \in TallyType /\ Recounted(rows', b0) /\ SameLocks(rows, tally, b0)
      /\ b0.teacherLock = tally.teacherLock
  BY <1>1, <1>4, <1>6, CountInRooms, CountType, CountFields DEF Kept
<1>8. b1 \in TallyType /\ SameUse(b0, b1)
      /\ b1.teacherLock = tally.teacherLock
  <2> HIDE DEF b0
  <2> QED
    BY <1>1, <1>7, LocksAlone, LessonsType DEF SameUse
<1>9. tally' = LockTeacher(b1, l, t)
  BY DEF Place
<1> HIDE DEF b0, b1
<1>10. SameUse(b0, tally')
  BY <1>8, <1>9, LocksAlone DEF SameUse
<1>11. Recounted(rows', tally') /\ SameLocks(rows, tally, tally')
  BY <1>7, <1>10, SameRoomLocks
<1>12. LocksHold(Singles(rows'), tally'.teacherLock)
  <2>1. \A x \in Classes \X Subjects : tally'.teacherLock[x] =
          IF x[1] \in ClassesOf[l] /\ x[2] = SubjectOf[l] /\ tally.teacherLock[x] = NoTeacher
          THEN t ELSE tally.teacherLock[x]
    BY <1>8, <1>9 DEF LockTeacher, TallyType
  <2>2. LocksHold(Singles(rows), tally'.teacherLock)
    <3>1. Singles(rows) \in SUBSET Row
      BY <1>1 DEF Singles
    <3>2. \A x \in Classes \X Subjects :
            tally.teacherLock[x] # NoTeacher => tally'.teacherLock[x] = tally.teacherLock[x]
      BY <2>1
    <3> QED
      BY <3>1, <3>2, LocksGrow DEF Kept
  <2>3. ASSUME NEW q \in B, NEW c \in ClassesOf[q.lesson]
        PROVE  tally'.teacherLock[<<c, SubjectOf[q.lesson]>>] = q.teacher
    <3>1. q.lesson = l /\ q.teacher = t
      BY <1>2
    <3> DEFINE x == <<c, SubjectOf[l]>>
    <3>2. x \in Classes \X Subjects
      BY <1>1, <3>1, RowTriple
    <3>3. t \in TeacherChoices(l)
      BY DEF Place, CanPlace
    <3>4. CASE tally.teacherLock[x] = NoTeacher
      BY <2>1, <3>1, <3>2, <3>4
    <3>5. CASE tally.teacherLock[x] # NoTeacher
      <4>1. tally.teacherLock[x] \in LockedTeachers(l)
        BY <3>1, <3>5 DEF LockedTeachers
      <4>2. LockedTeachers(l) = {t}
        BY <3>3, <4>1 DEF TeacherChoices
      <4> QED
        BY <2>1, <3>1, <3>2, <3>5, <4>1, <4>2
    <3> QED
      BY <3>4, <3>5
  <2> QED
    BY <1>1, <2>2, <2>3 DEF LocksHold, Singles
<1> QED
  BY <1>1, <1>3, <1>4, <1>5, <1>11, <1>12 DEF Kept

\* Placing the lessons of a group, each with a room and a teacher of its own.
LEMMA GroupPlaceShared ==
  ASSUME TypeOK, Parallel(rows), Kept(rows, used, tally), NEW g \in Groups, PlaceSomewhere(g)
  PROVE  /\ Parallel(rows') /\ Kept(rows', used', tally') /\ SameLocks(rows, tally, tally')
         /\ rows \subseteq rows' /\ \A r \in rows, q \in rows' \ rows : ~Clash(r, q)
         /\ \A l \in g : Cardinality(RowsOf(rows' \ rows, l)) = BlockSize[l]
<1>1. PICK s \in Slots :
        \E room \in Servings(g, [l \in g |-> RoomsFor(l, s)]),
           who \in Servings(g, [l \in g |-> TeachersFor(l, s)]) :
             PlaceGroup(g, s, room, who)
  BY DEF PlaceSomewhere
<1>2. PICK room \in Servings(g, [l \in g |-> RoomsFor(l, s)]),
           who \in Servings(g, [l \in g |-> TeachersFor(l, s)]) :
             PlaceGroup(g, s, room, who)
  BY <1>1
<1>3. AllServed(g, s, room, who)
  BY Served DEF AllServed
<1> DEFINE W == Window(s, BlockSize[Member(g)])
           N == GroupRows(g, s, room, who)
           blocks == {Block(l, s, room[l], who[l]) : l \in g}
<1>4. W \subseteq Slots /\ rows \in SUBSET Row /\ tally \in TallyType
  BY <1>2 DEF PlaceGroup, WindowOpen, TypeOK
<1>5. N \in SUBSET Row /\ blocks \in SUBSET SUBSET Row /\ \A r \in N : r.lesson \in g
  BY <1>3, <1>4, GroupRowsShape
<1>6. \A q \in N : /\ q.lesson \in g /\ q.slot \in W /\ Day(q.slot) = Day(s)
                   /\ q.room = room[q.lesson] /\ q.teacher = who[q.lesson]
  <2> SUFFICES ASSUME NEW l \in g, NEW q \in Block(l, s, room[l], who[l])
               PROVE  /\ q.lesson \in g /\ q.slot \in W /\ Day(q.slot) = Day(s)
                      /\ q.room = room[q.lesson] /\ q.teacher = who[q.lesson]
    BY DEF GroupRows
  <2>1. BlockSize[l] = BlockSize[Member(g)]
    BY Members
  <2> QED
    BY <2>1, BlockRows
<1>7. /\ rows' = rows \cup N /\ used' = Occupy(used, N)
      /\ tally' = LockTeachers(MoreLessons(CountIn(tally, N), blocks, 1), g, who)
  BY <1>2 DEF PlaceGroup, GroupRows, CountGroup
<1>8. \A r \in rows, q \in N : ~Clash(r, q)
  <2> SUFFICES ASSUME NEW q \in N PROVE \A r \in rows : ~Clash(r, q)
    OBVIOUS
  <2> DEFINE l == q.lesson
  <2>1. l \in g /\ q.slot \in W /\ BlockSize[l] = BlockSize[Member(g)]
        /\ q.room = room[l] /\ q.teacher = who[l]
    BY <1>6, Members
  <2>2. room[l] \in RoomsFor(l, s) /\ who[l] \in TeachersFor(l, s)
    BY <1>3, <2>1 DEF AllServed
  <2>3. ClassesFree(l, W)
    BY <1>2, <2>1 DEF PlaceGroup, WindowOpen
  <2> HIDE DEF l, W
  <2>4. <<room[l], q.slot>> \notin used.room /\ <<who[l], q.slot>> \notin used.teacher
    BY <2>1, <2>2 DEF RoomsFor, RoomFits, TeachersFor, TeacherFits, W
  <2>5. \A c \in ClassesOf[l] : <<c, q.slot>> \notin used.class
    BY <2>1, <2>3 DEF ClassesFree
  <2> QED
    BY <2>1, <2>4, <2>5, FreeRow DEF Kept, l
<1>9. Parallel(N)
  <2> SUFFICES ASSUME NEW r \in N, NEW q \in N, r # q, r.slot = q.slot
               PROVE  /\ r.teacher # q.teacher /\ r.room # q.room
                      /\ \E h \in Groups : {r.lesson, q.lesson} \subseteq h
    BY DEF Parallel, Clash
  <2>1. r.lesson \in g /\ q.lesson \in g
    BY <1>5
  <2>2. r.lesson # q.lesson
    BY <1>5, <1>6 DEF Row
  <2>3. Distinct(room) /\ Distinct(who) /\ DOMAIN room = g /\ DOMAIN who = g
    BY DEF Servings
  <2> QED
    BY <1>6, <2>1, <2>2, <2>3 DEF Distinct
<1> HIDE DEF N, W, blocks
<1>10. Parallel(rows') /\ rows \cap N = {}
  BY <1>7, <1>8, <1>9, ParallelParts
<1>11. used' = Occupy(Nobody, rows')
  BY <1>7, OccupyMirror DEF Kept
<1>12. Welcome(rows, N, tally)
  <2> SUFFICES ASSUME NEW x \in Triples, NEW r \in Locking(Firm(N), x)
               PROVE  IF Locking(rows, x) # {} THEN tally.lockRoom[x] = r.room
                      ELSE \A q \in Locking(N, x) : q.room = r.room
    BY DEF Welcome
  <2>1. r \in N /\ SoleOfSubject(r.lesson) /\ r \in TripleRows(N, x[1], x[2], x[3])
    BY DEF Locking, Firm, TripleRows
  <2>2. x \in LockKeys(r.lesson, Day(s)) /\ r.lesson \in g /\ r.room = room[r.lesson]
    BY <1>6, <2>1, TripleOfRow
  <2>3. Locking(rows, x) # {} => tally.lockRoom[x] = r.room
    <3>1. room[r.lesson] \in RoomsFor(r.lesson, s)
      BY <1>3, <2>2 DEF AllServed
    <3> QED
      BY <1>4, <2>2, <3>1, HeldLock DEF Kept, RoomsFor
  <2>4. ASSUME NEW q \in Locking(N, x) PROVE q.room = r.room
    <3>1. q \in N /\ q.lesson \in g /\ SubjectOf[q.lesson] = SubjectOf[r.lesson]
          /\ x[1] \in ClassesOf[q.lesson] \cap ClassesOf[r.lesson]
      BY <1>6, <2>1 DEF Locking, TripleRows
    <3>2. q.lesson = r.lesson
      BY <2>1, <2>2, <3>1 DEF SoleOfSubject
    <3> QED
      BY <1>6, <2>1, <3>1, <3>2
  <2> QED
    BY <2>3, <2>4
<1> DEFINE b0 == CountIn(tally, N)
           b1 == MoreLessons(b0, blocks, 1)
<1>13. b0 \in TallyType /\ Recounted(rows', b0) /\ SameLocks(rows, tally, b0)
      /\ b0.teacherLock = tally.teacherLock
  BY <1>4, <1>5, <1>7, <1>10, <1>12, CountInRooms, CountType, CountFields DEF Kept
<1>14. b1 \in TallyType /\ SameUse(b0, b1)
      /\ b1.teacherLock = tally.teacherLock
  <2> HIDE DEF b0
  <2> QED
    BY <1>5, <1>13, LocksAlone, LessonsType DEF SameUse
<1>15. tally' = LockTeachers(b1, g, who)
  BY <1>7
<1> HIDE DEF b0, b1
<1>16. SameUse(b0, tally')
  BY <1>14, <1>15, LocksAlone DEF SameUse
<1>17. Recounted(rows', tally') /\ SameLocks(rows, tally, tally')
  BY <1>13, <1>16, SameRoomLocks
<1>18. LocksHold(Singles(rows'), tally'.teacherLock)
  <2>1. \A x \in Classes \X Subjects :
          tally.teacherLock[x] # NoTeacher => tally'.teacherLock[x] = tally.teacherLock[x]
    BY <1>14, <1>15 DEF LockTeachers, TallyType
  <2>2. Singles(rows') = Singles(rows) /\ Singles(rows) \in SUBSET Row
    BY <1>4, <1>5, <1>7 DEF Singles, Grouped
  <2> QED
    BY <2>1, <2>2, LocksGrow DEF Kept
<1>19. ASSUME NEW l \in g PROVE Cardinality(RowsOf(rows' \ rows, l)) = BlockSize[l]
  <2> DEFINE B(m) == Block(m, s, room[m], who[m])
  <2>1. \A m \in g : \A r \in B(m) : r.lesson = m
    BY DEF Block
  <2>2. N = UNION {B(m) : m \in g}
    BY DEF N, GroupRows
  <2>3. l \in Lessons
    BY Members
  <2>4. Cardinality(B(l)) = BlockSize[l]
    BY <2>3, BlockOfRows
  <2> HIDE DEF B
  <2>5. rows' \ rows = N /\ RowsOf(N, l) = B(l)
    BY <1>7, <1>10, <2>1, <2>2 DEF RowsOf
  <2> QED
    BY <2>4, <2>5
<1> QED
  BY <1>7, <1>8, <1>10, <1>11, <1>17, <1>18, <1>19 DEF Kept

\* Taking rows out that clash with none of the others.
LEMMA TakeOutShared ==
  ASSUME TypeOK, Parallel(rows), Kept(rows, used, tally),
         NEW R \in SUBSET rows, TakeOut(R), \A r \in rows \ R, q \in R : ~Clash(r, q)
  PROVE  /\ Parallel(rows') /\ Kept(rows', used', tally') /\ SameLocks(rows', tally, tally')
         /\ rows' = rows \ R
<1>1. R \in SUBSET Row /\ rows \in SUBSET Row /\ tally \in TallyType /\ rows' = rows \ R
  BY DEF TypeOK, TakeOut
<1>2. Parallel(rows')
  BY <1>1, ParallelParts
<1>3. used' = Occupy(Nobody, rows')
  BY <1>1, VacateApart DEF TakeOut, Kept
<1> DEFINE b0 == CountOut(tally, R)
           b1 == FewerLessons(b0, BlocksOf(R), 1)
<1>4. b0 \in TallyType /\ b0.teacherLock = tally.teacherLock /\ Recounted(rows', b0)
      /\ SameLocks(rows', tally, b0)
  BY <1>1, CountType, CountFields, CountOutRooms DEF Kept
<1>5. BlocksOf(R) \in SUBSET SUBSET Row
  BY <1>1 DEF BlocksOf, RowsOfOn
<1>6. b1 \in TallyType /\ b1.teacherLock = tally.teacherLock
      /\ SameUse(b0, b1)
  <2> HIDE DEF b0
  <2> QED
    BY <1>4, <1>5, LessonsType, LocksAlone DEF SameUse
<1>7. tally' = ForgetLocks(b1, rows')
  BY <1>1 DEF TakeOut
<1> HIDE DEF b0, b1
<1>8. SameUse(b0, tally')
  BY <1>6, <1>7, LocksAlone DEF SameUse
<1>9. Recounted(rows', tally') /\ SameLocks(rows', tally, tally')
  BY <1>4, <1>8, SameRoomLocks
<1>10. ASSUME NEW r \in Singles(rows'), NEW c \in ClassesOf[r.lesson]
      PROVE  tally'.teacherLock[<<c, SubjectOf[r.lesson]>>] = r.teacher
  <2>1. r \in rows' /\ r \in Singles(rows) /\ r \in Row
    BY <1>1 DEF Singles
  <2>2. <<c, SubjectOf[r.lesson]>> \in Classes \X Subjects
    BY <2>1, RowTriple
  <2>3. tally'.teacherLock[<<c, SubjectOf[r.lesson]>>]
          = b1.teacherLock[<<c, SubjectOf[r.lesson]>>]
    BY <1>6, <1>7, <2>1, <2>2 DEF ForgetLocks, TallyType
  <2> QED
    BY <1>6, <2>1, <2>3 DEF Kept, LocksHold
<1> QED
  BY <1>1, <1>2, <1>3, <1>9, <1>10 DEF Kept, LocksHold

\* In schedule R, with keys u and tally b, the rows O give way to the rows N
\* beside K, which makes M.
Replacing(R, u, b, O, N, K, M) ==
    /\ R \in SUBSET Row /\ b \in TallyType /\ u = Occupy(Nobody, R) /\ Recounted(R, b)
    /\ O \in SUBSET R /\ \A r \in R \ O, q \in O : ~Clash(r, q)
    /\ N \in SUBSET Row /\ K \cap N = {} /\ Welcome(K, N, b)
    /\ K = R \ O /\ M = K \cup N

\* Rows that clash with none of the others are replaced in one step of the
\* bookkeeping.
LEMMA ReplaceShared ==
  ASSUME NEW R, NEW u, NEW b, NEW O, NEW N, NEW K, NEW M, Replacing(R, u, b, O, N, K, M)
  PROVE  /\ Occupy(Vacate(u, O), N) = Occupy(Nobody, M)
         /\ Recounted(M, Recount(b, O, N))
         /\ Recount(b, O, N) \in TallyType
         /\ Recount(b, O, N).teacherLock = b.teacherLock
<1> R \in SUBSET Row /\ b \in TallyType /\ O \in SUBSET R /\ N \in SUBSET Row
  BY DEF Replacing
<1> DEFINE n == CountOut(b, O)
<1>1. n \in TallyType /\ n.teacherLock = b.teacherLock
  BY CountType, CountFields
<1>2. Recounted(R \ O, n) /\ SameLocks(R \ O, b, n)
  BY CountOutRooms DEF Replacing
<1>3. Occupy(Vacate(u, O), N) = Occupy(Nobody, (R \ O) \cup N)
  BY VacateApart, OccupyMirror DEF Replacing
<1>4. Welcome(R \ O, N, n)
  BY <1>2 DEF Welcome, SameLocks, Replacing
<1> HIDE DEF n
<1>5. Recounted((R \ O) \cup N, CountIn(n, N))
  BY <1>1, <1>2, <1>4, CountInRooms DEF Replacing
<1>6. CountIn(n, N) \in TallyType /\ CountIn(n, N).teacherLock = n.teacherLock
  BY <1>1, CountType, CountFields
<1>7. M = (R \ O) \cup N
  BY DEF Replacing
<1> QED
  BY <1>1, <1>3, <1>5, <1>6, <1>7 DEF Recount, n

\* What a Change picks up has everything in common but the slot here, too.
LEMMA SourceShared ==
  ASSUME TypeOK, Parallel(rows), Kept(rows, used, tally),
         NEW l \in Lessons, l \notin Grouped, NEW R \in Sources(l)
  PROVE  /\ R \in SUBSET rows /\ R \in SUBSET Singles(rows) /\ R # {}
         /\ Cardinality(R) = BlockSize[l]
         /\ \A r, q \in R : /\ r.lesson = l /\ Day(r.slot) = Day(q.slot)
                            /\ r.room = q.room /\ r.teacher = q.teacher
         /\ \A r \in rows \ R, q \in R : ~Clash(r, q)
<1>1. R \in SUBSET rows /\ R # {} /\ R \in SUBSET Row /\ rows \in SUBSET Row
  BY SourceNotEmpty DEF TypeOK
<1>2. \A r, q \in R : r.lesson = l /\ Day(r.slot) = Day(q.slot)
  BY DEF Sources, RowsOf, RowsOfOn
<1>3. R \in SUBSET Singles(rows)
  BY <1>1, <1>2 DEF Singles
<1>4. PICK c \in ClassesOf[l] : TRUE
  BY ProblemAssumption DEF ValidLessons, ValidGroups
<1>5. ASSUME NEW r \in R, NEW q \in R
      PROVE  r.room = q.room /\ r.teacher = q.teacher
  <2> DEFINE x == <<c, Day(r.slot), SubjectOf[l]>>
  <2>1. x \in Triples
    BY <1>1, <1>2, <1>4, RowTriple
  <2>2. r \in Locking(Singles(rows), x) /\ q \in Locking(Singles(rows), x)
    BY <1>2, <1>3, <1>4 DEF Locking, TripleRows
  <2> HIDE DEF x
  <2>3. r.room = q.room
    BY <2>1, <2>2, SinglesFirm DEF Kept, Recounted
  <2>4. r.teacher = q.teacher
    BY <1>2, <1>3, <1>4 DEF Kept, LocksHold
  <2> QED
    BY <2>3, <2>4
<1>6. \A r \in rows, q \in R : r # q => ~Clash(r, q)
  BY <1>3, SinglesApart
<1>7. \A r, q \in R : r.slot = q.slot => r = q
  BY <1>1, <1>5, <1>6 DEF Clash
<1>8. Cardinality(R) = BlockSize[l]
  BY <1>1, <1>7, SourceSize
<1> QED
  BY <1>1, <1>2, <1>3, <1>5, <1>6, <1>8

\* A lock of the destination that another row holds is for the room a Change
\* takes.
LEMMA ChangeRoomLocked ==
  ASSUME rows \in SUBSET Row, Recounted(rows, tally),
         NEW l \in Lessons, NEW R \in SUBSET rows, Cardinality(R) = BlockSize[l],
         \A q \in R : q.lesson = l,
         NEW s \in Slots, NEW old, NEW own, NEW W, \A r \in R : old.day = Day(r.slot),
         NEW room \in ChangeRooms(l, old, Day(s), W, own),
         NEW x \in Triples, x \in LockKeys(l, Day(s)), Locking(rows \ R, x) # {}
  PROVE  tally.lockRoom[x] = room
<1>1. tally.lock[x] = Cardinality(Locking(rows, x))
  BY DEF Recounted, TripleCount, Locking
<1>2. tally.lock[x] > 0
  <2>1. Locking(rows, x) # {}
    BY DEF Locking, TripleRows
  <2> QED
    BY <2>1, HeldLock
<1>3. ~(old.day = Day(s) /\ tally.lock[x] = BlockSize[l])
  <2> SUFFICES ASSUME old.day = Day(s), tally.lock[x] = BlockSize[l] PROVE FALSE
    OBVIOUS
  <2> DEFINE T == Locking(rows, x)
  <2>1. R \subseteq T
    BY DEF LockKeys, Locking, TripleRows
  <2>2. IsFiniteSet(T)
    BY ScheduleFinite DEF Locking, TripleRows
  <2>3. Cardinality(T) = Cardinality(R)
    BY <1>1
  <2>4. T \ R # {}
    BY DEF Locking, TripleRows
  <2> HIDE DEF T
  <2>5. R = T
    BY <2>1, <2>2, <2>3, FS_Subset
  <2> QED
    BY <2>4, <2>5
<1> DEFINE held == {y \in LockKeys(l, Day(s)) :
                      /\ tally.lock[y] > 0
                      /\ ~(old.day = Day(s) /\ tally.lock[y] = BlockSize[l])}
           locked == {tally.lockRoom[y] : y \in held}
<1>4. tally.lockRoom[x] \in locked
  BY <1>2, <1>3
<1>5. locked # {} => locked = {room}
  <2> HIDE DEF held
  <2> QED
    BY DEF ChangeRooms, held
<1> HIDE DEF locked
<1> QED
  BY <1>4, <1>5

\* A block moves beside the rows that stay.
LEMMA ChangeShared ==
  ASSUME TypeOK, Parallel(rows), Kept(rows, used, tally), NEW l \in Lessons, Change(l)
  PROVE  Parallel(rows') /\ Kept(rows', used', tally')
<1>1. PICK R \in Sources(l), s \in Slots :
        LET own == {r.slot : r \in R}
            W == Window(s, BlockSize[l])
            any == CHOOSE r \in R : TRUE
            old == [day |-> Day(any.slot), room |-> any.room]
        IN  /\ W \subseteq Slots
            /\ TeacherFits(any.teacher, W \ own)
            /\ ClassesFree(l, W \ own)
            /\ \E room \in ChangeRooms(l, old, Day(s), W, own) :
                LET B == Block(l, s, room, any.teacher)
                IN  /\ rows' = (rows \ R) \cup B
                    /\ used' = Occupy(Vacate(used, R), B)
                    /\ tally' = MoreLessons(
                                   FewerLessons(Recount(tally, R, B), {R}, LessonsMoved(l)),
                                   {B}, LessonsMoved(l))
  BY DEF Change
<1> DEFINE own == {r.slot : r \in R}
           W == Window(s, BlockSize[l])
           any == CHOOSE r \in R : TRUE
           old == [day |-> Day(any.slot), room |-> any.room]
<1>2. W \subseteq Slots /\ TeacherFits(any.teacher, W \ own) /\ ClassesFree(l, W \ own)
  BY <1>1
<1>3. PICK room \in ChangeRooms(l, old, Day(s), W, own) :
        /\ rows' = (rows \ R) \cup Block(l, s, room, any.teacher)
        /\ used' = Occupy(Vacate(used, R), Block(l, s, room, any.teacher))
        /\ tally' = MoreLessons(
                       FewerLessons(Recount(tally, R, Block(l, s, room, any.teacher)),
                                    {R}, LessonsMoved(l)),
                       {Block(l, s, room, any.teacher)}, LessonsMoved(l))
  BY <1>1
<1> DEFINE t == any.teacher
           B == Block(l, s, room, t)
           n == LessonsMoved(l)
           b0 == Recount(tally, R, B)
           b1 == FewerLessons(b0, {R}, n)
<1>4. l \notin Grouped /\ rows \in SUBSET Row /\ tally \in TallyType
  BY DEF Change, Searching, Frozen, TypeOK
<1>5. /\ R \in SUBSET rows /\ R \in SUBSET Singles(rows) /\ R # {}
      /\ Cardinality(R) = BlockSize[l]
      /\ \A r, q \in R : /\ r.lesson = l /\ Day(r.slot) = Day(q.slot)
                         /\ r.room = q.room /\ r.teacher = q.teacher
      /\ \A r \in rows \ R, q \in R : ~Clash(r, q)
  BY <1>4, SourceShared
<1>6. any \in R /\ any \in Row /\ t \in Teachers
      /\ \A r \in R : old.day = Day(r.slot) /\ old.room = r.room /\ t = r.teacher
  <2>1. any \in R /\ any \in Row
    BY <1>4, <1>5
  <2> HIDE DEF any
  <2> QED
    BY <1>5, <2>1, RowTriple
<1>7. room \in Rooms /\ RoomFits(l, room, IF room = old.room THEN W \ own ELSE W)
  <2> HIDE DEF old, W, own
  <2> QED
    BY DEF ChangeRooms
<1> HIDE DEF any, t, old
<1>8. B \in SUBSET Row
  BY <1>2, <1>6, <1>7, BlockType
<1>9. \A q \in B : /\ q.lesson = l /\ q.room = room /\ q.teacher = t
                   /\ q.slot \in W /\ Day(q.slot) = Day(s)
                   /\ \A r \in B : q.slot = r.slot => q = r
  BY BlockRows
<1>10. /\ rows' = (rows \ R) \cup B /\ used' = Occupy(Vacate(used, R), B)
       /\ tally' = MoreLessons(b1, {B}, n)
  BY <1>3 DEF t
<1> HIDE DEF B
<1>11. ASSUME NEW r \in rows \ R, NEW q \in B PROVE ~Clash(r, q)
  <2> SUFFICES ASSUME r.slot = q.slot
               PROVE  r.teacher # t /\ r.room # room /\ ClassesOf[r.lesson] \cap ClassesOf[l] = {}
    BY <1>9 DEF Clash
  <2>1. r.slot \in W
    BY <1>9
  <2>2. /\ <<r.teacher, r.slot>> \in used.teacher /\ <<r.room, r.slot>> \in used.room
        /\ \A c \in ClassesOf[r.lesson] : <<c, r.slot>> \in used.class
    BY FreeKeys DEF Kept
  <2>3. CASE r.slot \in own
    <3>1. PICK p \in R : p.slot = r.slot
      BY <2>3
    <3>2. ~Clash(r, p) /\ p.lesson = l /\ p.teacher = t /\ p.room = old.room
      BY <1>5, <1>6
    <3>3. room # old.room => r.room # room
      <4> HIDE DEF W, own
      <4> QED
        BY <1>7, <2>1, <2>2 DEF RoomFits
    <3> QED
      BY <3>1, <3>2, <3>3 DEF Clash
  <2>4. CASE r.slot \notin own
    <3>1. r.slot \in W \ own
      BY <2>1, <2>4
    <3> HIDE DEF W, own
    <3>2. r.room # room
      BY <1>7, <2>1, <2>2, <3>1 DEF RoomFits
    <3>3. <<t, r.slot>> \notin used.teacher /\ \A c \in ClassesOf[l] : <<c, r.slot>> \notin used.class
      BY <1>2, <3>1 DEF TeacherFits, ClassesFree, t
    <3> QED
      BY <2>2, <3>2, <3>3
  <2> QED
    BY <2>3, <2>4
<1>12. Parallel(rows') /\ (rows \ R) \cap B = {}
  <2>1. Parallel(rows \ R)
    BY ParallelParts
  <2>2. NoDoubleBooking(B)
    BY <1>9 DEF NoDoubleBooking, Clash
  <2>3. Parallel(B)
    BY <2>2, ApartParallel
  <2> QED
    BY <1>10, <1>11, <2>1, <2>3, ParallelParts
<1>13. Welcome(rows \ R, B, tally)
  <2> SUFFICES ASSUME NEW x \in Triples, NEW r \in Locking(Firm(B), x)
               PROVE  IF Locking(rows \ R, x) # {} THEN tally.lockRoom[x] = r.room
                      ELSE \A q \in Locking(B, x) : q.room = r.room
    BY DEF Welcome
  <2>1. r \in B /\ r \in TripleRows(B, x[1], x[2], x[3])
    BY DEF Locking, Firm, TripleRows
  <2>2. x \in LockKeys(l, Day(s)) /\ r.room = room
    BY <1>9, <2>1, TripleOfRow
  <2>3. Locking(rows \ R, x) # {} => tally.lockRoom[x] = room
    <3> HIDE DEF own, W
    <3>1. \A q \in R : q.lesson = l
      BY <1>5
    <3> QED
      BY <1>3, <1>4, <1>5, <1>6, <2>2, <3>1, ChangeRoomLocked DEF Kept
  <2>4. \A q \in Locking(B, x) : q.room = room
    BY <1>9 DEF Locking, TripleRows
  <2> QED
    BY <2>2, <2>3, <2>4
<1>14. /\ used' = Occupy(Nobody, rows') /\ Recounted(rows', b0) /\ b0 \in TallyType
       /\ b0.teacherLock = tally.teacherLock
  <2>1. /\ tally \in TallyType /\ used = Occupy(Nobody, rows) /\ Recounted(rows, tally)
        /\ rows \in SUBSET Row /\ R \in SUBSET rows
    BY <1>4, <1>5 DEF Kept
  <2>2. rows' = (rows \ R) \cup B /\ used' = Occupy(Vacate(used, R), B)
    BY <1>10
  <2>3. \A r \in rows \ R, q \in R : ~Clash(r, q)
    BY <1>5
  <2>4. (rows \ R) \cap B = {}
    BY <1>12
  <2> DEFINE K == rows \ R
  <2>5. Replacing(rows, used, tally, R, B, K, rows')
    BY <1>8, <1>13, <2>1, <2>2, <2>3, <2>4 DEF Replacing
  <2> HIDE DEF K
  <2> QED
    BY <2>2, <2>5, ReplaceShared
<1>15. n \in Nat /\ {R} \in SUBSET SUBSET Row
  BY <1>4, <1>5, ProblemAssumption DEF LessonsMoved, ValidLessons, ValidGroups
<1>16. b1 \in TallyType /\ SameUse(b0, b1)
       /\ b1.teacherLock = tally.teacherLock
  <2> HIDE DEF b0, n
  <2> QED
    BY <1>14, <1>15, LocksAlone, LessonsType DEF SameUse
<1>17. SameUse(b0, tally')
       /\ tally'.teacherLock = tally.teacherLock
  <2> HIDE DEF b0, b1, n
  <2> QED
    BY <1>10, <1>16, LocksAlone DEF SameUse
<1>18. Recounted(rows', tally')
  <2> HIDE DEF b0
  <2> QED
    BY <1>14, <1>17, SameRoomLocks
<1>19. LocksHold(Singles(rows'), tally'.teacherLock)
  <2>1. \A q \in B : \A c \in ClassesOf[q.lesson] :
          tally.teacherLock[<<c, SubjectOf[q.lesson]>>] = q.teacher
    BY <1>5, <1>6, <1>9 DEF Kept, LocksHold
  <2> QED
    BY <1>10, <1>17, <2>1 DEF Kept, LocksHold, Singles
<1> QED
  BY <1>12, <1>14, <1>18, <1>19 DEF Kept

\* One side of a swap keeps the arriving row off everyone who stays, in the room
\* its locks are for.
LEMMA SwapSideShared ==
  ASSUME rows \in SUBSET Row, Parallel(rows), Kept(rows, used, tally),
         NEW a \in Singles(rows), NEW b \in Singles(rows), SwapFits(a, b),
         NEW a2, MovedTo(a2, a, b.slot)
  PROVE  /\ \A r \in rows \ {a, b} : ~Clash(r, a2)
         /\ \A x \in Triples : a2 \in Locking({a2}, x) /\ Locking(rows, x) # {} =>
              tally.lockRoom[x] = a2.room
<1>1. a2.lesson = a.lesson /\ a2.slot = b.slot /\ a2.room = a.room /\ a2.teacher = a.teacher
  BY DEF MovedTo
<1>2. ASSUME NEW r \in rows \ {a, b} PROVE ~Clash(r, a2)
  <2> SUFFICES ASSUME r.slot = b.slot
               PROVE  r.teacher # a.teacher /\ r.room # a.room
                      /\ ClassesOf[r.lesson] \cap ClassesOf[a.lesson] = {}
    BY <1>1 DEF Clash
  <2>1. r.teacher # b.teacher /\ r.room # b.room
        /\ ClassesOf[r.lesson] \cap ClassesOf[b.lesson] = {}
    BY SinglesApart DEF Clash
  <2>2. /\ <<r.teacher, r.slot>> \in used.teacher /\ <<r.room, r.slot>> \in used.room
        /\ \A c \in ClassesOf[r.lesson] : <<c, r.slot>> \in used.class
    BY FreeKeys DEF Kept
  <2> QED
    BY <2>1, <2>2 DEF SwapFits
<1>3. ASSUME NEW x \in Triples, a2 \in Locking({a2}, x), Locking(rows, x) # {}
      PROVE  tally.lockRoom[x] = a.room
  <2>1. x \in LockKeys(a.lesson, Day(b.slot)) /\ a2 \in TripleRows({a2}, x[1], x[2], x[3])
    BY <1>1, <1>3, TripleOfRow DEF Locking
  <2>2. CASE Day(a.slot) = Day(b.slot)
    <3>1. a \in Locking(Singles(rows), x)
      BY <1>1, <2>1, <2>2 DEF Locking, TripleRows
    <3> QED
      BY <3>1, SinglesFirm DEF Kept, Recounted
  <2>3. CASE Day(a.slot) # Day(b.slot)
    <3>1. tally.lock[x] > 0
      BY <1>3, HeldLock DEF Kept
    <3> QED
      BY <2>1, <2>3, <3>1 DEF SwapFits
  <2> QED
    BY <2>2, <2>3
<1> QED
  BY <1>1, <1>2, <1>3

\* A row locked by a triple is on its day.
LEMMA LockingOne ==
  ASSUME NEW r, NEW x \in Triples, r \in Locking({r}, x)
  PROVE  Day(r.slot) = x[2] /\ x \in LockKeys(r.lesson, x[2])
<1>1. r \in TripleRows({r}, x[1], x[2], x[3])
  BY DEF Locking
<1>2. Day(r.slot) = x[2]
  BY <1>1 DEF TripleRows
<1>3. x \in LockKeys(r.lesson, Day(r.slot))
  BY <1>1, TripleOfRow
<1> QED
  BY <1>2, <1>3

\* Two single lessons trade slots.
LEMMA SwapShared ==
  ASSUME TypeOK, Parallel(rows), Kept(rows, used, tally),
         NEW l \in Lessons, NEW m \in Lessons, Swap(l, m)
  PROVE  Parallel(rows') /\ Kept(rows', used', tally')
<1>1. PICK a \in RowsOf(rows, l), b \in RowsOf(rows, m) :
        LET a2 == [a EXCEPT !.slot = b.slot]
            b2 == [b EXCEPT !.slot = a.slot]
        IN  /\ SwapFits(a, b)
            /\ SwapFits(b, a)
            /\ rows' = (rows \ {a, b}) \cup {a2, b2}
            /\ used' = Occupy(Vacate(used, {a, b}), {a2, b2})
            /\ tally' =
                 MoreLessons(FewerLessons(
                   MoreLessons(FewerLessons(
                     Recount(tally, {a, b}, {a2, b2}), {{a}}, 1), {{a2}}, 1),
                   {{b}}, 1), {{b2}}, 1)
  BY DEF Swap, Swappable
<1> DEFINE a2 == [a EXCEPT !.slot = b.slot]
           b2 == [b EXCEPT !.slot = a.slot]
           O == {a, b}
           N == {a2, b2}
           K == rows \ O
           b0 == Recount(tally, O, N)
           b1 == FewerLessons(b0, {{a}}, 1)
           d1 == MoreLessons(b1, {{a2}}, 1)
           d2 == FewerLessons(d1, {{b}}, 1)
<1>2. l \notin Grouped /\ m \notin Grouped /\ l # m /\ rows \in SUBSET Row /\ tally \in TallyType
  BY DEF Swap, Searching, Frozen, Swappable, TypeOK
<1>3. /\ a \in Singles(rows) /\ b \in Singles(rows) /\ a \in rows /\ b \in rows
      /\ a \in Row /\ b \in Row /\ a # b /\ ~Clash(a, b)
  <2>1. /\ a \in Singles(rows) /\ b \in Singles(rows) /\ a \in rows /\ b \in rows
        /\ a \in Row /\ b \in Row /\ a # b
    BY <1>2 DEF RowsOf, Singles
  <2> QED
    BY <2>1, SinglesApart
<1>4. a2 \in Row /\ b2 \in Row /\ MovedTo(a2, a, b.slot) /\ MovedTo(b2, b, a.slot)
  BY <1>3 DEF Row, MovedTo
<1>5. SwapFits(a, b) /\ SwapFits(b, a)
  BY <1>1
<1>6. /\ rows' = K \cup N /\ used' = Occupy(Vacate(used, O), N)
      /\ tally' = MoreLessons(d2, {{b2}}, 1)
  BY <1>1
<1> HIDE DEF a2, b2
<1>7. /\ a2.lesson = a.lesson /\ a2.slot = b.slot /\ a2.room = a.room /\ a2.teacher = a.teacher
      /\ b2.lesson = b.lesson /\ b2.slot = a.slot /\ b2.room = b.room /\ b2.teacher = b.teacher
  BY <1>4 DEF MovedTo
<1>8. a.slot # b.slot
  <2>1. <<a.teacher, a.slot>> \in used.teacher
    BY <1>3, FreeKeys DEF Kept
  <2> QED
    BY <1>3, <1>5, <2>1 DEF SwapFits, Clash
<1>9. /\ \A r \in K : ~Clash(r, a2) /\ ~Clash(r, b2)
      /\ \A x \in Triples : a2 \in Locking({a2}, x) /\ Locking(rows, x) # {} =>
           tally.lockRoom[x] = a2.room
      /\ \A x \in Triples : b2 \in Locking({b2}, x) /\ Locking(rows, x) # {} =>
           tally.lockRoom[x] = b2.room
  <2>1. rows \ {b, a} = K
    OBVIOUS
  <2> HIDE DEF K, O
  <2>2. \A r \in rows \ {a, b} : ~Clash(r, a2)
    BY <1>2, <1>3, <1>4, <1>5, SwapSideShared
  <2>3. \A r \in rows \ {b, a} : ~Clash(r, b2)
    BY <1>2, <1>3, <1>4, <1>5, SwapSideShared
  <2>4. rows \ {a, b} = K
    BY DEF K, O
  <2>5. \A x \in Triples : a2 \in Locking({a2}, x) /\ Locking(rows, x) # {} =>
          tally.lockRoom[x] = a2.room
    BY <1>2, <1>3, <1>4, <1>5, SwapSideShared
  <2>6. \A x \in Triples : b2 \in Locking({b2}, x) /\ Locking(rows, x) # {} =>
          tally.lockRoom[x] = b2.room
    BY <1>2, <1>3, <1>4, <1>5, SwapSideShared
  <2> QED
    BY <2>1, <2>2, <2>3, <2>4, <2>5, <2>6
<1>10. Parallel(rows') /\ K \cap N = {}
  <2>1. NoDoubleBooking(N)
    BY <1>7, <1>8 DEF NoDoubleBooking, Clash
  <2>2. Parallel(N)
    BY <2>1, ApartParallel
  <2>3. Parallel(K)
    BY ParallelParts
  <2>4. \A r \in K, q \in N : ~Clash(r, q)
    BY <1>9
  <2> HIDE DEF K, N
  <2> QED
    BY <1>6, <2>2, <2>3, <2>4, ParallelParts
<1>11. \A r \in rows \ O, q \in O : ~Clash(r, q)
  <2>1. O \subseteq Singles(rows)
    BY <1>3
  <2> QED
    BY <2>1, SinglesApart
<1>12. Welcome(K, N, tally)
  <2> SUFFICES ASSUME NEW x \in Triples, NEW r \in Locking(Firm(N), x)
               PROVE  IF Locking(K, x) # {} THEN tally.lockRoom[x] = r.room
                      ELSE \A q \in Locking(N, x) : q.room = r.room
    BY DEF Welcome
  <2>1. r \in Locking(N, x)
    BY DEF Locking, Firm, TripleRows
  <2>2. \A q \in Locking(N, x) : \/ q = a2 /\ a2 \in Locking({a2}, x)
                                 \/ q = b2 /\ b2 \in Locking({b2}, x)
    BY DEF Locking, TripleRows
  <2>3. CASE Locking(rows, x) # {}
    <3>1. \A q \in Locking(N, x) : tally.lockRoom[x] = q.room
      BY <1>9, <2>2, <2>3
    <3> QED
      BY <2>1, <3>1
  <2>4. CASE Locking(rows, x) = {}
    <3>1. Locking(K, x) = {}
      BY <2>4 DEF Locking, TripleRows
    <3>2. \A q \in Locking(N, x) : q = r
      <4>1. a2 \in Locking({a2}, x) => Day(b.slot) = x[2] /\ x \in LockKeys(a.lesson, x[2])
        BY <1>7, LockingOne
      <4>2. b2 \in Locking({b2}, x) => Day(a.slot) = x[2] /\ x \in LockKeys(b.lesson, x[2])
        BY <1>7, LockingOne
      <4>3. ~(a2 \in Locking({a2}, x) /\ b2 \in Locking({b2}, x))
        <5> SUFFICES ASSUME a2 \in Locking({a2}, x), b2 \in Locking({b2}, x) PROVE FALSE
          OBVIOUS
        <5>1. x \in LockKeys(a.lesson, Day(a.slot))
          BY <4>1, <4>2
        <5>2. a \in Locking(rows, x)
          BY <1>3, <5>1, TripleOfRow DEF Locking
        <5> QED
          BY <2>4, <5>2
      <4> QED
        BY <2>1, <2>2, <4>3
    <3> QED
      BY <3>1, <3>2
  <2> QED
    BY <2>3, <2>4
<1>13. O \in SUBSET rows /\ N \in SUBSET Row
       /\ {{a}} \in SUBSET SUBSET Row /\ {{a2}} \in SUBSET SUBSET Row
       /\ {{b}} \in SUBSET SUBSET Row
  BY <1>3, <1>4
<1>14. LocksHold(Singles(rows'), tally.teacherLock)
  <2>1. \A q \in N : \E r \in Singles(rows) : q.lesson = r.lesson /\ q.teacher = r.teacher
    BY <1>3, <1>7
  <2>2. \A q \in Singles(rows') : q \in Singles(rows) \/ q \in N
    BY <1>6 DEF Singles
  <2> QED
    BY <2>1, <2>2 DEF Kept, LocksHold
<1>15. K = rows \ O
  OBVIOUS
<1> HIDE DEF O, N, K
<1>16. /\ used' = Occupy(Nobody, rows') /\ Recounted(rows', b0) /\ b0 \in TallyType
       /\ b0.teacherLock = tally.teacherLock
  <2>1. used = Occupy(Nobody, rows) /\ Recounted(rows, tally)
    BY DEF Kept
  <2>2. O \in SUBSET rows /\ N \in SUBSET Row /\ (rows \ O) \cap N = {}
        /\ Welcome(rows \ O, N, tally)
    BY <1>10, <1>12, <1>13, <1>15
  <2>3. rows' = (rows \ O) \cup N /\ used' = Occupy(Vacate(used, O), N)
    BY <1>6, <1>15
  <2>4. Replacing(rows, used, tally, O, N, K, rows')
    BY <1>2, <1>11, <1>15, <2>1, <2>2, <2>3 DEF Replacing
  <2> QED
    BY <2>3, <2>4, ReplaceShared
<1>17. b1 \in TallyType /\ b1.teacherLock = tally.teacherLock
       /\ SameUse(b0, b1)
  <2> HIDE DEF b0
  <2> QED
    BY <1>13, <1>16, LocksAlone, LessonsType DEF SameUse
<1>18. d1 \in TallyType /\ d1.teacherLock = tally.teacherLock
       /\ SameUse(b0, d1)
  <2> HIDE DEF b0, b1
  <2> QED
    BY <1>13, <1>17, LocksAlone, LessonsType DEF SameUse
<1>19. d2 \in TallyType /\ d2.teacherLock = tally.teacherLock
       /\ SameUse(b0, d2)
  <2> HIDE DEF b0, d1
  <2> QED
    BY <1>13, <1>18, LocksAlone, LessonsType DEF SameUse
<1>20. tally'.teacherLock = tally.teacherLock
       /\ SameUse(b0, tally')
  <2> HIDE DEF b0, d2
  <2> QED
    BY <1>6, <1>19, LocksAlone DEF SameUse
<1>21. Recounted(rows', tally')
  <2> HIDE DEF b0
  <2> QED
    BY <1>16, <1>20, SameRoomLocks
<1> QED
  BY <1>10, <1>14, <1>16, <1>20, <1>21 DEF Kept

\* The rows of a class's subject and day are in the room a repair moves to.
LEMMA RepairMates ==
  ASSUME NEW p \in rows, NEW room, ~WouldSplit(p, room), NEW x \in Triples,
         x \in LockKeys(p.lesson, Day(p.slot)), NEW r \in Locking(rows, x), r # p
  PROVE  r.room = room
<1>1. p \in TripleRows(rows, x[1], x[2], x[3])
  BY TripleOfRow
<1> QED
  BY <1>1 DEF Locking, TripleRows, WouldSplit

\* The free home room is taken.
LEMMA TakeShared ==
  ASSUME TypeOK, Parallel(rows), Kept(rows, used, tally),
         NEW p \in Singles(rows), NEW home \in Rooms, ~WouldSplit(p, home),
         <<home, p.slot>> \notin used.room,
         NEW p2 \in Row, MovedIn(p2, p, home),
         rows' = (rows \ {p}) \cup {p2},
         used' = [used EXCEPT !.room = (@ \ {<<p.room, p.slot>>}) \cup {<<home, p.slot>>}],
         tally' = RelockRoom(tally, p, home)
  PROVE  Parallel(rows') /\ Kept(rows', used', tally')
<1> DEFINE K == rows \ {p}
<1>1. /\ rows \in SUBSET Row /\ tally \in TallyType /\ used \in UsedType /\ p \in rows
      /\ used = Occupy(Nobody, rows) /\ Recounted(rows, tally)
      /\ LocksHold(Singles(rows), tally.teacherLock)
  BY DEF TypeOK, Kept, Singles
<1>2. /\ p2.lesson = p.lesson /\ p2.slot = p.slot /\ p2.room = home /\ p2.teacher = p.teacher
      /\ p \in Row
  BY <1>1 DEF MovedIn
<1>3. \A r \in K : ~Clash(r, p)
  BY SinglesApart
<1>4. ASSUME NEW r \in K PROVE ~Clash(r, p2)
  <2>1. <<r.room, r.slot>> \in used.room
    BY <1>1, FreeKeys
  <2> QED
    BY <1>2, <1>3, <2>1 DEF Clash
<1>5. Parallel(rows') /\ p2 \notin K
  <2>1. Parallel(K)
    BY ParallelParts
  <2>2. Parallel({p2})
    BY ApartParallel DEF NoDoubleBooking
  <2> HIDE DEF K
  <2>3. Parallel(K \cup {p2}) /\ K \cap {p2} = {}
    BY <1>4, <2>1, <2>2, ParallelParts
  <2> QED
    BY <2>3 DEF K
<1>6. used' = Occupy(Nobody, rows')
  <2>1. Vacate(used, {p}) = Occupy(Nobody, K)
    BY <1>1, <1>3, VacateApart
  <2>2. used' = Occupy(Vacate(used, {p}), {p2})
    BY <1>1, TakenKeys
  <2> QED
    BY <2>1, <2>2, OccupyMirror
<1>7. SameCounts(rows, rows')
  BY <1>1, <1>2, <1>5, OneRowMoved
<1>8. /\ tally'.hours = tally.hours /\ tally'.subjectHours = tally.subjectHours
      /\ tally'.lock = tally.lock /\ tally'.teacherLock = tally.teacherLock
      /\ \A x \in Triples : tally'.lockRoom[x] =
           IF x \in LockKeys(p.lesson, Day(p.slot)) /\ tally.lock[x] > 0
           THEN home ELSE tally.lockRoom[x]
  BY <1>1, RelockFields
<1>9. ASSUME NEW x \in Triples, NEW r \in Locking(Firm(rows'), x)
      PROVE  tally'.lockRoom[x] = r.room
  <2>1. r = p2 \/ (r \in Locking(Firm(rows), x) /\ r \in Locking(rows, x) /\ r # p)
    BY DEF Locking, TripleRows, Firm
  <2>2. CASE x \in LockKeys(p.lesson, Day(p.slot))
    <3>1. p \in Locking(rows, x)
      BY <1>1, <2>2, TripleOfRow DEF Locking
    <3>2. tally'.lockRoom[x] = home
      BY <1>1, <1>8, <2>2, <3>1, HeldLock
    <3> QED
      BY <1>1, <1>2, <2>1, <2>2, <3>2, RepairMates
  <2>3. CASE x \notin LockKeys(p.lesson, Day(p.slot))
    <3>1. r # p2
      <4>1. r \in TripleRows({r}, x[1], x[2], x[3])
        BY DEF Locking, TripleRows
      <4> QED
        BY <1>2, <2>3, <4>1, TripleOfRow
    <3> QED
      BY <1>1, <1>8, <2>1, <2>3, <3>1 DEF Recounted
  <2> QED
    BY <2>2, <2>3
<1>10. Recounted(rows', tally')
  <2>1. ASSUME NEW x \in Triples, TripleCount(rows', x) = 0 PROVE tally'.lockRoom[x] = NoRoom
    BY <1>1, <1>7, <1>8, <2>1 DEF Recounted, SameCounts
  <2> QED
    BY <1>1, <1>7, <1>8, <1>9, <2>1 DEF Recounted, SameCounts
<1>11. LocksHold(Singles(rows'), tally'.teacherLock)
  <2>1. \A q \in Singles(rows') : q \in Singles(rows) \/ q = p2
    BY DEF Singles
  <2> QED
    BY <1>1, <1>2, <1>8, <2>1 DEF LocksHold
<1> QED
  BY <1>5, <1>6, <1>10, <1>11 DEF Kept

\* The lesson in the home room takes the old room in exchange.
LEMMA TradeShared ==
  ASSUME TypeOK, Parallel(rows), Kept(rows, used, tally),
         NEW p \in Singles(rows), NEW q \in Singles(rows), p # q, NEW home \in Rooms,
         p.room # home, q.room = home, q.slot = p.slot,
         ~WouldSplit(p, home), ~WouldSplit(q, p.room),
         NEW p2 \in Row, MovedIn(p2, p, home),
         NEW q2 \in Row, MovedIn(q2, q, p.room),
         rows' = (rows \ {p, q}) \cup {p2, q2},
         UNCHANGED used,
         tally' = RelockRoom(RelockRoom(tally, p, home), q, p.room)
  PROVE  Parallel(rows') /\ Kept(rows', used', tally')
<1> DEFINE O == {p, q}
           N == {p2, q2}
           K == rows \ O
<1>1. /\ rows \in SUBSET Row /\ tally \in TallyType /\ used \in UsedType
      /\ used = Occupy(Nobody, rows) /\ Recounted(rows, tally)
      /\ LocksHold(Singles(rows), tally.teacherLock)
      /\ p \in rows /\ q \in rows /\ p \in Row /\ q \in Row
  BY DEF TypeOK, Kept, Singles
<1>2. /\ p2.lesson = p.lesson /\ p2.slot = p.slot /\ p2.room = home /\ p2.teacher = p.teacher
      /\ q2.lesson = q.lesson /\ q2.slot = p.slot /\ q2.room = p.room /\ q2.teacher = q.teacher
  BY DEF MovedIn
<1>3. \A r \in K, s \in O : ~Clash(r, s)
  <2>1. O \subseteq Singles(rows)
    OBVIOUS
  <2> QED
    BY <2>1, SinglesApart
<1>4. /\ ~Clash(p, q) /\ p.teacher # q.teacher
      /\ ClassesOf[p.lesson] \cap ClassesOf[q.lesson] = {}
  <2>1. ~Clash(p, q)
    BY <1>1, SinglesApart
  <2> QED
    BY <2>1 DEF Clash
<1>5. \A r \in K, s \in N : ~Clash(r, s)
  BY <1>2, <1>3 DEF Clash
<1>6. Parallel(rows') /\ K \cap N = {}
  <2>1. NoDoubleBooking(N)
    BY <1>2, <1>4 DEF NoDoubleBooking, Clash
  <2>2. Parallel(N)
    BY <2>1, ApartParallel
  <2>3. Parallel(K)
    BY ParallelParts
  <2>4. rows' = K \cup N
    OBVIOUS
  <2> HIDE DEF K, N
  <2> QED
    BY <1>5, <2>2, <2>3, <2>4, ParallelParts
<1>7. used' = Occupy(Nobody, rows')
  <2>1. Vacate(used, O) = Occupy(Nobody, K)
    BY <1>1, <1>3, VacateApart
  <2>2. used = Occupy(Vacate(used, O), N)
    BY <1>1, TradedKeys
  <2> QED
    BY <2>1, <2>2, OccupyMirror
<1>8. SameCounts(rows, rows')
  <2>1. p2 \notin rows \ {p} /\ q2 \notin rows \ {q}
    BY <1>2, <1>4, <1>6 DEF Clash
  <2>2. p2 # q2 /\ p2 # q
    BY <1>2, <1>4
  <2> QED
    BY <1>1, <2>1, <2>2, TwoRowsMoved
<1>9. /\ tally'.hours = tally.hours /\ tally'.subjectHours = tally.subjectHours
      /\ tally'.lock = tally.lock /\ tally'.teacherLock = tally.teacherLock
      /\ \A x \in Triples : tally'.lockRoom[x] =
           IF x \in LockKeys(q.lesson, Day(q.slot)) /\ tally.lock[x] > 0 THEN p.room
           ELSE IF x \in LockKeys(p.lesson, Day(p.slot)) /\ tally.lock[x] > 0 THEN home
           ELSE tally.lockRoom[x]
  BY <1>1, TradedLocks
<1>10. ASSUME NEW x \in Triples, NEW r \in Locking(Firm(rows'), x)
       PROVE  tally'.lockRoom[x] = r.room
  <2> DEFINE atP == x \in LockKeys(p.lesson, Day(p.slot))
             atQ == x \in LockKeys(q.lesson, Day(q.slot))
  <2>1. \/ r = p2 \/ r = q2
        \/ r \in Locking(Firm(rows), x) /\ r \in Locking(rows, x) /\ r # p /\ r # q
    BY DEF Locking, TripleRows, Firm
  <2>2. (r = p2 => atP) /\ (r = q2 => atQ)
    <3>1. r \in TripleRows({r}, x[1], x[2], x[3])
      BY DEF Locking, TripleRows
    <3> QED
      BY <1>2, <3>1, TripleOfRow
  <2>3. ~(atP /\ atQ)
    <3>1. \A l, d : x \in LockKeys(l, d) => x[1] \in ClassesOf[l]
      BY DEF LockKeys
    <3> QED
      BY <1>4, <3>1
  <2>4. atP \/ atQ => tally.lock[x] > 0
    <3>1. atP \/ atQ => Locking(rows, x) # {}
      BY <1>1, TripleOfRow DEF Locking
    <3> QED
      BY <1>1, <3>1, HeldLock
  <2>5. CASE atQ
    <3>1. r # p2 /\ tally'.lockRoom[x] = p.room
      BY <1>9, <2>2, <2>3, <2>4, <2>5
    <3> QED
      BY <1>1, <1>2, <2>1, <2>5, <3>1, RepairMates
  <2>6. CASE atP
    <3>1. r # q2 /\ tally'.lockRoom[x] = home
      BY <1>9, <2>2, <2>3, <2>4, <2>6
    <3> QED
      BY <1>1, <1>2, <2>1, <2>6, <3>1, RepairMates
  <2>7. CASE ~atP /\ ~atQ
    BY <1>1, <1>9, <2>1, <2>2, <2>7 DEF Recounted
  <2> QED
    BY <2>5, <2>6, <2>7
<1>11. Recounted(rows', tally')
  <2>1. ASSUME NEW x \in Triples, TripleCount(rows', x) = 0 PROVE tally'.lockRoom[x] = NoRoom
    BY <1>1, <1>8, <1>9, <2>1 DEF Recounted, SameCounts
  <2> QED
    BY <1>1, <1>8, <1>9, <1>10, <2>1 DEF Recounted, SameCounts
<1>12. LocksHold(Singles(rows'), tally'.teacherLock)
  <2>1. \A r \in Singles(rows') : r \in Singles(rows) \/ r \in {p2, q2}
    BY DEF Singles
  <2> QED
    BY <1>1, <1>2, <1>9, <2>1 DEF LocksHold
<1> QED
  BY <1>6, <1>7, <1>11, <1>12 DEF Kept

\* A row moves to its home room, alone or in exchange.
LEMMA RepairShared ==
  ASSUME TypeOK, Parallel(rows), Kept(rows, used, tally), NEW l \in Lessons, HomeRoomRepair(l)
  PROVE  Parallel(rows') /\ Kept(rows', used', tally')
<1>picked. PICK p \in RowsOf(rows, l), home \in Rooms : Rehousing(l, p, home)
  BY RepairRehouses
<1>1. /\ p.room # home
      /\ ~WouldSplit(p, home)
      /\ \/ /\ <<home, p.slot>> \notin used.room
            /\ rows' = (rows \ {p}) \cup {[p EXCEPT !.room = home]}
            /\ used' = [used EXCEPT !.room =
                           (@ \ {<<p.room, p.slot>>}) \cup {<<home, p.slot>>}]
            /\ tally' = RelockRoom(tally, p, home)
         \/ \E q \in rows \ {p} :
            /\ q.room = home /\ q.slot = p.slot
            /\ q.lesson \notin Grouped
            /\ ~WouldSplit(q, p.room)
            /\ rows' = (rows \ {p, q}) \cup {[p EXCEPT !.room = home],
                                            [q EXCEPT !.room = p.room]}
            /\ tally' = RelockRoom(RelockRoom(tally, p, home), q, p.room)
            /\ UNCHANGED used
  BY ONLY <1>picked DEF Rehousing, Frozen
<1>2. l \notin Grouped /\ rows \in SUBSET Row
  BY DEF HomeRoomRepair, Searching, Frozen, TypeOK
<1>3. p \in rows /\ p \in Row /\ p \in Singles(rows)
  BY <1>2 DEF RowsOf, Singles
<1> DEFINE p2 == [p EXCEPT !.room = home]
<1>4. p2 \in Row /\ MovedIn(p2, p, home)
  BY <1>3 DEF Row, MovedIn
<1> HIDE DEF p2
<1>5. CASE /\ <<home, p.slot>> \notin used.room
           /\ rows' = (rows \ {p}) \cup {[p EXCEPT !.room = home]}
           /\ used' = [used EXCEPT !.room =
                          (@ \ {<<p.room, p.slot>>}) \cup {<<home, p.slot>>}]
           /\ tally' = RelockRoom(tally, p, home)
  <2>1. rows' = (rows \ {p}) \cup {p2}
    BY <1>5 DEF p2
  <2> QED
    BY <1>1, <1>3, <1>4, <1>5, <2>1, TakeShared
<1>6. CASE \E q \in rows \ {p} :
              /\ q.room = home /\ q.slot = p.slot
              /\ q.lesson \notin Grouped
              /\ ~WouldSplit(q, p.room)
              /\ rows' = (rows \ {p, q}) \cup {[p EXCEPT !.room = home],
                                              [q EXCEPT !.room = p.room]}
              /\ tally' = RelockRoom(RelockRoom(tally, p, home), q, p.room)
              /\ UNCHANGED used
  <2>1. PICK q \in rows \ {p} :
              /\ q.room = home /\ q.slot = p.slot
              /\ q.lesson \notin Grouped
              /\ ~WouldSplit(q, p.room)
              /\ rows' = (rows \ {p, q}) \cup {[p EXCEPT !.room = home],
                                              [q EXCEPT !.room = p.room]}
              /\ tally' = RelockRoom(RelockRoom(tally, p, home), q, p.room)
              /\ UNCHANGED used
    BY <1>6
  <2> DEFINE q2 == [q EXCEPT !.room = p.room]
  <2>2. q \in Singles(rows) /\ q \in Row /\ p # q
    BY <1>2, <2>1 DEF Singles
  <2>3. q2 \in Row /\ MovedIn(q2, q, p.room)
    BY <1>3, <2>2 DEF Row, MovedIn
  <2>4. rows' = (rows \ {p, q}) \cup {p2, q2}
    BY <2>1 DEF p2
  <2> HIDE DEF q2
  <2> QED
    BY <1>1, <1>3, <1>4, <2>1, <2>2, <2>3, <2>4, TradeShared
<1> QED
  BY <1>1, <1>5, <1>6
-----------------------------------------------------------------------------
(* Every step keeps it so.                                                  *)

\* What an undo relies on: the rows that are put back fit in with those that
\* stayed, and the locks of the rows that stayed have not moved.
Restorable ==
    LET placed == UNION attempt.added
        kept == rows \ placed
    IN  /\ placed \subseteq rows
        /\ \A r \in kept, q \in placed : ~Clash(r, q)
        /\ kept \cap attempt.ruined = {}
        /\ Parallel(kept \cup attempt.ruined)
        /\ LocksHold(Singles(kept \cup attempt.ruined), attempt.locks)
        /\ Welcome(kept, attempt.ruined, tally)

SharedInv ==
    /\ Parallel(rows) /\ Parallel(best)
    /\ phase # "done" => Kept(rows, used, tally)
    /\ phase \in {"rescue", "recreate"} => Restorable

\* The rows of a group clash with each other only.
LEMMA GroupApart ==
  ASSUME NEW R, Parallel(R), NEW g \in Groups
  PROVE  \A r \in R \ RowsOfGroup(R, g), q \in RowsOfGroup(R, g) : ~Clash(r, q)
<1> SUFFICES ASSUME NEW r \in R \ RowsOfGroup(R, g), NEW q \in RowsOfGroup(R, g), Clash(r, q)
             PROVE  FALSE
  OBVIOUS
<1>1. q \in R /\ q.lesson \in g /\ r.lesson \notin g /\ r # q
  BY DEF RowsOfGroup, RowsOf
<1>2. PICK h \in Groups : {r.lesson, q.lesson} \subseteq h
  BY <1>1 DEF Parallel
<1>3. h = g
  BY <1>1, <1>2, ProblemAssumption DEF ValidGroups
<1> QED
  BY <1>1, <1>2, <1>3

\* A move of the local search.
LEMMA MovedShared ==
  ASSUME SharedInv, Parallel(rows'), Kept(rows', used', tally'), phase' \notin {"rescue", "recreate"},
         best' = best \/ best' = rows'
  PROVE  SharedInv'
BY DEF SharedInv

\* Rows that are taken out can be put back.
LEMMA RuinedShared ==
  ASSUME TypeOK, SharedInv, phase # "done", NEW R \in SUBSET rows, TakeOut(R),
         \A r \in rows \ R, q \in R : ~Clash(r, q),
         Ungrouped(R) \/ \E g \in Groups : \A r \in R : r.lesson \in g,
         attempt'.ruined = R, attempt'.added = {}, attempt'.locks = tally.teacherLock,
         best' = best
  PROVE  SharedInv'
<1>1. Parallel(rows) /\ Parallel(best) /\ Kept(rows, used, tally)
  BY DEF SharedInv
<1>2. /\ Parallel(rows') /\ Kept(rows', used', tally') /\ SameLocks(rows', tally, tally')
      /\ rows' = rows \ R
  BY <1>1, TakeOutShared
<1>3. UNION attempt'.added = {} /\ rows' \ UNION attempt'.added = rows'
      /\ rows' \cup attempt'.ruined = rows
  BY <1>2
<1>4. Welcome(rows', R, tally')
  <2> SUFFICES ASSUME NEW x \in Triples, NEW r \in Locking(Firm(R), x)
               PROVE  IF Locking(rows', x) # {} THEN tally'.lockRoom[x] = r.room
                      ELSE \A q \in Locking(R, x) : q.room = r.room
    BY DEF Welcome
  <2>1. \A q \in Locking(Firm(R), x) : tally.lockRoom[x] = q.room
    BY <1>1 DEF Kept, Recounted, Locking, TripleRows, Firm
  <2>2. Locking(rows', x) # {} => tally'.lockRoom[x] = tally.lockRoom[x]
    BY <1>2 DEF SameLocks
  <2>3. ASSUME NEW q \in Locking(R, x) PROVE q \in Locking(Firm(R), x)
    <3>1. CASE Ungrouped(R)
      <4>1. q \in Locking(Singles(R), x)
        BY <3>1 DEF Ungrouped, Locking, TripleRows, Singles
      <4> QED
        BY <4>1, SinglesFirm
    <3>2. CASE \E g \in Groups : \A a \in R : a.lesson \in g
      <4>1. PICK g \in Groups : \A a \in R : a.lesson \in g
        BY <3>2
      <4>2. /\ q \in R /\ r \in R /\ SoleOfSubject(r.lesson)
            /\ SubjectOf[q.lesson] = SubjectOf[r.lesson]
            /\ x[1] \in ClassesOf[q.lesson] \cap ClassesOf[r.lesson]
        BY DEF Locking, TripleRows, Firm
      <4>3. q.lesson = r.lesson
        BY <4>1, <4>2 DEF SoleOfSubject
      <4> QED
        BY <4>2, <4>3 DEF Locking, TripleRows, Firm
    <3> QED
      BY <3>1, <3>2
  <2>4. r \in Locking(Firm(R), x)
    OBVIOUS
  <2> QED
    BY <2>1, <2>2, <2>3, <2>4
<1>5. Restorable'
  <2>1. LocksHold(Singles(rows), tally.teacherLock)
    BY <1>1 DEF Kept
  <2> QED
    BY <1>1, <1>2, <1>3, <1>4, <2>1 DEF Restorable
<1> QED
  BY <1>1, <1>2, <1>5 DEF SharedInv

\* Rows placed again are no hindrance.
LEMMA RebuiltShared ==
  ASSUME SharedInv, phase \in {"rescue", "recreate"}, NEW N,
         Parallel(rows'), Kept(rows', used', tally'), SameLocks(rows, tally, tally'),
         rows' = rows \cup N, rows \cap N = {}, \A r \in rows, q \in N : ~Clash(r, q),
         attempt'.added = attempt.added \cup {N}, attempt'.ruined = attempt.ruined,
         attempt'.locks = attempt.locks, best' = best
  PROVE  SharedInv'
<1> DEFINE placed == UNION attempt.added
           kept == rows \ placed
<1>1. /\ placed \subseteq rows
      /\ \A r \in kept, q \in placed : ~Clash(r, q)
      /\ Welcome(kept, attempt.ruined, tally)
      /\ kept \cap attempt.ruined = {}
      /\ Parallel(kept \cup attempt.ruined)
      /\ LocksHold(Singles(kept \cup attempt.ruined), attempt.locks)
  BY DEF SharedInv, Restorable
<1>2. UNION attempt'.added = placed \cup N /\ rows' \ (placed \cup N) = kept
      /\ placed \cup N \subseteq rows'
  BY <1>1
<1>3. Welcome(kept, attempt.ruined, tally')
  <2>1. \A x \in Triples : Locking(kept, x) # {} => Locking(rows, x) # {}
    BY DEF Locking, TripleRows
  <2>2. \A x \in Triples : Locking(kept, x) # {} => tally'.lockRoom[x] = tally.lockRoom[x]
    BY <2>1 DEF SameLocks
  <2> HIDE DEF kept
  <2> QED
    BY <1>1, <2>2 DEF Welcome
<1>4. \A r \in kept, q \in placed \cup N : ~Clash(r, q)
  BY <1>1
<1>5. Restorable'
  <2> HIDE DEF placed, kept
  <2> QED
    BY <1>1, <1>2, <1>3, <1>4 DEF Restorable
<1> QED
  BY <1>5 DEF SharedInv

\* The counters of an undo: its own count of lessons, and the old teacher locks.
Replayed(b, H, Bs, L) ==
    [MoreLessons(FewerLessons(b, H, 1), Bs, 1) EXCEPT !.teacherLock = L]

LEMMA ReplayedLocks ==
  ASSUME NEW b \in TallyType, NEW H \in SUBSET SUBSET Row, NEW Bs \in SUBSET SUBSET Row, NEW L
  PROVE  /\ SameUse(b, Replayed(b, H, Bs, L))
         /\ Replayed(b, H, Bs, L).teacherLock = L
<1> DEFINE b1 == FewerLessons(b, H, 1)
           b2 == MoreLessons(b1, Bs, 1)
<1>1. b1 \in TallyType /\ SameUse(b, b1)
  BY LessonsType, LocksAlone DEF SameUse
<1>2. b2 \in TallyType /\ SameUse(b, b2)
  <2> HIDE DEF b1
  <2> QED
    BY <1>1, LessonsType, LocksAlone DEF SameUse
<1>3. Replayed(b, H, Bs, L) = [b2 EXCEPT !.teacherLock = L]
  BY DEF Replayed
<1> HIDE DEF b2
<1> QED
  BY <1>2, <1>3 DEF TallyType, SameUse

\* The rows of an attempt go, those it took out come back.
PutBack ==
    LET R == UNION attempt.added
    IN  /\ rows' = (rows \ R) \cup attempt.ruined
        /\ used' = Occupy(Vacate(used, R), attempt.ruined)
        /\ tally' = Replayed(Recount(tally, R, attempt.ruined), attempt.heads,
                             BlocksOf(attempt.ruined), attempt.locks)

\* An attempt is undone.
LEMMA UndoneShared ==
  ASSUME TypeOK, SharedInv, phase \in {"rescue", "recreate"}, PutBack
  PROVE  Parallel(rows') /\ Kept(rows', used', tally')
<1> DEFINE R == UNION attempt.added
           N == attempt.ruined
           K == rows \ R
           b0 == Recount(tally, R, N)
<1>1. /\ rows \in SUBSET Row /\ tally \in TallyType /\ N \in SUBSET Row
      /\ attempt.heads \in SUBSET SUBSET Row /\ Kept(rows, used, tally)
  BY DEF TypeOK, AttemptType, SharedInv
<1>2. /\ R \in SUBSET rows /\ \A r \in K, q \in R : ~Clash(r, q)
      /\ K \cap N = {} /\ Parallel(K \cup N)
      /\ LocksHold(Singles(K \cup N), attempt.locks)
      /\ Welcome(K, N, tally)
  BY DEF SharedInv, Restorable
<1>3. BlocksOf(N) \in SUBSET SUBSET Row
  BY <1>1 DEF BlocksOf, RowsOfOn
<1>4. /\ rows' = K \cup N /\ used' = Occupy(Vacate(used, R), N)
      /\ tally' = Replayed(b0, attempt.heads, BlocksOf(N), attempt.locks)
  BY DEF PutBack
<1>5. b0 = Recount(tally, R, N) /\ K = rows \ R
  OBVIOUS
<1> HIDE DEF R, N, K, b0
<1>6. used = Occupy(Nobody, rows) /\ Recounted(rows, tally)
  BY <1>1 DEF Kept
<1>7. Replacing(rows, used, tally, R, N, K, rows')
  BY <1>1, <1>2, <1>4, <1>5, <1>6 DEF Replacing
<1>8. /\ Occupy(Vacate(used, R), N) = Occupy(Nobody, rows')
      /\ Recounted(rows', b0) /\ b0 \in TallyType
  BY <1>5, <1>7, ReplaceShared
<1>9. /\ SameUse(b0, tally')
      /\ tally'.teacherLock = attempt.locks
  BY <1>1, <1>3, <1>4, <1>8, ReplayedLocks
<1>10. Recounted(rows', tally')
  BY <1>8, <1>9, SameRoomLocks
<1> QED
  BY <1>2, <1>4, <1>8, <1>9, <1>10 DEF Kept
\* The greedy pass.
LEMMA FfdShared ==
  ASSUME TypeOK, SharedInv, NEW l \in Lessons, FfdPlace(l) \/ FfdMiss(l)
  PROVE  SharedInv'
<1>1. phase = "ffd" /\ phase' = "ffd" /\ best' = best
  BY DEF FfdPlace, FfdMiss, FfdTurn
<1>2. Parallel(rows) /\ Kept(rows, used, tally)
  BY <1>1 DEF SharedInv
<1>3. CASE FfdPlace(l)
  <2>1. PICK s \in Slots, room \in Rooms, t \in Teachers : Place(l, s, room, t)
    BY <1>3 DEF FfdPlace
  <2>2. Parallel(rows') /\ Kept(rows', used', tally')
    BY <1>2, <2>1, PlaceShared
  <2> QED
    BY <1>1, <2>2, MovedShared
<1>4. CASE FfdMiss(l)
  <2>1. Parallel(rows') /\ Kept(rows', used', tally')
    BY <1>2, <1>4 DEF FfdMiss
  <2> QED
    BY <1>1, <2>1, MovedShared
<1> QED
  BY <1>3, <1>4

\* The local search.
LEMMA SearchShared ==
  ASSUME TypeOK, SharedInv, NEW l \in Lessons,
         Change(l) \/ HomeRoomRepair(l) \/ \E m \in Lessons : Swap(l, m)
  PROVE  SharedInv'
<1>1. phase = "search" /\ phase' = "search" /\ (best' = best \/ best' = rows')
  BY DEF Change, HomeRoomRepair, Swap, Searching, EndIteration
<1>2. Parallel(rows) /\ Kept(rows, used, tally)
  BY <1>1 DEF SharedInv
<1>3. Parallel(rows') /\ Kept(rows', used', tally')
  BY <1>2, ChangeShared, RepairShared, SwapShared
<1> QED
  BY <1>1, <1>3, MovedShared

\* What is taken out of lessons in no group clashes with nothing.
LEMMA UngroupedApart ==
  ASSUME NEW R, Parallel(R), NEW S \in SUBSET R, Ungrouped(S)
  PROVE  \A r \in R \ S, q \in S : ~Clash(r, q)
<1>1. S \subseteq Singles(R)
  BY DEF Ungrouped, Singles
<1> QED
  BY <1>1, SinglesApart

\* A rescue or a ruin-and-recreate starts.
LEMMA StartShared ==
  ASSUME TypeOK, SharedInv, TurnsInv', target' = {}, Ruin \/ \E l \in Lessons : Rescue(l)
  PROVE  SharedInv'
<1>1. PICK R : Uproots(R)
  BY StartUproots
<1>2. R \in SUBSET rows
  BY ONLY <1>1 DEF Uproots
<1>3. /\ TakeOut(R)
      /\ attempt'.ruined = R /\ attempt'.added = {} /\ attempt'.locks = tally.teacherLock
  BY ONLY <1>1 DEF Uproots
<1>4. phase # "done" /\ best' = best
  BY StartUproots
<1>5. Ungrouped(R)
  BY <1>3 DEF TurnsInv
<1>6. \A a \in rows \ R, q \in R : ~Clash(a, q)
  BY <1>2, <1>5, UngroupedApart DEF SharedInv
<1> QED
  BY <1>2, <1>3, <1>4, <1>5, <1>6, RuinedShared

\* A group is taken out with all its rows.
LEMMA GroupRescueShared ==
  ASSUME TypeOK, SharedInv, NEW g \in Groups, GroupRescue(g)
  PROVE  SharedInv'
<1> DEFINE R == RowsOfGroup(rows, g)
<1>1. /\ TakeOut(R)
      /\ attempt'.ruined = R /\ attempt'.added = {} /\ attempt'.locks = tally.teacherLock
  BY DEF GroupRescue, NoAttempt
<1>2. R \in SUBSET rows /\ \A r \in R : r.lesson \in g
  BY DEF RowsOfGroup, RowsOf
<1>3. phase = "search" /\ best' = best
  BY DEF GroupRescue
<1>4. \A r \in rows \ R, q \in R : ~Clash(r, q)
  BY GroupApart DEF SharedInv
<1> HIDE DEF R
<1> QED
  BY <1>1, <1>2, <1>3, <1>4, RuinedShared

\* Rows are placed again.
LEMMA RebuildShared ==
  ASSUME TypeOK, SharedInv, NEW l \in Lessons, RebuildPlace(l)
  PROVE  SharedInv'
<1>1. PICK s \in Slots, room \in Rooms, t \in Teachers :
          /\ Place(l, s, room, t)
          /\ attempt' = [attempt EXCEPT
               !.todo = Tail(@),
               !.added = @ \cup {Block(l, s, room, t)},
               !.heads = IF HeadsGroup(l) THEN @ \cup {Block(l, s, room, t)} ELSE @,
               !.failed = @ \/ Collides(l, Day(s))]
  BY DEF RebuildPlace
<1> DEFINE B == Block(l, s, room, t)
<1>2. phase \in {"rescue", "recreate"} /\ best' = best
  BY DEF RebuildPlace, Rebuilding
<1>3. /\ attempt'.added = attempt.added \cup {B} /\ attempt'.ruined = attempt.ruined
      /\ attempt'.locks = attempt.locks
  BY <1>1 DEF TypeOK, AttemptType
<1>4. Parallel(rows) /\ Kept(rows, used, tally)
  BY <1>2 DEF SharedInv
<1>5. /\ Parallel(rows') /\ Kept(rows', used', tally') /\ SameLocks(rows, tally, tally')
      /\ rows' = rows \cup B /\ rows \cap B = {}
      /\ \A r \in rows, q \in B : ~Clash(r, q)
  BY <1>1, <1>4, PlaceShared
<1> HIDE DEF B
<1> QED
  BY <1>2, <1>3, <1>5, RebuiltShared

LEMMA GroupRebuildShared ==
  ASSUME TypeOK, TurnsInv, SharedInv, NEW g \in Groups, GroupRebuild(g)
  PROVE  SharedInv'
<1> DEFINE N == rows' \ rows
<1>1. phase = "rescue" /\ best' = best /\ PlaceSomewhere(g)
  BY DEF GroupRebuild, TurnsInv
<1>2. /\ attempt'.added = attempt.added \cup {N} /\ attempt'.ruined = attempt.ruined
      /\ attempt'.locks = attempt.locks
  BY DEF GroupRebuild, TypeOK, AttemptType
<1>3. Parallel(rows) /\ Kept(rows, used, tally)
  BY <1>1 DEF SharedInv
<1>4. /\ Parallel(rows') /\ Kept(rows', used', tally') /\ SameLocks(rows, tally, tally')
      /\ rows \subseteq rows' /\ \A r \in rows, q \in N : ~Clash(r, q)
  BY <1>1, <1>3, GroupPlaceShared
<1>5. rows' = rows \cup N /\ rows \cap N = {}
  BY <1>4
<1> HIDE DEF N
<1> QED
  BY <1>1, <1>2, <1>4, <1>5, RebuiltShared

\* A turn without a place.
LEMMA RebuildMissShared ==
  ASSUME TypeOK, SharedInv, NEW l \in Lessons, RebuildMiss(l)
  PROVE  SharedInv'
<1>1. /\ attempt'.ruined = attempt.ruined /\ attempt'.added = attempt.added
      /\ attempt'.locks = attempt.locks
  BY DEF RebuildMiss, TypeOK, AttemptType
<1>2. UNCHANGED <<phase, rows, used, tally, best>>
  BY DEF RebuildMiss
<1>3. Restorable => Restorable'
  BY <1>1, <1>2 DEF Restorable
<1> QED
  BY <1>2, <1>3 DEF SharedInv

\* An attempt that ends.
LEMMA KeepShared ==
  ASSUME TypeOK, SharedInv,
         Keep \/ Undo \/ \E g \in Groups : TurnsInv /\ (GroupKeep(g) \/ GroupUndo(g))
  PROVE  SharedInv'
<1>1. /\ phase \in {"rescue", "recreate"} /\ phase' \in {"search", "ruin"}
      /\ best' = best \/ best' = rows'
  BY DEF Keep, Undo, Rebuilt, GroupKeep, GroupUndo, TurnsInv, EndIteration
<1>2. CASE UNCHANGED <<rows, used, tally>>
  BY <1>1, <1>2, MovedShared DEF SharedInv
<1>3. CASE PutBack
  BY <1>1, <1>3, UndoneShared, MovedShared
<1>4. UNCHANGED <<rows, used, tally>> \/ PutBack
  BY DEF Keep, Undo, GroupKeep, GroupUndo, PutBack, Replayed
<1> QED
  BY <1>2, <1>3, <1>4

\* A group in the greedy pass.
LEMMA GroupPlacedShared ==
  ASSUME TypeOK, SharedInv, NEW g \in Groups, GroupPlace(g) \/ GroupMiss(g)
  PROVE  SharedInv'
<1>1. phase = "ffd" /\ phase' = "ffd" /\ best' = best
  BY DEF GroupPlace, GroupMiss, GroupTurn
<1>2. Parallel(rows) /\ Kept(rows, used, tally)
  BY <1>1 DEF SharedInv
<1>3. Parallel(rows') /\ Kept(rows', used', tally')
  BY <1>2, GroupPlaceShared DEF GroupPlace, GroupMiss
<1> QED
  BY <1>1, <1>3, MovedShared

LEMMA SharedInit == GroupInit => SharedInv
<1> SUFFICES ASSUME GroupInit PROVE SharedInv
  OBVIOUS
<1>1. Init /\ phase = "ffd" /\ best = {}
  BY DEF GroupInit, Init
<1>2. Orderly(rows) /\ Mirrored(rows, used, tally)
  BY <1>1, InitInv DEF Inv
<1>3. Parallel(rows) /\ Parallel(best)
  BY <1>1, <1>2, ApartParallel DEF Orderly, Parallel
<1>4. Recounted(rows, tally)
  BY <1>2 DEF Mirrored, Counted, Recounted, Locking, Firm, TripleRows
<1>5. LocksHold(Singles(rows), tally.teacherLock)
  BY <1>2 DEF Mirrored, LocksHold, Singles
<1> QED
  BY <1>1, <1>2, <1>3, <1>4, <1>5 DEF SharedInv, Kept, Mirrored

\* Every step keeps what the groups share.
LEMMA SharedNext ==
  GroupTypeOK /\ TurnsInv /\ SharedInv /\ [GroupNext]_<<vars, groupVars>> => SharedInv'
<1> SUFFICES ASSUME GroupTypeOK, TurnsInv, SharedInv, [GroupNext]_<<vars, groupVars>>
             PROVE  SharedInv'
  OBVIOUS
<1>1. TypeOK /\ TurnsInv'
  BY TurnsNext DEF GroupTypeOK
<1>2. CASE UNCHANGED <<vars, groupVars>>
  BY <1>2 DEF vars, SharedInv, Restorable
<1>3. CASE SingleStep
  <2>1. target' = target /\ UNCHANGED groupVars
    BY <1>3 DEF SingleStep, groupVars
  <2>2. CASE \E l \in Lessons : FfdPlace(l) \/ FfdMiss(l)
    BY <1>1, <2>2, FfdShared
  <2>3. CASE \E l \in Lessons : Change(l) \/ HomeRoomRepair(l) \/ \E m \in Lessons : Swap(l, m)
    BY <1>1, <2>3, SearchShared
  <2>4. CASE Ruin \/ \E l \in Lessons : Rescue(l)
    <3>1. phase # "rescue"
      BY <2>4, StartUproots
    <3>2. target' = {}
      BY <2>1, <3>1, NoTarget
    <3> QED
      BY <1>1, <2>4, <3>2, StartShared
  <2>5. CASE \E l \in Lessons : RebuildPlace(l) \/ RebuildMiss(l)
    BY <1>1, <2>5, RebuildShared, RebuildMissShared
  <2>6. CASE Keep \/ Undo
    BY <1>1, <2>6, KeepShared
  <2>7. CASE FfdEnd \/ NothingToRuin
    <3>1. /\ phase # "done" /\ phase' = "search" /\ UNCHANGED <<rows, used, tally>>
          /\ best' = best \/ best' = rows'
      BY <2>7 DEF FfdEnd, NothingToRuin, EndIteration
    <3> QED
      BY <3>1, MovedShared DEF SharedInv
  <2>8. CASE Finish
    BY <2>8 DEF Finish, SharedInv
  <2> QED
    BY <1>3, <2>2, <2>3, <2>4, <2>5, <2>6, <2>7, <2>8 DEF SingleStep
<1>4. ASSUME NEW g \in Groups,
             \/ GroupPlace(g) \/ GroupMiss(g) \/ GroupRescue(g) \/ GroupRebuild(g)
             \/ GroupGiveUp(g) \/ GroupKeep(g) \/ GroupUndo(g)
      PROVE  SharedInv'
  <2>1. CASE GroupGiveUp(g)
    BY <2>1 DEF GroupGiveUp, vars, SharedInv, Restorable
  <2> QED
    BY <1>1, <1>4, <2>1, GroupPlacedShared, GroupRescueShared, GroupRebuildShared, KeepShared
<1> QED
  BY <1>2, <1>3, <1>4 DEF GroupNext

\* A class has two lessons in one slot only when they are parallel lessons of
\* one group, and a teacher or a room never has: at every moment of a run with
\* groups, for pins that pass the validators.  A move looks at the class, the
\* teacher and the room of the one lesson it moves; the lessons of a group,
\* which share their classes' slots, are never moved by one.
THEOREM OnlyGroupsShare == GroupSpec => []OnlyGroupsShareSlots
<1>1. SharedInv => OnlyGroupsShareSlots
  BY DEF SharedInv, Parallel, OnlyGroupsShareSlots
<1> QED
  BY <1>1, SharedInit, SharedNext, TurnsInit, TurnsNext, GroupTypeCorrect, GroupLoose, PTL

\* The busy teachers, classes and rooms that every move trusts are exactly
\* those of the schedule, also while lessons share a class's slot: a vacated
\* slot is never one that another lesson of the group still needs.
THEOREM GroupUsedExact == GroupSpec => []UsedMirrorsRows
<1>1. SharedInv => UsedMirrorsRows
  BY DEF SharedInv, Kept, UsedMirrorsRows
<1> QED
  BY <1>1, SharedInit, SharedNext, TurnsInit, TurnsNext, GroupTypeCorrect, GroupLoose, PTL

\* Half-way through a ruin, a group's rescue or an undo, a recount of the rows
\* gives the counted hours, the hours per class, day and subject, and the room
\* locks.  Lessons of a group that give a class the same subject would need two
\* rooms on one lock, which has but one: excluded here, and by no check of
\* validate_structural.
THEOREM GroupCountersExact ==
  ASSUME \A l \in Lessons : SoleOfSubject(l)
  PROVE  GroupSpec => []CountersMirrorRows
<1>1. GroupTypeOK /\ SharedInv => CountersMirrorRows
  <2> SUFFICES ASSUME GroupTypeOK, SharedInv, phase # "done"
               PROVE  /\ \A t \in Teachers :
                           tally.hours[t] = Cardinality({r \in rows : r.teacher = t})
                      /\ \A x \in Triples :
                           /\ tally.subjectHours[x] = TripleCount(rows, x)
                           /\ tally.lock[x] = TripleCount(rows, x)
                           /\ {tally.lockRoom[x]} =
                                IF TripleCount(rows, x) = 0 THEN {NoRoom}
                                ELSE {r.room : r \in TripleRows(rows, x[1], x[2], x[3])}
    BY DEF CountersMirrorRows
  <2>1. rows \in SUBSET Row /\ Recounted(rows, tally)
    BY DEF GroupTypeOK, TypeOK, SharedInv, Kept
  <2>2. Firm(rows) = rows
    BY <2>1 DEF Firm, Row
  <2>3. ASSUME NEW x \in Triples
        PROVE  {tally.lockRoom[x]} =
                 IF TripleCount(rows, x) = 0 THEN {NoRoom}
                 ELSE {r.room : r \in TripleRows(rows, x[1], x[2], x[3])}
    <3>1. TripleCount(rows, x) = 0 => tally.lockRoom[x] = NoRoom
      BY <2>1 DEF Recounted
    <3>2. \A r \in TripleRows(rows, x[1], x[2], x[3]) : tally.lockRoom[x] = r.room
      BY <2>1, <2>2 DEF Recounted, Locking
    <3>3. TripleCount(rows, x) # 0 => TripleRows(rows, x[1], x[2], x[3]) # {}
      BY <2>1, EmptyTriple
    <3> QED
      BY <3>1, <3>2, <3>3
  <2> QED
    BY <2>1, <2>3 DEF Recounted
<1> QED
  BY <1>1, SharedInit, SharedNext, TurnsInit, TurnsNext, GroupTypeCorrect, GroupLoose, PTL
-----------------------------------------------------------------------------
(* A rescue of a group gains hours or restores what it found.               *)

\* Every member of the group has the blocks placed again, and nothing else was
\* taken out.
GainInv ==
    \A g \in target :
        /\ \A l \in g : Cardinality(RowsOf(UNION attempt.added, l))
                          = Cardinality(attempt.added) * BlockSize[l]
        /\ \A r \in attempt.ruined : r.lesson \in g

\* More rows of each lesson are more rows.
LEMMA MoreOfEach ==
  ASSUME NEW R \in SUBSET Row, NEW S \in SUBSET Row, NEW g \in Groups,
         \A r \in R : r.lesson \in g,
         \A l \in g : Cardinality(RowsOf(R, l)) < Cardinality(RowsOf(S, l))
  PROVE  Cardinality(R) < Cardinality(S)
<1> DEFINE f == [l \in g |-> CHOOSE h : h \in Injection(RowsOf(R, l), RowsOf(S, l))]
<1>1. ASSUME NEW l \in g
      PROVE  /\ IsFiniteSet(RowsOf(R, l)) /\ IsFiniteSet(RowsOf(S, l))
             /\ Cardinality(RowsOf(R, l)) \in Nat /\ Cardinality(RowsOf(S, l)) \in Nat
  <2>1. RowsOf(R, l) \in SUBSET Row /\ RowsOf(S, l) \in SUBSET Row
    BY DEF RowsOf
  <2> QED
    BY <2>1, ScheduleFinite
<1>2. ASSUME NEW l \in g PROVE f[l] \in Injection(RowsOf(R, l), RowsOf(S, l))
  <2> DEFINE n == Cardinality(RowsOf(R, l))
             m == Cardinality(RowsOf(S, l))
  <2>1. ExistsBijection(1..n, RowsOf(R, l)) /\ ExistsBijection(1..m, RowsOf(S, l))
    BY <1>1, FS_CardinalityType
  <2>2. ExistsInjection(RowsOf(R, l), 1..n) /\ ExistsInjection(1..m, RowsOf(S, l))
    BY <2>1, Fun_ExistsBijEquiv
  <2>3. n \in Nat /\ m \in Nat /\ n <= m
    BY <1>1
  <2> HIDE DEF n, m
  <2>4. ExistsInjection(1..n, 1..m)
    BY <2>3, Fun_NatInjLeq
  <2>5. ExistsInjection(RowsOf(R, l), RowsOf(S, l))
    BY <2>2, <2>4, Fun_ExistsInjTransitive
  <2> QED
    BY <2>5 DEF ExistsInjection
<1> HIDE DEF f
<1>3. \A l \in g : /\ \A r \in RowsOf(R, l) : f[l][r] \in RowsOf(S, l)
                   /\ \A r, q \in RowsOf(R, l) : f[l][r] = f[l][q] => r = q
  <2> SUFFICES ASSUME NEW l \in g
               PROVE  /\ \A r \in RowsOf(R, l) : f[l][r] \in RowsOf(S, l)
                      /\ \A r, q \in RowsOf(R, l) : f[l][r] = f[l][q] => r = q
    OBVIOUS
  <2>1. f[l] \in Injection(RowsOf(R, l), RowsOf(S, l))
    BY <1>2
  <2>2. f[l] \in [RowsOf(R, l) -> RowsOf(S, l)]
        /\ \A r, q \in RowsOf(R, l) : f[l][r] = f[l][q] => r = q
    BY <2>1, Fun_InjectionProperties
  <2> QED
    BY <2>2
<1>4. PICK m \in g : TRUE
  <2>1. Member(g) \in g
    BY Members
  <2> QED
    BY <2>1
<1>5. PICK e \in RowsOf(S, m) : \A r \in RowsOf(R, m) : f[m][r] # e
  <2> SUFFICES ASSUME \A e \in RowsOf(S, m) : \E r \in RowsOf(R, m) : f[m][r] = e
               PROVE  FALSE
    OBVIOUS
  <2>1. f[m] \in Injection(RowsOf(R, m), RowsOf(S, m))
    BY <1>2
  <2>2. f[m] \in [RowsOf(R, m) -> RowsOf(S, m)]
    BY <2>1, Fun_InjectionProperties
  <2>3. f[m] \in Surjection(RowsOf(R, m), RowsOf(S, m))
    BY <2>2, Fun_IsSurj
  <2>4. Cardinality(RowsOf(R, m)) = Cardinality(RowsOf(S, m))
    BY <1>1, <2>1, <2>3, FS_Injection
  <2> QED
    BY <1>1, <2>4
<1> DEFINE F == [r \in R |-> f[r.lesson][r]]
           T == S \ {e}
<1>6. \A r \in R : /\ r \in RowsOf(R, r.lesson) /\ r.lesson \in g
                   /\ F[r] \in S /\ F[r].lesson = r.lesson /\ F[r] # e
  <2> SUFFICES ASSUME NEW r \in R
               PROVE  /\ r \in RowsOf(R, r.lesson) /\ r.lesson \in g
                      /\ F[r] \in S /\ F[r].lesson = r.lesson /\ F[r] # e
    OBVIOUS
  <2>1. r \in RowsOf(R, r.lesson) /\ r.lesson \in g
    BY DEF RowsOf
  <2>2. F[r] \in RowsOf(S, r.lesson)
    BY <1>3, <2>1
  <2>3. F[r] \in S /\ F[r].lesson = r.lesson /\ e.lesson = m
    BY <2>2 DEF RowsOf
  <2>4. F[r] # e
    BY <1>5, <2>1, <2>3
  <2> QED
    BY <2>1, <2>3, <2>4
<1>7. F \in [R -> T] /\ \A r, q \in R : F[r] = F[q] => r = q
  <2>1. ASSUME NEW r \in R, NEW q \in R, F[r] = F[q] PROVE r = q
    <3>1. r.lesson = q.lesson
      BY <1>6, <2>1
    <3>2. /\ r \in RowsOf(R, r.lesson) /\ q \in RowsOf(R, r.lesson) /\ r.lesson \in g
          /\ f[r.lesson][r] = f[r.lesson][q]
      BY <1>6, <2>1, <3>1
    <3> QED
      BY <1>3, <3>2
  <2>2. \A r \in R : F[r] \in T
    BY <1>6
  <2> QED
    BY <2>1, <2>2
<1> HIDE DEF F
<1>8. F \in Injection(R, T)
  BY <1>7, Fun_IsInj
<1>9. /\ IsFiniteSet(S) /\ e \in S /\ Cardinality(S) \in Nat
      /\ IsFiniteSet(T) /\ Cardinality(T) = Cardinality(S) - 1
  <2>1. IsFiniteSet(S) /\ e \in S /\ Cardinality(S) \in Nat
    BY ScheduleFinite DEF RowsOf
  <2> QED
    BY <2>1, FS_RemoveElement
<1>10. Cardinality(R) <= Cardinality(T) /\ Cardinality(R) \in Nat
  BY <1>8, <1>9, FS_Injection, ScheduleFinite
<1> QED
  BY <1>9, <1>10

\* A block of each member.
LEMMA RebuildGains ==
  ASSUME TypeOK, TurnsInv, SharedInv, GainInv, NEW g \in Groups, GroupRebuild(g)
  PROVE  GainInv'
<1> DEFINE N == rows' \ rows
           A == attempt.added
<1>1. /\ phase = "rescue" /\ target = {g} /\ target' = target /\ PlaceSomewhere(g)
      /\ attempt'.added = A \cup {N} /\ attempt'.ruined = attempt.ruined
  BY DEF GroupRebuild, TurnsInv, TypeOK, AttemptType
<1>2. Parallel(rows) /\ Kept(rows, used, tally) /\ UNION A \subseteq rows
  BY <1>1 DEF SharedInv, Restorable
<1>3. \A l \in g : Cardinality(RowsOf(N, l)) = BlockSize[l]
  BY <1>1, <1>2, GroupPlaceShared
<1>4. N \in SUBSET Row /\ N # {} /\ N \cap UNION A = {}
  <2>1. N \in SUBSET Row
    <3>1. rows' \in SUBSET Row
      <4>1. PICK s, room, who :
              /\ s \in Slots /\ AllServed(g, s, room, who)
              /\ Window(s, BlockSize[Member(g)]) \subseteq Slots
              /\ rows' = rows \cup GroupRows(g, s, room, who)
        BY <1>1, GroupPlaced
      <4>2. GroupRows(g, s, room, who) \in SUBSET Row
        BY <4>1, GroupRowsShape
      <4> QED
        BY <4>1, <4>2 DEF TypeOK
    <3> QED
      BY <3>1
  <2>2. N # {}
    <3>1. Member(g) \in g /\ Member(g) \in Lessons
      BY Members
    <3>2. BlockSize[Member(g)] > 0
      BY <3>1, ProblemAssumption DEF ValidLessons
    <3>3. RowsOf({}, Member(g)) = {}
      BY DEF RowsOf
    <3> HIDE DEF N
    <3> QED
      BY <1>3, <3>1, <3>2, <3>3, FS_EmptySet
  <2> QED
    BY <1>2, <2>1, <2>2
<1> HIDE DEF N
<1>5. N \notin A /\ IsFiniteSet(A)
  <2>1. A \in SUBSET SUBSET Row /\ IsFiniteSet(SUBSET Row)
    BY RowFinite, FS_SUBSET DEF TypeOK, AttemptType
  <2> QED
    BY <1>4, <2>1, FS_Subset
<1>6. Cardinality(A \cup {N}) = Cardinality(A) + 1 /\ Cardinality(A) \in Nat
  BY <1>5, FS_AddElement, FS_CardinalityType
<1>7. ASSUME NEW l \in g
      PROVE  Cardinality(RowsOf(UNION (A \cup {N}), l)) = (Cardinality(A) + 1) * BlockSize[l]
  <2>1. /\ RowsOf(UNION (A \cup {N}), l) = RowsOf(UNION A, l) \cup RowsOf(N, l)
        /\ RowsOf(UNION A, l) \cap RowsOf(N, l) = {}
    BY <1>4 DEF RowsOf
  <2>2. RowsOf(UNION A, l) \in SUBSET Row /\ RowsOf(N, l) \in SUBSET Row
    BY <1>2, <1>4 DEF RowsOf, TypeOK
  <2>3. Cardinality(RowsOf(UNION (A \cup {N}), l))
          = Cardinality(RowsOf(UNION A, l)) + Cardinality(RowsOf(N, l))
    BY <2>1, <2>2, ScheduleFinite, SizeOfUnion
  <2>4. Cardinality(RowsOf(UNION A, l)) = Cardinality(A) * BlockSize[l]
    BY <1>1 DEF GainInv
  <2>5. BlockSize[l] \in Nat
    BY Members, ProblemAssumption DEF ValidLessons
  <2>6. Cardinality(A) * BlockSize[l] + BlockSize[l] = (Cardinality(A) + 1) * BlockSize[l]
    BY <1>6, <2>5
  <2> QED
    BY <1>3, <2>3, <2>4, <2>6
<1>8. /\ \A l \in g : Cardinality(RowsOf(UNION attempt'.added, l))
                        = Cardinality(attempt'.added) * BlockSize[l]
      /\ \A r \in attempt'.ruined : r.lesson \in g
  BY <1>1, <1>6, <1>7 DEF GainInv
<1> QED
  BY <1>1, <1>8 DEF GainInv

\* While a group is out nothing else happens.
LEMMA GroupOutAlone == ASSUME TurnsInv, target # {} PROVE ~SingleStep
<1> SUFFICES ASSUME SingleStep PROVE FALSE
  OBVIOUS
<1>1. phase = "rescue" /\ attempt.todo = <<>>
  BY DEF TurnsInv
<1>2. \A l \in Lessons :
        /\ ~FfdPlace(l) /\ ~FfdMiss(l) /\ ~Change(l) /\ ~HomeRoomRepair(l) /\ ~Rescue(l)
        /\ ~RebuildPlace(l) /\ ~RebuildMiss(l) /\ \A m \in Lessons : ~Swap(l, m)
  BY <1>1 DEF FfdPlace, FfdMiss, FfdTurn, Change, HomeRoomRepair, Rescue, RebuildPlace,
              RebuildMiss, Rebuilding, Swap, Searching
<1>3. ~FfdEnd /\ ~Ruin /\ ~NothingToRuin /\ ~Finish
  BY <1>1 DEF FfdEnd, Ruin, NothingToRuin, Finish
<1> QED
  BY <1>2, <1>3 DEF SingleStep

LEMMA GainInit == GroupInit => GainInv
BY DEF GroupInit, GainInv

LEMMA GainNext ==
  GroupTypeOK /\ TurnsInv /\ SharedInv /\ GainInv /\ [GroupNext]_<<vars, groupVars>> => GainInv'
<1> SUFFICES ASSUME GroupTypeOK, TurnsInv, SharedInv, GainInv, [GroupNext]_<<vars, groupVars>>
             PROVE  GainInv'
  OBVIOUS
<1>1. CASE UNCHANGED <<vars, groupVars>>
  BY <1>1 DEF vars, groupVars, GainInv
<1>2. CASE SingleStep
  <2>1. target = {} /\ target' = target
    BY <1>2, GroupOutAlone DEF SingleStep, groupVars
  <2> QED
    BY <2>1 DEF GainInv
<1>3. ASSUME NEW g \in Groups, GroupPlace(g) \/ GroupMiss(g) PROVE GainInv'
  BY <1>3 DEF GroupPlace, GroupMiss, GroupTurn, GainInv
<1>4. ASSUME NEW g \in Groups, GroupRescue(g) PROVE GainInv'
  <2>1. /\ target' = {g} /\ attempt'.added = {} /\ attempt'.ruined = RowsOfGroup(rows, g)
    BY <1>4 DEF GroupRescue, NoAttempt
  <2>2. UNION {} = {} /\ Cardinality({}) = 0
    BY FS_EmptySet
  <2>3. \A l \in g : RowsOf({}, l) = {} /\ BlockSize[l] \in Nat
    BY Members, ProblemAssumption DEF ValidLessons, RowsOf
  <2>4. \A l \in g : Cardinality(RowsOf(UNION {}, l)) = Cardinality({}) * BlockSize[l]
    BY <2>2, <2>3
  <2>5. \A r \in RowsOfGroup(rows, g) : r.lesson \in g
    BY DEF RowsOfGroup, RowsOf
  <2> QED
    BY <2>1, <2>4, <2>5 DEF GainInv
<1>5. ASSUME NEW g \in Groups, GroupRebuild(g) PROVE GainInv'
  BY <1>5, RebuildGains DEF GroupTypeOK
<1>6. ASSUME NEW g \in Groups, GroupGiveUp(g) PROVE GainInv'
  BY <1>6 DEF GroupGiveUp, vars, GainInv
<1>7. ASSUME NEW g \in Groups, GroupKeep(g) \/ GroupUndo(g) PROVE GainInv'
  BY <1>7 DEF GroupKeep, GroupUndo, GainInv
<1> QED
  BY <1>1, <1>2, <1>3, <1>4, <1>5, <1>6, <1>7 DEF GroupNext

\* The schedule before the group was taken out.
FoundByRescue == (rows \ UNION attempt.added) \cup attempt.ruined

\* What is kept of a rescue is more than it found.
LEMMA GroupKeepGains ==
  ASSUME TypeOK, TurnsInv, SharedInv, GainInv, NEW g \in Groups, GroupKeep(g)
  PROVE  Cardinality(rows') > Cardinality(FoundByRescue)
<1> DEFINE A == UNION attempt.added
           R == attempt.ruined
           K == rows \ A
<1>1. phase = "rescue" /\ target = {g} /\ rows' = rows /\ GroupGate(g)
  BY DEF GroupKeep, TurnsInv
<1>2. A \subseteq rows /\ K \cap R = {}
  BY <1>1 DEF SharedInv, Restorable
<1>3. rows \in SUBSET Row /\ R \in SUBSET Row /\ K \in SUBSET Row /\ A \in SUBSET Row
  BY <1>2 DEF TypeOK, AttemptType
<1>4. \A l \in g : Cardinality(RowsOf(R, l)) < Cardinality(RowsOf(A, l))
  <2> SUFFICES ASSUME NEW l \in g PROVE Cardinality(RowsOf(R, l)) < Cardinality(RowsOf(A, l))
    OBVIOUS
  <2>1. Cardinality(RowsOf(A, l)) = Cardinality(attempt.added) * BlockSize[l]
    BY <1>1 DEF GainInv
  <2>2. Cardinality(attempt.added) * BlockSize[l] > Cardinality(RowsOf(R, l))
    BY <1>1 DEF GroupGate
  <2>3. Cardinality(RowsOf(R, l)) \in Nat /\ Cardinality(RowsOf(A, l)) \in Nat
    <3>1. RowsOf(R, l) \in SUBSET Row /\ RowsOf(A, l) \in SUBSET Row
      BY <1>3 DEF RowsOf
    <3> QED
      BY <3>1, ScheduleFinite
  <2> HIDE DEF A, R
  <2> QED
    BY <2>1, <2>2, <2>3
<1>5. \A r \in R : r.lesson \in g
  BY <1>1 DEF GainInv
<1>6. rows = K \cup A /\ K \cap A = {} /\ FoundByRescue = K \cup R
  BY <1>2 DEF FoundByRescue
<1> HIDE DEF A, R, K
<1>7. Cardinality(R) < Cardinality(A)
  BY <1>3, <1>4, <1>5, MoreOfEach
<1>8. IsFiniteSet(R) /\ IsFiniteSet(K) /\ IsFiniteSet(A)
  BY <1>3, ScheduleFinite
<1>9. /\ Cardinality(K \cup A) = Cardinality(K) + Cardinality(A)
      /\ Cardinality(K \cup R) = Cardinality(K) + Cardinality(R)
      /\ Cardinality(K) \in Nat /\ Cardinality(A) \in Nat /\ Cardinality(R) \in Nat
  BY <1>2, <1>6, <1>8, SizeOfUnion
<1> QED
  BY <1>1, <1>6, <1>7, <1>9

\* A rescue of a group, pinned members included, ends with more rows than it
\* found or with exactly the rows it found.  The gate compares the blocks placed
\* with the rows each member had before; it never looks at the schedule.
THEOREM GroupRescueGains == GroupSpec => GroupRescueGainsOrRestores
<1> DEFINE I == GroupTypeOK /\ TurnsInv /\ SharedInv /\ GainInv
           Gains == target # {} /\ target' = {} =>
                      rows' = FoundByRescue \/ Cardinality(rows') > Cardinality(FoundByRescue)
<1>1. GroupInit => I
  BY GroupInitType, TurnsInit, SharedInit, GainInit
<1>2. I /\ [GroupNext]_<<vars, groupVars>> => I'
  BY GroupNextType, TurnsNext, SharedNext, GainNext
<1>3. I /\ [GroupNext]_<<vars, groupVars>> => [Gains]_<<vars, groupVars>>
  <2> SUFFICES ASSUME I, GroupNext, target # {}, target' = {}
               PROVE  rows' = FoundByRescue \/ Cardinality(rows') > Cardinality(FoundByRescue)
    OBVIOUS
  <2>1. ~SingleStep
    BY GroupOutAlone
  <2>2. PICK g \in Groups :
          \/ GroupPlace(g) \/ GroupMiss(g) \/ GroupRescue(g) \/ GroupRebuild(g)
          \/ GroupGiveUp(g) \/ GroupKeep(g) \/ GroupUndo(g)
    BY <2>1 DEF GroupNext
  <2>3. GroupKeep(g) \/ GroupUndo(g)
    BY <2>2 DEF GroupPlace, GroupMiss, GroupTurn, GroupRescue, GroupRebuild, GroupGiveUp
  <2>4. CASE GroupKeep(g)
    BY <2>4, GroupKeepGains DEF GroupTypeOK
  <2>5. CASE GroupUndo(g)
    BY <2>5 DEF GroupUndo, FoundByRescue
  <2> QED
    BY <2>3, <2>4, <2>5
<1>4. [Gains]_<<vars, groupVars>> => [target # {} /\ target' = {} =>
         LET found == (rows \ UNION attempt.added) \cup attempt.ruined
         IN  rows' = found \/ Cardinality(rows') > Cardinality(found)]_<<vars, groupVars>>
  BY DEF FoundByRescue
<1> HIDE DEF I, Gains
<1> QED
  BY <1>1, <1>2, <1>3, <1>4, GroupLoose, PTL DEF GroupRescueGainsOrRestores
=============================================================================
