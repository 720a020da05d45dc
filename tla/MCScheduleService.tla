--------------------------- MODULE MCScheduleService ---------------------------
(***************************************************************************)
(* Small schools for ScheduleService: class c1 has an hour of German, and  *)
(* an hour of sports that it shares with class c2, or c2 has two of its    *)
(* own; one teacher, one room.  MCKept: nothing stored, or a full          *)
(* timetable in which sports is pinned.                                    *)
(***************************************************************************)
EXTENDS ScheduleService, TLC

CONSTANTS x, y, c1, c2, de, sp, t1, r1, k1, k2

NoRows == {}
NoScore(R) == 0

MCLessons == {x, y}
MCThreeSlots == {<<0, 0>>, <<0, 1>>, <<1, 0>>}
MCShared == (x :> {c1}) @@ (y :> {c1, c2})
MCApart == (x :> {c1}) @@ (y :> {c2})
MCSubjects == (x :> de) @@ (y :> sp)
MCCandidates == [l \in MCLessons |-> {t1}]
MCTeacherPin == [l \in MCLessons |-> NoTeacher]
MCHours == (x :> 1) @@ (y :> 2)
MCBlocks == [l \in MCLessons |-> 1]
MCTeacherMax == (t1 :> 3)
MCSubjectCap == (de :> 1) @@ (sp :> 2)
MCClassCap == (c1 :> 3) @@ (c2 :> 3)
MCSuits == {r1} \X {de, sp}
MCTwoSlots == {0} \X (0..1)
MCOneHour == (x :> 1) @@ (y :> 1)
MCNothing == {NoRows}
MCRow(l, p, kind) == [lesson |-> l, slot |-> <<0, p>>, room |-> r1, teacher |-> t1, pin |-> kind]
MCKept == {{}, {MCRow(x, 0, "none"), MCRow(y, 1, "hard")}}
MCHome == (c1 :> NoRoom) @@ (c2 :> NoRoom)
=============================================================================
