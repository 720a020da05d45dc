---------------------------- MODULE MCScoredSearch ----------------------------
(***************************************************************************)
(* A small problem for ScoredSearch: class c1 has a German double and two *)
(* hours of mathematics on different days, one of them softly pinned to    *)
(* the second day, class c2 an hour of sports a day.  Teacher t1 has no    *)
(* hours for German, t2 has and is c1's class teacher.  Each class has a   *)
(* home room; r1 is closed once.  A break lies in the middle of the first  *)
(* day and at the end of both.                                             *)
(***************************************************************************)
EXTENDS ScoredSearch, TLC

CONSTANTS a, b, e, c1, c2, de, ma, sp, t1, t2, r1, r2

MCLessons == {a, b, e}
MCSlots == {<<0, 0>>, <<0, 1>>, <<0, 3>>, <<1, 0>>, <<1, 1>>, <<1, 2>>}
MCBreaks == {<<0, 2>>, <<0, 4>>, <<1, 3>>}
MCClasses == (a :> {c1}) @@ (b :> {c1}) @@ (e :> {c2})
MCSubjects == (a :> de) @@ (b :> ma) @@ (e :> sp)
MCCandidates == (a :> {t1, t2}) @@ (b :> {t1}) @@ (e :> {t2})
MCTeacherPin == [l \in MCLessons |-> NoTeacher]
MCHours == (a :> 2) @@ (b :> 2) @@ (e :> 2)
MCBlocks == (a :> 2) @@ (b :> 1) @@ (e :> 1)
MCTeacherMax == (t1 :> 2) @@ (t2 :> 4)
MCSubjectCap == (de :> 2) @@ (ma :> 1) @@ (sp :> 2)
MCClassCap == (c1 :> 3) @@ (c2 :> 1)
MCSuits == {r1, r2} \X {de, ma, sp}
MCHome == (c1 :> r1) @@ (c2 :> r2)
NoClosures == {}
MCClosed == {<<r1, <<0, 1>>>>}
NoPins == {}

MCWeight ==
    [x \in Axes |-> CASE x \in {"classGap", "teacherGap", "worstSpread"} -> 2
                      [] x \in {"first", "worstGaps"} -> 0
                      [] OTHER -> 1]

NoWish == [early |-> 0, first |-> 0, last |-> 0, late |-> 0]
MCWish == (de :> NoWish)
       @@ (ma :> [NoWish EXCEPT !.first = 1, !.late = 1])
       @@ (sp :> [NoWish EXCEPT !.early = 1, !.first = 1, !.late = 1])
MCClassTeacher == (c1 :> t2) @@ (c2 :> NoTeacher)
MCQualified == {<<t2, de>>, <<t1, ma>>, <<t2, ma>>, <<t2, sp>>}
MCSoftPins == {<<b, <<1, 0>>>>}
MCTeacherId == (t1 :> 1) @@ (t2 :> 2)
MCLessonId == (a :> 3) @@ (b :> 1) @@ (e :> 2)
=============================================================================
