---------------------------- MODULE MCKempeChains ----------------------------
(***************************************************************************)
(* A small problem for KempeChains, on two days of three hours: a German    *)
(* double for both classes, two hours of mathematics for c1 and an hour of  *)
(* sports for c2 with one teacher.  The chain of the double takes along     *)
(* what the two classes have at its place on the other day.                 *)
(***************************************************************************)
EXTENDS KempeChains, TLC

CONSTANTS a, b, e, c1, c2, de, ma, sp, t1, t2, r1, r2

MCLessons == {a, b, e}
MCSlots == {<<0, 0>>, <<0, 1>>, <<0, 2>>, <<1, 0>>, <<1, 1>>, <<1, 2>>}
NoBreaks == {}
MCClasses == (a :> {c1, c2}) @@ (b :> {c1}) @@ (e :> {c2})
MCSubjects == (a :> de) @@ (b :> ma) @@ (e :> sp)
MCCandidates == (a :> {t1}) @@ (b :> {t2}) @@ (e :> {t2})
MCTeacherPin == [l \in MCLessons |-> NoTeacher]
MCHours == (a :> 2) @@ (b :> 2) @@ (e :> 1)
MCBlocks == (a :> 2) @@ (b :> 1) @@ (e :> 1)
MCTeacherMax == (t1 :> 2) @@ (t2 :> 3)
MCSubjectCap == (de :> 2) @@ (ma :> 2) @@ (sp :> 1)
MCClassCap == (c1 :> 4) @@ (c2 :> 4)
MCSuits == {<<r1, de>>, <<r2, de>>, <<r1, ma>>, <<r2, sp>>}
MCHome == (c1 :> r1) @@ (c2 :> r2)
NoClosures == {}
NoPins == {}

MCWeight == [x \in Axes |-> IF x \in {"classGap", "homeRoom", "balance"} THEN 1 ELSE 0]
MCWish == [s \in {de, ma, sp} |-> [early |-> 0, first |-> 0, last |-> 0, late |-> 0]]
MCClassTeacher == (c1 :> NoTeacher) @@ (c2 :> NoTeacher)
MCQualified == {<<t1, de>>, <<t2, ma>>, <<t2, sp>>}
MCTeacherId == (t1 :> 1) @@ (t2 :> 2)
MCLessonId == (a :> 1) @@ (b :> 2) @@ (e :> 3)

\* The other teacher is away in the first hour of the first day.
MCAway == {<<t2, <<0, 0>>>>}
=============================================================================
