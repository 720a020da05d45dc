---------------------------- MODULE MCLessonGroups ----------------------------
(***************************************************************************)
(* Small problems for LessonGroups: classes c1 and c2 have Protestant and  *)
(* Catholic religious education in parallel, two hours; c1 also has German.*)
(* The cfgs differ in what is pinned.                                      *)
(***************************************************************************)
EXTENDS LessonGroups, TLC

LOCAL INSTANCE FiniteSetsExt

CONSTANTS a, p, k, c1, c2, de, rp, rk, t1, t2, t3, r1, r2, r3

\* the later the position, the worse
Cost(R) == MapThenSumSet(LAMBDA r : Pos(r.slot), R)

NoPins == {}
NoClosures == {}

MCLessons == {a, p, k}
MCSlots == {<<0, 0>>, <<0, 1>>, <<0, 2>>, <<1, 0>>, <<1, 1>>}
MCClasses == (a :> {c1}) @@ (p :> {c1, c2}) @@ (k :> {c1, c2})
MCSubjects == (a :> de) @@ (p :> rp) @@ (k :> rk)
MCCandidates == (a :> {t1}) @@ (p :> {t1, t2}) @@ (k :> {t2, t3})
MCTeacherPin == [l \in MCLessons |-> NoTeacher]
MCHours == (a :> 2) @@ (p :> 2) @@ (k :> 2)
MCBlocks == [l \in MCLessons |-> 1]
MCTeacherMax == (t1 :> 4) @@ (t2 :> 2) @@ (t3 :> 2)
MCSubjectCap == (de :> 1) @@ (rp :> 2) @@ (rk :> 2)
MCClassCap == (c1 :> 3) @@ (c2 :> 3)
MCSuits == ({r1, r2} \X {rp, rk}) \cup {<<r3, de>>}
MCAway == {<<t3, <<1, 1>>>>}
MCHome == (c1 :> r3) @@ (c2 :> r2)
MCGroups == {{p, k}}
=============================================================================
