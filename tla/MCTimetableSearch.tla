-------------------------- MODULE MCTimetableSearch --------------------------
(***************************************************************************)
(* Small problems for TimetableSearch.  A cfg picks one set of definitions  *)
(* for the constants of the problem.  As in the backend, a class has at     *)
(* most one lesson per subject.                                             *)
(***************************************************************************)
EXTENDS TimetableSearch, TLC

LOCAL INSTANCE FiniteSetsExt

CONSTANTS a, b, d, e, c1, c2, de, ma, ku, sp, t1, t2, r1, r2

\* prefer_early_position: the later the position, the worse
Cost(R) == MapThenSumSet(LAMBDA r : Pos(r.slot), R)

NoPins == {}
NoClosures == {}

-----------------------------------------------------------------------------
(* Singles: class c1 has German and mathematics, c2 German, both together   *)
(* have art; one hour each, but two of mathematics.  c2's German is pinned. *)
(* Two rooms, two teachers, art only in r2.                                 *)

SingleSlots == {<<0, 0>>, <<0, 1>>, <<1, 0>>}
SingleClasses == (a :> {c1}) @@ (b :> {c1}) @@ (d :> {c1, c2}) @@ (e :> {c2})
SingleSubjects == (a :> de) @@ (b :> ma) @@ (d :> ku) @@ (e :> de)
SingleBlocks == [l \in {a, b, d, e} |-> 1]
SingleCandidates == (a :> {t1}) @@ (b :> {t1, t2}) @@ (d :> {t2}) @@ (e :> {t1})
SingleTeacherPin == (a :> NoTeacher) @@ (b :> NoTeacher) @@ (d :> t2) @@ (e :> NoTeacher)
SingleHours == (a :> 1) @@ (b :> 2) @@ (d :> 1) @@ (e :> 1)
SingleTeacherMax == (t1 :> 4) @@ (t2 :> 2)
SingleSubjectCap == (de :> 1) @@ (ma :> 2) @@ (ku :> 1)
SingleClassCap == (c1 :> 2) @@ (c2 :> 1)
SingleSuits == ({r1, r2} \X {de, ma}) \cup {<<r2, ku>>}
SinglePins == {[lesson |-> e, slot |-> <<0, 0>>, room |-> r2, teacher |-> t1]}
SingleHome == (c1 :> r1) @@ (c2 :> r2)

-----------------------------------------------------------------------------
(* Doubles: class c1 has a German double, which needs travel time before it *)
(* unless it starts the day, and two hours of mathematics that may fall on  *)
(* one day.                                                                 *)

DoubleSlots == {<<0, 0>>, <<0, 1>>, <<0, 2>>, <<1, 0>>, <<1, 1>>}
DoubleBreaks == {<<1, 2>>}
DoubleClasses == (a :> {c1}) @@ (b :> {c1})
DoubleSubjects == (a :> de) @@ (b :> ma)
DoubleCandidates == (a :> {t1, t2}) @@ (b :> {t2})
DoubleTeacherPin == [l \in {a, b} |-> NoTeacher]
DoubleHours == (a :> 2) @@ (b :> 2)
DoubleBlocks == (a :> 2) @@ (b :> 1)
DoubleTeacherMax == (t1 :> 2) @@ (t2 :> 3)
DoubleSubjectCap == (de :> 2) @@ (ma :> 2)
DoubleClassCap == (c1 :> 2)
DoubleSuits == ({r1} \X {de, ma}) \cup {<<r2, ma>>}
DoubleAway == {<<t2, <<1, 1>>>>}
DoubleHome == (c1 :> r1)

-----------------------------------------------------------------------------
(* Rescue: two subjects of two hours each for three slots; one hour must    *)
(* stay out.                                                                *)

ScarceSlots == {<<0, 0>>, <<0, 1>>, <<1, 0>>}
ScarceLessons == {a, b}
ScarceClasses == (a :> {c1}) @@ (b :> {c1})
ScarceSubjects == (a :> de) @@ (b :> ma)
ScarceCandidates == (a :> {t1}) @@ (b :> {t2})
ScarceTeacherPin == [l \in ScarceLessons |-> NoTeacher]
ScarceHours == (a :> 2) @@ (b :> 2)
ScarceBlocks == (a :> 1) @@ (b :> 1)
ScarceTeacherMax == (t1 :> 2) @@ (t2 :> 2)
ScarceSubjectCap == (de :> 2) @@ (ma :> 2)
ScarceClassCap == (c1 :> 4)
ScarceSuits == {r1} \X {de, ma}
ScarceHome == (c1 :> r1)

\* mathematics late in the day costs more than German late in the day
ScarceCost(R) ==
    MapThenSumSet(LAMBDA r : IF r.lesson = b THEN 2 * Pos(r.slot) ELSE Pos(r.slot), R)

-----------------------------------------------------------------------------
(* CapDrift: a double and three singles of one class that may have two      *)
(* lessons a day, three days.                                               *)

DriftSlots == {<<0, 0>>, <<0, 1>>, <<0, 2>>, <<1, 0>>, <<1, 1>>, <<2, 1>>, <<2, 2>>}
DriftLessons == {a, b, d, e}
DriftClasses == [l \in DriftLessons |-> {c1}]
DriftSubjects == (a :> de) @@ (b :> ma) @@ (d :> ku) @@ (e :> sp)
DriftCandidates == [l \in DriftLessons |-> {t1}]
DriftTeacherPin == [l \in DriftLessons |-> NoTeacher]
DriftHours == (a :> 2) @@ (b :> 1) @@ (d :> 1) @@ (e :> 1)
DriftBlocks == DriftHours
DriftTeacherMax == (t1 :> 5)
DriftSubjectCap == (de :> 2) @@ (ma :> 2) @@ (ku :> 2) @@ (sp :> 2)
DriftClassCap == (c1 :> 2)
DriftSuits == {r1} \X {de, ma, ku, sp}
DriftHome == (c1 :> r1)

-----------------------------------------------------------------------------
(* SwapBuffer: an hour each of German and of mathematics, which needs       *)
(* travel time behind it, on a day of three hours.                          *)

BufferSlots == {<<0, 0>>, <<0, 1>>, <<0, 2>>}
BufferHours == [l \in ScarceLessons |-> 1]
=============================================================================
