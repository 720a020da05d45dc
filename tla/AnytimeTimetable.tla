--------------------------- MODULE AnytimeTimetable ---------------------------
(***************************************************************************)
(* What a solve promises its caller, who may cancel it at any time: a      *)
(* result that exists once the greedy pass is over, is free of conflicts,  *)
(* holds every pinned row, and is only ever replaced by a better one.      *)
(* solve_with_config_stats_inner and lahc::run implement it.               *)
(***************************************************************************)
EXTENDS Timetable

VARIABLES
    result,   \* the schedule a cancellation now would return
    stage     \* "building", "improving" or "returned"

Sound(R) == R \subseteq Row /\ NoDoubleBooking(R) /\ PinnedRows \subseteq R

Init == result = {} /\ stage = "building"

Build ==
    /\ stage = "building" /\ stage' = "improving"
    /\ Sound(result')

Improve ==
    /\ stage = "improving"
    /\ Sound(result') /\ Better(result', result)
    /\ UNCHANGED stage

Return ==
    /\ stage = "improving" /\ stage' = "returned"
    /\ UNCHANGED result

Next == Build \/ Improve \/ Return

Spec == Init /\ [][Next]_<<result, stage>>
=============================================================================
