----------------------------- MODULE ScoredSearch -----------------------------
(***************************************************************************)
(* TimetableSearch with the costs the solver steers by: what try_place_    *)
(* block prefers, which moves late acceptance admits, and the three things *)
(* the hot path keeps up to date instead of pricing the schedule again     *)
(* (solver-core/src/solve.rs, lahc.rs):                                    *)
(*   - class_positions and teacher_positions,                              *)
(*   - search_score_slice, the gap and subject part of the cost,           *)
(*   - canonical_score, the whole cost.                                    *)
(*                                                                         *)
(* Every step is a step of TimetableSearch, or a stutter of it, with the   *)
(* bookkeeping of the cost.  Score of Timetable is ScoreSolution.          *)
(***************************************************************************)
EXTENDS TimetableSearch, ScheduleScore

CONSTANTS
    HistoryLength,  \* LAHC_LIST_LEN, 500 in the code
    LessonId        \* lesson -> the order of the ids

ASSUME HistoryAssumption ==
    /\ HistoryLength \in Nat \ {0}
    /\ LessonId \in [Lessons -> Nat]

VARIABLES
    classPos,    \* class_positions
    teacherPos,  \* teacher_positions
    slice,       \* search_score_slice
    savedSlice,  \* pre_slice of a ruin
    canonical,   \* canonical_score
    promised,    \* running_best: the running cost when the best was found
    history,     \* lahc_list, the entry of the next iteration first
    open         \* the loop has not met its early exit

costVars == <<classPos, teacherPos, slice, savedSlice, canonical, promised, history, open>>

-----------------------------------------------------------------------------
(* Positions.                                                               *)

Joined(P, Q) == [x \in DOMAIN P |-> P[x] \cup Q[x]]

\* Broken variant: the positions of rows taken out stay.
LeftStale(P, Q) == P

Left(P, Q) == [x \in DOMAIN P |-> P[x] \ Q[x]]

\* Rows `out` leave the schedule, rows `in` join it.
Book(out, in) ==
    /\ classPos' = Joined(Left(classPos, ClassPositions(out)), ClassPositions(in))
    /\ teacherPos' = Joined(Left(teacherPos, TeacherPositions(out)), TeacherPositions(in))

-----------------------------------------------------------------------------
(* The order of the greedy pass: first the lessons that are hard to place.  *)

\* assigned_teacher_id
Assigned(l) == IF TeacherPin[l] # NoTeacher THEN TeacherPin[l]
               ELSE CHOOSE t \in Candidates[l] : TRUE

SuitableRooms(l) == {q \in Rooms : <<q, SubjectOf[l]>> \in Suits}

\* Days and rooms where a block fits, counting on the list of the day's lesson
\* slots: a break in between does not end a run.
ViablePairs(l) ==
    LET clear(q, s) == <<Assigned(l), s>> \notin TeacherAway /\ <<q, s>> \notin RoomClosed
        between(d, s, z) == {w \in Slots : Day(w) = d /\ Pos(s) <= Pos(w) /\ Pos(w) <= Pos(z)}
    IN  {x \in Days \X SuitableRooms(l) :
            \E s, z \in Slots :
                /\ Day(s) = x[1] /\ Day(z) = x[1]
                /\ Cardinality(between(x[1], s, z)) = BlockSize[l]
                /\ \A w \in between(x[1], s, z) : clear(x[2], w)}

\* Without closures every run is open.
ViablePairsUnblocked(l) ==
    {d \in Days : Cardinality({s \in Slots : Day(s) = d}) >= BlockSize[l]} \X SuitableRooms(l)

\* Few teachers, few days and rooms, few of them at home; then the id.
Scarcity(l) ==
    LET viable == IF TeacherAway = {} /\ RoomClosed = {} THEN ViablePairsUnblocked(l)
                                                        ELSE ViablePairs(l)
        home == {x \in viable : \E c \in ClassesOf[l] : HomeRoom[c] = x[2]}
    IN  <<Cardinality(Candidates[l]), Cardinality(viable), Cardinality(home), LessonId[l]>>

InOrder(l) ==
    LET key == Scarcity(l)
        after(other) == \E i \in 1..4 : key[i] < other[i] /\ \A j \in 1..(i - 1) : key[j] = other[j]
    IN  \A m \in Lessons \ {l} : left[m] > 0 => after(Scarcity(m))

-----------------------------------------------------------------------------
(* What try_place_block prefers.                                            *)

\* search_score_slice after placing l at s with teacher t
SliceAfter(l, s, t) ==
    LET n == BlockSize[l]
        grown(P) == GapAfterWindow(P, Pos(s), n) - GapCount(P)
    IN  Floor0(slice
          + Weight["classGap"] * SumFunction([c \in ClassesOf[l] |-> grown(classPos[<<c, Day(s)>>])])
          + Weight["teacherGap"] * grown(teacherPos[<<t, Day(s)>>])
          + SumFunction([w \in Window(s, n) |-> SubjectPreference(SubjectOf[l], w)]))

\* The class teacher counts while the choice of a teacher is still free.
LockCost(l, t) ==
    IF LockedTeachers(l) # {} THEN 0
    ELSE Weight["classTeacher"]
         * Cardinality({c \in ClassesOf[l] : PrefersOwn(c, SubjectOf[l], t)})

Total(l, s, room, t) ==
      SliceAfter(l, s, t)
    + HomeRoomPenalty(l, room)
    + Weight["balance"]
      * SumFunction([c \in ClassesOf[l] |-> BalanceAfterAdd(classPos, c, Day(s), BlockSize[l])])
    + LockCost(l, t)

Earlier(s, z) == Day(s) < Day(z) \/ (Day(s) = Day(z) /\ Pos(s) < Pos(z))

RoomOpen(l, s, room) ==
    /\ RoomFits(l, room, Window(s, BlockSize[l]))
    /\ \A x \in LockKeys(l, Day(s)) : tally.lock[x] > 0 => tally.lockRoom[x] = room

\* Per window the room of least home-room penalty (of several, the one with
\* the lowest id: any of them here), with every teacher that fits.
Offers(l) ==
    {o \in [slot : Slots, room : Rooms, teacher : Teachers] :
        /\ CanPlace(l, o.slot, o.room, o.teacher)
        /\ \A q \in Rooms : RoomOpen(l, o.slot, q) =>
             HomeRoomPenalty(l, o.room) <= HomeRoomPenalty(l, q)}

\* The cheapest offer, the earliest of equals.  The walk over the windows ends
\* early where the best so far is new and adds nothing to the slice.
Chosen(l) ==
    LET offers == Offers(l)
        total == [o \in offers |-> Total(l, o.slot, o.room, o.teacher)]
        stops(o) == /\ total[o] = slice
                    /\ \A q \in offers : \/ total[q] > slice
                                         \/ Earlier(o.slot, q.slot)
                                         \/ q.slot = o.slot /\ total[q] = slice
        walked == {o \in offers : ~\E q \in offers : Earlier(q.slot, o.slot) /\ stops(q)}
    IN  {o \in walked : \A q \in walked :
            \/ total[o] < total[q]
            \/ total[o] = total[q] /\ ~Earlier(q.slot, o.slot)}

\* The bookkeeping of try_place_block for the block just placed.
BookBlock(l) ==
    LET B == rows' \ rows
        first == CHOOSE r \in B : \A q \in B : Pos(r.slot) <= Pos(q.slot)
    IN  /\ [slot |-> first.slot, room |-> first.room, teacher |-> first.teacher] \in Chosen(l)
        /\ Book({}, B)
        /\ slice' = SliceAfter(l, first.slot, first.teacher)

-----------------------------------------------------------------------------
(* Late acceptance.                                                         *)

\* Broken variant: every move is welcome.
AlwaysConsent(cost) == TRUE

\* No worse than now, or than HistoryLength iterations ago.
Consent(cost) == cost <= canonical \/ cost <= Head(history)

Complete(R) == Cardinality(R) = SumFunction(Hours)

\* is_better: more hours than the running best, or as many at a lower running
\* cost than the best was found with.
IsBetter == \/ Cardinality(rows') > Cardinality(best)
            \/ Cardinality(rows') = Cardinality(best) /\ canonical' < promised

\* The tail of every iteration.
Tick ==
    /\ history' = Append(Tail(history), canonical')
    /\ best' = IF IsBetter THEN rows' ELSE best
    /\ promised' = IF IsBetter THEN canonical' ELSE promised
    /\ open' = ~(canonical' = 0 /\ Complete(rows'))

\* Broken variant: the wish of the subject is forgotten.
SliceDeltaGapsOnly(p, q) ==
    LET moved(pos, who) ==
            PartitionDelta(pos[<<who, Day(p.slot)>>], pos[<<who, Day(q.slot)>>], p.slot, q.slot)
    IN    Weight["classGap"] * SumFunction([c \in ClassesOf[p.lesson] |-> moved(classPos, c)])
        + Weight["teacherGap"] * moved(teacherPos, p.teacher)

\* score_after_change_move and the subject preference: what the slice gains
\* when row p becomes row q.
SliceDelta(p, q) ==
    LET moved(pos, who) ==
            PartitionDelta(pos[<<who, Day(p.slot)>>], pos[<<who, Day(q.slot)>>], p.slot, q.slot)
        subject == SubjectOf[p.lesson]
    IN    Weight["classGap"] * SumFunction([c \in ClassesOf[p.lesson] |-> moved(classPos, c)])
        + Weight["teacherGap"] * moved(teacherPos, p.teacher)
        + SubjectPreference(subject, q.slot) - SubjectPreference(subject, p.slot)

BalanceDelta(p, q) ==
    SumFunction([c \in ClassesOf[p.lesson] |->
                    BalanceAfterMove(classPos, c, Day(p.slot), Day(q.slot))
                    - BalanceOf(classPos, c)])

\* try_change_move_n1's prediction; the rota and the soft pins are not part of it.
Predicted(p, q) ==
    LET moved == (rows \ {p}) \cup {q}
    IN  Floor0(canonical + SliceDelta(p, q)
          + HomeRoomPenalty(q.lesson, q.room) - HomeRoomPenalty(p.lesson, p.room)
          + Weight["balance"] * BalanceDelta(p, q)
          + Weight["worstSpread"] * (WorstClassSpread(moved) - WorstClassSpread(rows))
          + Weight["worstGaps"] * (WorstClassGaps(moved) - WorstClassGaps(rows)))

-----------------------------------------------------------------------------
(* The steps.                                                               *)

ScoredInit ==
    /\ Init
    /\ classPos = ClassPositions(PinnedRows)
    /\ teacherPos = TeacherPositions(PinnedRows)
    /\ slice = 0 /\ savedSlice = 0
    /\ canonical = 0 /\ promised = 0
    /\ history = [i \in 1..HistoryLength |-> 0]
    /\ open = FALSE

ScoredFfdPlace(l) ==
    /\ FfdPlace(l)
    /\ InOrder(l)
    /\ BookBlock(l)
    /\ UNCHANGED <<savedSlice, canonical, promised, history, open>>

ScoredFfdMiss(l) == FfdMiss(l) /\ InOrder(l) /\ UNCHANGED costVars

\* The list starts full of the greedy schedule's cost; without placements
\* the loop is not entered.
ScoredFfdEnd ==
    /\ FfdEnd
    /\ canonical' = ScoreSolution(rows)
    /\ promised' = canonical'
    /\ history' = [i \in 1..HistoryLength |-> canonical']
    /\ open' = (rows # {})
    /\ UNCHANGED <<classPos, teacherPos, slice, savedSlice>>

\* Broken variant: the prediction is trusted.
ScoredChangeN1Predicted(l) ==
    /\ open /\ BlockSize[l] = 1 /\ Change(l)
    /\ LET p == CHOOSE r \in rows \ rows' : TRUE
           q == CHOOSE r \in rows' \ rows : TRUE
       IN  /\ Consent(Predicted(p, q))
           /\ slice' = Floor0(slice + SliceDelta(p, q))
           /\ Book({p}, {q})
           /\ canonical' = Predicted(p, q)
    /\ Tick
    /\ UNCHANGED savedSlice

\* One row: decided on the prediction, then priced in full.
ScoredChangeN1(l) ==
    /\ open /\ BlockSize[l] = 1 /\ Change(l)
    /\ LET p == CHOOSE r \in rows \ rows' : TRUE
           q == CHOOSE r \in rows' \ rows : TRUE
       IN  /\ Consent(Predicted(p, q))
           /\ slice' = Floor0(slice + SliceDelta(p, q))
           /\ Book({p}, {q})
    /\ canonical' = ScoreSolution(rows')
    /\ Tick
    /\ UNCHANGED savedSlice

\* Applied, priced in full, and taken back without consent.
Repriced ==
    /\ canonical' = ScoreSolution(rows')
    /\ Consent(canonical')
    /\ slice' = SliceCost(rows')
    /\ Book(rows \ rows', rows' \ rows)
    /\ Tick
    /\ UNCHANGED savedSlice

ScoredChangeBlock(l) == open /\ BlockSize[l] > 1 /\ Change(l) /\ Repriced

ScoredSwap(l, m) == open /\ Swap(l, m) /\ Repriced

\* Only the home-room axis moves; only the old entry of the list can consent.
ScoredHomeRoomRepair(l) ==
    /\ open /\ HomeRoomRepair(l)
    /\ canonical' = Floor0(canonical + HomeRoomTotal(rows' \ rows) - HomeRoomTotal(rows \ rows'))
    /\ canonical' <= Head(history)
    /\ Tick
    /\ UNCHANGED <<classPos, teacherPos, slice, savedSlice>>

\* The slice is not reduced by a ruin.
BookRuin ==
    /\ Book(attempt'.ruined, {})
    /\ savedSlice' = slice
    /\ UNCHANGED <<slice, canonical, promised, history, open>>

ScoredRescue(l) == open /\ Rescue(l) /\ BookRuin
ScoredRuin == open /\ Ruin /\ BookRuin

ScoredRebuildPlace(l) ==
    /\ RebuildPlace(l)
    /\ BookBlock(l)
    /\ UNCHANGED <<savedSlice, canonical, promised, history, open>>

ScoredRebuildMiss(l) == RebuildMiss(l) /\ UNCHANGED costVars

\* A rescue is kept at any price.
ScoredKeep ==
    /\ Keep
    /\ phase = "recreate" => Consent(ScoreSolution(rows))
    /\ canonical' = ScoreSolution(rows)
    /\ slice' = SliceCost(rows)
    /\ savedSlice' = 0
    /\ Tick
    /\ UNCHANGED <<classPos, teacherPos>>

ScoredUndo ==
    /\ Undo
    /\ phase = "recreate" => attempt.failed \/ ~Consent(ScoreSolution(rows))
    /\ Book(UNION attempt.added, attempt.ruined)
    /\ slice' = savedSlice
    /\ savedSlice' = 0
    /\ canonical' = canonical
    /\ IF phase = "recreate" THEN Tick ELSE UNCHANGED <<promised, history, open>>

\* An iteration that leaves the schedule alone: its move is impossible or not
\* accepted, or there is nothing to ruin.
Idle ==
    /\ open
    /\ \/ phase = "search" /\ UNCHANGED vars
       \/ NothingToRuin
    /\ UNCHANGED <<classPos, teacherPos, slice, savedSlice, canonical>>
    /\ Tick

ScoredFinish == Finish /\ UNCHANGED costVars

ScoredNext ==
    \/ \E l \in Lessons :
        \/ ScoredFfdPlace(l) \/ ScoredFfdMiss(l)
        \/ ScoredChangeN1(l) \/ ScoredChangeBlock(l) \/ ScoredHomeRoomRepair(l)
        \/ ScoredRescue(l) \/ ScoredRebuildPlace(l) \/ ScoredRebuildMiss(l)
    \/ \E l, m \in Lessons : ScoredSwap(l, m)
    \/ ScoredFfdEnd \/ ScoredRuin
    \/ ScoredKeep \/ ScoredUndo \/ Idle \/ ScoredFinish

ScoredSpec == ScoredInit /\ [][ScoredNext]_<<vars, costVars>>

-----------------------------------------------------------------------------
(* Properties.                                                              *)

\* class_positions and teacher_positions name exactly the hours of the
\* schedule at every moment, in the middle of a ruin and after its undo too;
\* gaps, day balance and travel time are all read from them.
PositionsMirrorRows ==
    phase # "done" => /\ classPos = ClassPositions(rows)
                      /\ teacherPos = TeacherPositions(rows)

\* "LAHC must keep state.canonical_score == score_solution(...) at every
\* iteration tail" (debug assertion of lahc::run), whichever path priced the
\* move.
CanonicalExact == phase = "search" => canonical = ScoreSolution(rows)

\* The running slice equals its recount when no move is half done, so that no
\* sum of deltas can take it below zero (debug assertion of
\* try_change_move_n1).  Schedules without pins: seeding leaves it at zero.
SliceExact ==
    phase = "search" /\ PinnedRows = {} => slice = SliceCost(rows)

\* Every shortcut gives what pricing the changed schedule gives: for any row
\* of a single-hour lesson and any free slot it could move to.
ShortcutsExact ==
    phase = "search" =>
      \A p \in rows, s \in Slots :
        LET q == [p EXCEPT !.slot = s]
            moved == (rows \ {p}) \cup {q}
            free == \A r \in rows : r.slot = s =>
                        /\ r.teacher # p.teacher
                        /\ ClassesOf[r.lesson] \cap ClassesOf[p.lesson] = {}
        IN  BlockSize[p.lesson] = 1 /\ free =>
              /\ SliceDelta(p, q) = SliceCost(moved) - SliceCost(rows)
              /\ BalanceDelta(p, q) = ClassDayBalance(moved) - ClassDayBalance(rows)

\* The score in the report of the returned schedule is the cost that the search
\* has minimised, and its units per axis add up to it, although the report
\* counts per class and per teacher what the search sums in one go.
ReportAddsUp ==
    phase = "done" =>
        /\ ReportedScore(rows) = ScoreSolution(rows)
        /\ SumFunction([a \in Axes |-> Weight[a] * Report(rows)[a]]) = ScoreSolution(rows)

\* A move is kept only when its schedule costs no more than the one it
\* replaces or than some schedule of the last iterations, rescues aside; only
\* the rota and the soft pins may spoil the prediction of a Change.
AcceptedIsNoDearer ==
    [][phase = "search" /\ phase' = "search" /\ rows' # rows =>
         ScoreSolution(rows') - Weight["supervision"] * SupervisionSpread(rows')
                              - Weight["softPin"] * SoftPinMisses(rows')
           <= Higher(canonical, Head(history))]_<<vars, costVars>>
=============================================================================
