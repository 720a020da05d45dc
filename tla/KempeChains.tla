----------------------------- MODULE KempeChains -----------------------------
(***************************************************************************)
(* Kempe-chain swaps in the local search (kempe_attempt and its helpers in  *)
(* solver-core/src/lahc.rs): a block and everything it would push out of    *)
(* its place on another day trade days, all of them or none.                *)
(*                                                                         *)
(* An attempt is one iteration of the search.  Its parts are steps here,    *)
(* so that the invariants also look at the schedule half way through.       *)
(***************************************************************************)
EXTENDS ScoredSearch

CONSTANT MaxChain   \* lahc_kempe_max_chain

ASSUME KempeAssumption == MaxChain \in Nat \ {0}

VARIABLE chain   \* the attempt under way

\* day: member -> the day it moves to; start: the position all windows start
\* at; todo: members to place again; ruined, added: rows; slice, cost: what the
\* running totals were; lessons: what the lesson counter was (for a property
\* only).
NoChain == [day |-> <<>>, start |-> 0, todo |-> {}, ruined |-> {}, added |-> {},
            slice |-> 0, cost |-> 0, lessons |-> SeedLessons]

Swapping == chain.ruined # {}

\* lesson_teacher_in_state
TeacherNow(l) ==
    IF LockedTeachers(l) # {} THEN CHOOSE t \in LockedTeachers(l) : TRUE ELSE Assigned(l)

Conflict(l, m) ==
    \/ TeacherNow(l) = TeacherNow(m)
    \/ ClassesOf[l] \cap ClassesOf[m] # {}

\* Who has a row, with a conflict, in the window that m moves to on day d.
InTheWay(m, d, start) ==
    {r.lesson : r \in {q \in rows : /\ q.slot \in Window(<<d, start>>, BlockSize[m])
                                    /\ Conflict(m, q.lesson)}}

\* The members up to distance i: those at distance i - 1, which move to day d,
\* push out who is not a member yet.
Wider(near, i, d, start) ==
    LET edge == {m \in DOMAIN near : near[m] = i - 1}
        fresh == (UNION {InTheWay(m, d, start) : m \in edge}) \ DOMAIN near
    IN  [m \in DOMAIN near \cup fresh |-> IF m \in fresh THEN i ELSE near[m]]

\* Breadth-first from the seed.  Members at even distance move to day dest, the
\* others to day src.
ChainFrom(seed, src, dest, start) ==
    LET day(i) == IF i % 2 = 0 THEN dest ELSE src
        grow[i \in 0..Cardinality(Lessons)] ==
            IF i = 0 THEN [m \in {seed} |-> 0]
                     ELSE Wider(grow[i - 1], i, day(i - 1), start)
        distance == grow[Cardinality(Lessons)]
    IN  [m \in DOMAIN distance |-> day(distance[m])]

\* Broken variant: only one block of the day is picked up.
CanSwapAnyHours(to, start, from) ==
    /\ Cardinality(DOMAIN to) <= MaxChain
    /\ \A m \in DOMAIN to :
        /\ m \notin Frozen
        /\ Window(<<to[m], start>>, BlockSize[m]) \subseteq Slots
        /\ \A k \in DOMAIN to : k # m /\ to[k] = to[m] => ~Conflict(k, m)

\* Broken variant: two members that conflict may move to one day.
CanSwapBlindly(to, start, from) ==
    /\ Cardinality(DOMAIN to) <= MaxChain
    /\ \A m \in DOMAIN to :
        /\ m \notin Frozen
        /\ Window(<<to[m], start>>, BlockSize[m]) \subseteq Slots
        /\ Cardinality(RowsOfOn(rows, m, from[m])) = BlockSize[m]

\* What aborts kempe_build_chain: too long, a pin, a missing time block, more
\* or less than one block on the day, a conflict inside one day.
CanSwap(to, start, from) ==
    /\ Cardinality(DOMAIN to) <= MaxChain
    /\ \A m \in DOMAIN to :
        /\ m \notin Frozen
        /\ Window(<<to[m], start>>, BlockSize[m]) \subseteq Slots
        /\ Cardinality(RowsOfOn(rows, m, from[m])) = BlockSize[m]
        /\ \A k \in DOMAIN to : k # m /\ to[k] = to[m] => ~Conflict(k, m)

-----------------------------------------------------------------------------
(* The running totals, from the positions that the search keeps.            *)

RunningSlice ==
      Weight["classGap"] * GapHours(classPos)
    + Weight["teacherGap"] * GapHours(teacherPos)
    + RowPreference(rows)

\* Broken variant: the day balance is forgotten.
RunningCostNoBalance ==
      RunningSlice
    + HomeRoomTotal(rows)
    + Weight["worstSpread"] * WorstClassSpread(rows)
    + Weight["worstGaps"] * WorstClassGaps(rows)

\* The axes a chain is priced on; the rota and the soft pins are not among them.
RunningCost ==
      RunningSlice
    + HomeRoomTotal(rows)
    + Weight["balance"] * SumFunction([c \in Classes |-> BalanceOf(classPos, c)])
    + Weight["worstSpread"] * WorstClassSpread(rows)
    + Weight["worstGaps"] * WorstClassGaps(rows)

-----------------------------------------------------------------------------
(* The steps of an attempt.                                                 *)

\* A seed: the first hour of one of l's blocks on src may trade with dest.
Seeds(l) ==
    {x \in rows \X Days :
        LET first == x[1]
        IN  /\ first.lesson = l
            /\ \E B \in Anchors : first \in B /\ \A r \in B : Pos(first.slot) <= Pos(r.slot)
            /\ x[2] # Day(first.slot)}

\* The members leave the days they are not moved to.
RowsLeaving(to, src, dest) ==
    UNION {RowsOfOn(rows, m, IF to[m] = dest THEN src ELSE dest) : m \in DOMAIN to}

KempeRuin(l) ==
    /\ phase = "search" /\ open /\ ~Swapping
    /\ \E x \in Seeds(l) :
        LET src == Day(x[1].slot)
            dest == x[2]
            start == Pos(x[1].slot)
            to == ChainFrom(l, src, dest, start)
            R == RowsLeaving(to, src, dest)
        IN  /\ CanSwap(to, start, [m \in DOMAIN to |-> IF to[m] = dest THEN src ELSE dest])
            /\ rows' = rows \ R
            /\ used' = Vacate(used, R)
            /\ tally' = FewerLessons(CountOut(tally, R), BlocksOf(R), 1)
            /\ Book(R, {})
            /\ chain' = [day |-> to, start |-> start,
                         todo |-> DOMAIN to, ruined |-> R, added |-> {},
                         slice |-> RunningSlice, cost |-> RunningCost,
                         lessons |-> tally.lessonsOn]
    /\ UNCHANGED <<phase, left, missed, best, attempt, slice, savedSlice, canonical,
                   promised, history, open>>

Target(l) == <<chain.day[l], chain.start>>

\* The members come back in the order of their ids.
Due(l) == l \in chain.todo /\ \A m \in chain.todo : LessonId[l] <= LessonId[m]

\* kempe_pick_room: the day's lock, else the old room, else any that fits.
KempeRooms(l) ==
    LET W == Window(Target(l), BlockSize[l])
        old == (CHOOSE r \in RowsOf(chain.ruined, l) : TRUE).room
        held == {tally.lockRoom[x] : x \in {k \in LockKeys(l, chain.day[l]) : tally.lock[k] > 0}}
        fits == {room \in Rooms : RoomFits(l, room, W)}
    IN  IF held # {} THEN {room \in fits : held = {room}}
        ELSE IF old \in fits THEN {old} ELSE fits

CanLand(l) ==
    /\ KempeRooms(l) # {}
    /\ UnderCaps(l, chain.day[l], BlockSize[l], 1)
    /\ TravelFits(l, Target(l), TeacherNow(l), {})

\* Teacher and classes are free because whoever was there is in the chain.
KempePlace(l) ==
    /\ Swapping /\ Due(l)
    /\ CanLand(l)
    /\ \E room \in KempeRooms(l) :
        LET B == Block(l, Target(l), room, TeacherNow(l))
        IN  /\ rows' = rows \cup B
            /\ used' = Occupy(used, B)
            /\ tally' = MoreLessons(CountIn(tally, B), {B}, 1)
            /\ Book({}, B)
            /\ chain' = [chain EXCEPT !.todo = @ \ {l}, !.added = @ \cup B]
    /\ UNCHANGED <<phase, left, missed, best, attempt, slice, savedSlice, canonical,
                   promised, history, open>>

Swapped == Swapping /\ chain.todo = {}
CostAfter == Floor0(canonical + RunningCost - chain.cost)

KempeKeep ==
    /\ Swapped
    /\ Consent(CostAfter)
    /\ EndIteration(rows)
    /\ slice' = Floor0(slice + RunningSlice - chain.slice)
    /\ canonical' = CostAfter
    /\ chain' = NoChain
    /\ UNCHANGED <<phase, rows, used, tally, left, missed, attempt, classPos, teacherPos,
                   savedSlice>>
    /\ Tick

\* Broken variant: the counter of the new days keeps the blocks.
KempeRecountKeepsDays == MoreLessons(Recount(tally, chain.added, chain.ruined),
                                     BlocksOf(chain.ruined), 1)

KempeRecount ==
    MoreLessons(FewerLessons(Recount(tally, chain.added, chain.ruined),
                             BlocksOf(chain.added), 1),
                BlocksOf(chain.ruined), 1)

\* Broken variant: only a refusal at the end is undone.
StuckOnlyAtEnd == Swapped /\ ~Consent(CostAfter)

\* A member finds no place, or the whole is not accepted.
Stuck == \/ Swapping /\ \E l \in chain.todo : Due(l) /\ ~CanLand(l)
         \/ Swapped /\ ~Consent(CostAfter)

\* kempe_rollback
KempeUndo ==
    /\ Stuck
    /\ rows' = (rows \ chain.added) \cup chain.ruined
    /\ used' = Occupy(Vacate(used, chain.added), chain.ruined)
    /\ tally' = KempeRecount
    /\ Book(chain.added, chain.ruined)
    /\ EndIteration(rows')
    /\ chain' = NoChain
    /\ UNCHANGED <<phase, left, missed, attempt, slice, savedSlice, canonical>>
    /\ Tick

KempeInit == ScoredInit /\ chain = NoChain

KempeNext ==
    \/ ~Swapping /\ ScoredNext /\ UNCHANGED chain
    \/ \E l \in Lessons : KempeRuin(l) \/ KempePlace(l)
    \/ KempeKeep \/ KempeUndo

allVars == <<vars, costVars, chain>>

\* The solver does not stop in the middle of an iteration, and the deadline
\* ends a search that has come back to the head of its loop often enough.
KempeSpec ==
    /\ KempeInit /\ [][KempeNext]_allVars
    /\ WF_allVars(KempeNext)
    /\ SF_allVars(~Swapping /\ ScoredFinish /\ UNCHANGED chain)

-----------------------------------------------------------------------------
(* Properties.                                                              *)

\* A chain that was swapped or taken back leaves every lesson with the hours
\* it had: no member is lost between the two days, and none is doubled.
ChainKeepsHours ==
    [][Swapping /\ ~Swapping' =>
         \A l \in Lessons :
            Cardinality(RowsOf(rows', l))
              = Cardinality(RowsOf((rows \ chain.added) \cup chain.ruined, l))]_allVars

\* After the attempt the lesson counter of each class and day is what it was,
\* plus the blocks that came and minus those that went when the swap is kept;
\* a rollback that forgot one side would use up the class's day for good.
ChainKeepsLessonCount ==
    [][Swapping /\ ~Swapping' =>
         \A x \in Classes \X Days :
            tally'.lessonsOn[x] =
              IF chain.ruined \subseteq rows' THEN chain.lessons[x]
              ELSE chain.lessons[x] + BlocksAt(BlocksOf(chain.added), x)
                                    - BlocksAt(BlocksOf(chain.ruined), x)]_allVars

\* The running totals are exact at the head of the loop, chains included, for
\* weights without rota and soft pins: the sum of a chain's partial deltas is
\* the difference of two full prices.
ChainPricedExactly ==
    phase = "search" /\ ~Swapping =>
        canonical = ScoreSolution(rows) /\ slice = SliceCost(rows)

\* No returned lesson is on a time block its teacher is blocked at
\* (TeacherBlockedTime "marks a teacher as unavailable in a specific time block",
\* types.rs): try_place_block, Change and Swap ask for it, the chain does not.
TeachersPresent == phase = "done" => \A r \in rows : <<r.teacher, r.slot>> \notin TeacherAway

\* Every solve returns: no attempt gets stuck half way.
Returns == <>(phase = "done")
=============================================================================
