# Klassenzeit: verification project

Klassenzeit makes school timetables. A Rust solver (`src/solver/solver-core`)
places lesson-hours on time blocks, rooms and teachers; a FastAPI backend
(`src/backend`) stores the data of several schools in PostgreSQL, runs the solver
for a request and persists its result; a React frontend (`src/frontend`) shows
it. This directory holds TLA+ models of that code, the TLC runs that check them
and the TLAPS proofs about them.

Run `tlc -config X.cfg MC….tla` for a run (`PROJECT.json` names the module of each
cfg) and `tlapm M.tla` for the proofs of a module. `PROJECT.json` lists runs, mutants, the source lines
behind every definition, findings, hazards and theorems.

## 1. Inventory

| Component | State | Operations | Hard about it | What makes it correct |
|---|---|---|---|---|
| Problem, validators (`types.rs`, `index.rs`, `validate.rs`) | the immutable `Problem`; a vector of placements | `validate_structural`, the post-solve validators | they are the only definition of a legal timetable; a failure is an error of the whole solve | – |
| Greedy construction (`solve.rs`, `ordering.rs`) | `GreedyState`: used sets, teacher hours, subject hours, lessons per day, room locks with reference counts, teacher locks, positions, running costs; placements; violations | pins seeded, FFD order, `try_place_block`, `try_place_group`, violation filter | a dozen incrementally kept maps, nothing recomputes them | maps equal the placements; caps; pins kept; every missing hour reported |
| Local search (`lahc.rs`) | the same state, running best, LAHC list | Change, block Change, Swap, home-room repair, ruin-and-recreate, rescue, Kempe chain, cancel | long sequences of moves, partial rebuilds and undo; may stop at any iteration | the state survives every move and undo; the result only improves |
| Kempe chains (`kempe_attempt`, `kempe_build_chain`, `kempe_rollback`) | as above | a breadth-first chain of lessons trades two days | member by member, rolled back half way | nobody loses an hour; prices and counters stay exact |
| Lesson groups (`try_place_group`, `rr_rescue_group_attempt`) | as above | members placed at one window | atomic placement of several lessons; exempt from the class clash check | all members or none |
| Travel buffer (`validate_travel_buffer`, `would_violate_travel_buffer`) | – | predicate before, validator after | two implementations of one rule, one of them on a half-changed schedule | they agree |
| Scoring, quality (`score.rs`, `quality.rs`) | `canonical_score`, `search_score_slice`, positions | full price, deltas per move, report | deltas must equal the difference of two full prices | they do; the report adds up |
| Supervision rota (`supervision.rs`) | – | greedy rota after the search, its spread an axis of the cost | – | – |
| Pin validation (`validate_pins`) | – | keeps complete, well-shaped hard pins, reports the others | order-dependent first-come slots | pins of whole lessons survive |
| Progress beacon and registry (`progress.rs`, `scheduling/progress.py`) | five atomics; a dictionary class → entry | record, snapshots, cancel; register, pop | solver thread and request handlers share it; two solves of a class | a cancel reaches its solve and ends it; no entry without a solve |
| Schedule requests (`routes/schedule.py`, `solver_io.py`) | `scheduled_lesson` rows | generate for a class or the school: read pins, solve for a minute, delete and insert | concurrent solves and edits at READ COMMITTED | persisted rows of all classes fit together; pins are not lost |
| Placement edits (`routes/placements.py`) | the same rows | move, swap, pin | interleaved with a solve | – |
| Sessions, users, login limiter, audit log (`auth/`) | users, sessions, failures per e-mail, append-only rows | login, logout, reset, roles, audit | checks separated from writes by awaits | not modelled |
| Reference data, seed, migrations, CLI, bench, frontend, deployment | – | CRUD, measurement, presentation | – | not modelled |

How they interact: a schedule request reads rows and pins, builds the problem
(`build_problem_json`), registers a beacon and runs the solver in a worker thread
through the Python binding; the solver publishes to the beacon every iteration and
reads its cancel flag; the handler persists what the solver returned. Progress and
cancel requests go through the registry. Edits and other solves write the same
table meanwhile.

## 2. Plan

Done: the solver core and its proofs; then, as further modules over the same
state, its costs, Kempe chains, lesson groups and the travel buffer; then the
service around it.

Left:

1. Proofs. `LessonCounterCovers` and `ReturnedRespectsClassCaps` for `LessonGroups`: the
   lemmas on `ClassInv` would have to be stated for rows that share slots.
2. Modelling. Nothing of the solver's or the service's control is left that
   another module would add; what stays out is listed under "Not modelled".

## 3. Modules

| Module | Models |
|---|---|
| `Timetable` | the problem as constants with `ProblemAssumption` (what `validate_structural` accepts), rows, the post-solve validators as predicates of a set of rows |
| `AnytimeTimetable` | abstract specification: build a sound schedule, replace it only by a better one, return it |
| `TimetableSearch` | one solver run: seeded pins, greedy pass, local search, rescue, ruin-and-recreate, undo, running best; scores are choices |
| `ScheduleScore` | what a schedule costs, the rota in it, the shortcuts that price a move, the quality report: pure operators |
| `ScoredSearch` | extends both: FFD order, what `try_place_block` prefers, late acceptance, and the cost kept move by move |
| `KempeChains` | extends `ScoredSearch`: Kempe chains, member by member |
| `LessonGroups` | extends `TimetableSearch`: group placement and group rescue |
| `ScheduleService` | extends `Timetable`: requests, registry, cancel, persistence, edits by hand, restart, around a solver that returns any schedule its validators accept |
| `MCTimetableSearch`, `MCScoredSearch`, `MCKempeChains`, `MCLessonGroups`, `MCScheduleService` | the small problems of the runs |
| `Timetable_proofs` | lemmas about rows, cardinalities and sub-schedules |
| `TimetableSearch_proofs` | type correctness of the search; what "the state mirrors the placements" means, and how each operation of the bookkeeping acts on it; the inductive invariant `Inv`, the safety theorems, the refinement of `AnytimeTimetable` |
| `SearchValidators_proofs` | how rows of a lesson tile into blocks; the second invariant `VInv`; what the validators accept; `ClassInv`, the class caps of one-hour blocks; `TravelInv`, travel time |
| `ScheduleScore_proofs` | sums over finite sets; the shortcuts of gap-hours; what changes the price of a schedule; the report adds up |
| `ScoredSearch_proofs` | `ScoredSearch` implements `TimetableSearch`; positions, slice and canonical cost are exact, shortcuts too; acceptance |
| `KempeChains_proofs` | the walk that collects a chain; the invariant of an attempt half way through; what a search with chains keeps, its prices included |
| `LessonGroups_proofs` | types, togetherness, shared slots, reported splits and rescues of groups |
| `ScheduleService_proofs` | the invariant of the service and its theorems |

Definitions marked "Broken variant" are what the definition after them would be with
a plausible bug; no specification uses them. They show, for each property, that
it can fail (`PROJECT.json`, "mutants").

### TimetableSearch and the code

| Variable | Code |
|---|---|
| `rows` | `solution.placements` / `placements`, as a set of rows |
| `used` | `used_teacher`, `used_class`, `used_room` |
| `tally` | `hours_by_teacher`, `subject_hours_by_class_day`, `locked_room` (count and room), `lessons_by_class_day`, `class_subject_teacher`; an absent map entry is 0 or "no lock" |
| `left`, `missed` | the loop counters of the FFD loop; violations per lesson |
| `best` | `best_placements` (with the lexicographic order `Better`) |
| `attempt` | snapshots, recreated rows and gate inputs of `rr_attempt` and `rr_rescue_attempt` |
| `phase` | the control point |

| Action | Code |
|---|---|
| `Init` | `seed_greedy_state_from_pins` on what `validate_pins` kept |
| `FfdPlace`, `FfdMiss`, `FfdEnd` | the FFD loop, `try_place_block`, start of `lahc::run` |
| `Change` | `try_change_move_n1`, `try_change_block_move` |
| `Swap` | `try_swap_move` |
| `HomeRoomRepair` | `try_home_room_repair_move`, both paths |
| `Rescue`, `Ruin`, `NothingToRuin` | the ruin phases of `rr_rescue_attempt` and `rr_attempt` |
| `RebuildPlace`, `RebuildMiss` | the recreate loops, one block per step |
| `Keep`, `Undo` | the gates, `rr_rollback` |
| `Finish` | leaving the loop: deadline, iteration limit, cancellation, early exit |

A local-search move is one step. A ruin with its rebuild is several, so that the
invariants speak of the half-ruined state too; nothing else runs in between, as
in the code. Every iteration ends with the comparison against the running best
(`EndIteration`), part of the step that ends it: more hours win, and of as many the
cheaper schedule. The code compares `canonical_score`, a price it keeps move by move.
`TimetableSearch` has no prices but `Score`, so its `Spec` adds to `Next` that the
comparison is by `Score` (`BestPriced`); `ScoredSearch` has the running cost and compares that
(`IsBetter`). Where both agree is proved (`ScoresOnlyChoose`, `ChainsAnytime`). `TravelFits` is
`would_violate_travel_buffer`; each move calls it as the code does, with what the
code lets it ignore.

Abstractions. Scores are not computed here: which feasible candidate wins in
`try_place_block`, which anchors are drawn, and whether LAHC accepts, are
nondeterministic choices, so the model has every schedule the code can reach with
any weights and any seed. `Score` stays a parameter because the running best
depends on it. A rejected move restores the state from its snapshot and is no step.
The vector's order is dropped: it decides only which rows are drawn.

Scope. Unqualified lessons (skipped by the greedy pass) are left out.
`SearchAssumption`: the surviving pins are free of conflicts by themselves;
otherwise every schedule fails the validators. A class has at most one lesson per
subject, which the backend guarantees with a 409 (`scheduling/routes/lessons.py`).
Counters are naturals; the code's are `u8` (see the hazard at `lahc.rs:2716`).

### ScheduleScore and ScoredSearch

`ScheduleScore` defines the price twice, as the code does: `ScoreSolution`
(`score_solution`, axis by axis over the whole schedule, with the rota of
`supervision.rs`) and the shortcuts of the hot path (`GapAfterInsert`,
`GapAfterRemove`, `PartitionDelta`, the balance formulas); and the report a third time
(`quality_report`). The sorted position vectors of the code are sets; sums do not
saturate.

Every action of `ScoredSearch` is the action of `TimetableSearch` conjoined with its
cost: `classPos`, `teacherPos` are `class_positions`, `teacher_positions`; `slice` is
`search_score_slice`, `savedSlice` the `pre_slice` of a ruin; `canonical` is
`canonical_score`; `promised` is `running_best`, the running cost the best was found
with; `history` is `lahc_list`, rotated so that the entry of the next
iteration is first; `open` says that the loop has not met its early exit. Here the
greedy pass takes lessons in FFD order (`InOrder`) and the cheapest, earliest offer
(`Chosen`, with the early end of the code's walk), a Change is decided on its
predicted price (`Predicted`) and then priced in full, a block Change and a Swap are
priced in full at once, a rescue is kept at any price. `Idle` is an iteration whose move was
impossible or not accepted: it pushes the cost into the list all the same.

### KempeChains

`chain` holds an attempt: the day each member moves to, members still to be placed,
rows taken out and put in. `KempeRuin` is `kempe_build_chain` (breadth-first,
`ChainFrom`, with its aborts in `CanSwap`) and the removal; `KempePlace` one member;
`KempeKeep` and `KempeUndo` acceptance and `kempe_rollback`. `RunningCost` is the sum of
axes the code compares before and after; the rota and the soft pins are not among
them. So `canonical` drifts from the price where these have weight, and the running best,
chosen by it as in the code, may get dearer; the debug assertion at the end of an iteration
(`lahc.rs:393-403`) does not hold there. `chains` gives them no weight. An attempt whose draw fits no chain is an `Idle` iteration.

### LessonGroups

`groupLeft` and `groupMissed` are the loop counter and the `LessonGroupSplit`
violations of a group, `target` the group being rescued, `pending` its blocks still to
be placed. `GroupPlace`, `GroupMiss` are `try_place_group` in the FFD loop;
`GroupRescue`, `GroupRebuild`, `GroupGiveUp`, `GroupKeep`, `GroupUndo` are
`rr_rescue_group_attempt`. Rooms and teachers are dealt to members one after the other
and never revised, so a window may be given up although another deal would fit
(`DeadEnd`, `GivesUp`). Members are `Frozen` for every other move.

### ScheduleService

| Variable | Code |
|---|---|
| `stored` | table `scheduled_lessons`, a row with its `pin_kind` |
| `rota` | `supervision_assignments` has rows |
| `request` | the handler of a POST: what it has read, what the solver returned, which rows its DELETE has taken and for which transactions it waits |
| `registry`, `cancelled` | `app.state.solver_progress`; cancel flags of the handles |
| `edits`, `serial` | bound on edits; a history flag used by a property |

| Action | Code |
|---|---|
| `StartClass`, `StartWholeSchool` | pins are read (`collect_pinned_placements`, `collect_own_class_pins`), the handle registered |
| `Return`, `Crash` | the worker thread ends: a schedule that keeps what `validate_pins` lets through (`Bound`), or an error |
| `Unregister` | the exit of `register_progress`, by normal or exceptional end |
| `Delete`, `Commit`, `Rollback` | the persist functions at READ COMMITTED: DELETE takes committed rows and waits for transactions that hold some of them; a key of a row that is still there, or a break with a supervisor, ends in an IntegrityError |
| `Cancel` | `cancel_schedule` answered with 204 |
| `Move`, `Pin`, `SwapPlacements` | `routes/placements.py` |
| `Restart` | the process ends; the registry is memory |

`Kept` has the timetables a run may begin with: rows and pins that earlier requests and the user
have left, whole lessons that the validators accept (`KeptAssumption`), with or without a rota.

`Delete` joins the read of the pinned keys with the DELETE itself; an edit between the
two is not modelled. A transaction that waits sees neither the rows that the other one
has inserted nor those it has taken. The solver is a black box here: its own
model is `TimetableSearch`, and what it returns is what passes the validators
(`Passes`).

## 4. Runs

| Run | Instance | Shows |
|---|---|---|
| `singles` | 4 one-hour-block lessons (5 hours, one pinned), 2 classes with a shared lesson, 2 teachers, 2 rooms, 3 slots on 2 days; one block per ruin | no double booking at any step, used sets and counters equal a recount, teacher locks, pins, teacher maximum, class caps on return, `KeepsPromise` |
| `doubles` | a double lesson that needs travel time before it but in the first hour, and two single hours, 5 slots on 2 days, 2 teachers, one away once, 2 rooms, two blocks per ruin | types, counters with multi-holder locks, what is returned passes the validators, travel time included, an accepted ruin-and-recreate restores the hours |
| `scored` | a double and two lessons of two hours for 2 classes, 6 slots and breaks on 2 days, teacher's choice, class teacher, soft pin, closed room, 11 of 13 weights positive, acceptance list of 2 | positions, slice and canonical cost equal a recount, shortcuts are exact for every row and free slot, the report adds up, acceptance |
| `chains` | a double of both classes, two hours and one hour with one teacher, 2 days of 3 hours, chains of up to 3 | half-way states are conflict-free, an attempt loses no hour and leaves exact counters and prices, every solve returns |
| `groups` | a group of two lessons of two classes, two hours, beside two single hours; 5 slots, a teacher away, class cap 3 | members stay together, only they share slots, exact state, split groups are reported, a group rescue gains or restores |
| `service` | 2 classes, an hour of c1 and an hour of both, one day of 2 slots; nothing stored, or both stored and one pinned hard, with and without a rota; 2 requests, 1 edit | registry, cancel, pins, serial schedules |
| `cap_drift` | a double and three single lessons, at most two a day | **violation**: the class cap |
| `rescue_loss` | two lessons of two single hours in three slots | **violation**: an accepted rescue gains nothing |
| `unreported` | the same | **violation**: a missing hour without a violation |
| `swap_buffer` | two single hours, one with travel time behind it, on a day of three hours | **violation**: a Swap breaks travel time |
| `kempe_absence` | as `chains`, the teacher away in one hour | **violation**: a chain puts a lesson there |
| `sibling_drift` | an hour of c1, two of c2, one teacher, 3 slots | **violation**: a partly stored sibling lesson binds nobody |

The instances are small, but every action fires and the interesting cases occur:
more hours than slots (so greedy misses, rescues and failed rebuilds happen), a
lesson of two classes (so locks of several keys), a pin in the way, two teachers
for one lesson (so the teacher lock is chosen, forgotten and chosen again), a
room only one subject fits, a chain whose members conflict and one that gets stuck
because a room or a cap is taken. Ruins are switched
off in `chains` (`RuinSize = 0`), whose subject is the chain between the other moves.
No symmetry is used: lessons and rooms differ.

In `service` rows and a pin may be there before the first request. Then both requests read the pin
at the same time, delete the same rows and rota, wait for each other (a cancelled one among them), and
collide with a row or a rota that the other has put there; the edit falls before, between
and after their steps, on the pinned row too. From an empty table alone, one request would have to be
over before there is anything to wait for or a pin to read. Lessons of several hours are in `sibling_drift`
only: a pin that does not cover its lesson binds nobody, so `PinsSurvive` is not about it.

Bounds: `RuinSize` (`lahc_rr_k`), `MaxChain` (`lahc_kempe_max_chain`),
`HistoryLength` (`LAHC_LIST_LEN`, 500 in the code; two entries already separate "now" from
"then"), `EditLimit`. Everything else is finite because the problem is. `CHECK_DEADLOCK FALSE`
everywhere because a solver stops in phase "done" and requests come to an end.

### Fairness and liveness

* `Returns` (every solve returns), under `KempeSpec`: weak fairness of the next step,
  because the solver is a sequential loop that does not stop in the middle of an
  iteration, and strong fairness of `Finish` at the head of the loop, because the deadline
  or the iteration limit ends a search that has come back there often enough. What it shows
  is that no attempt gets stuck half way.
* `CancelEndsRequest`, under `ServiceSpec`: weak fairness of a *cancelled* search's end (the
  cancel flag is read in every iteration; nothing is assumed of a search that was not
  cancelled, as the deadline is a setting), of `Unregister` and of the transaction (event
  loop and database go on). It shows that waiting for each other's rows and rota ends, and that
  a request never waits for a *solve* of another, whose deadline may be far away: the mutant keeps
  the rows that a request has read locked while it solves.
  CP-SAT, the alternative back end, ignores the flag and is not covered.
* The other specifications state no fairness and have only safety properties.

### Findings

* `cap_drift`: `try_change_block_move` moves `lessons_by_class_day` by the block
  size (`lahc.rs:1224-1249`) though `try_place_block` counted the block once. The
  old day's counter falls below the truth and a later placement exceeds
  `max_lessons_per_day`; `validate_daily_caps` then fails the whole solve.
* `rescue_loss`: `rr_rescue_attempt` ruins all rows a sibling lesson has on a day
  and recreates one block; its comment promises a net gain of at least one.
* `unreported`: the hour lost that way is in no violation, because violations are
  only emitted by the greedy pass.
* `swap_buffer`: `try_swap_move` checks the travel time of each lesson against the
  schedule before the swap; adjacent lessons may trade places and leave one without
  it, and the validator fails the solve.
* `kempe_absence`: `kempe_attempt` does not ask for `teacher_blocked`, and no validator does.
* `sibling_drift`: rows of a partly placed lesson of another class are rejected as pins, so
  a class's solve may use their teacher and room although the comment says they are fixed.

Further disagreements met while modelling, for which no run exists, are among the hazards of
`PROJECT.json` with a note: a kept Kempe chain does not price the rota and the soft pins,
seeding from pins leaves the slice at zero, a group with one pinned member places
that member a second time, soft pins become hard on a re-solve, partial hard pins are dropped, a
whole-school persist leaves rows of wholly unplaced lessons.

## Not modelled

* Sessions, login, rate limiter, user administration, audit log: single-row checks in
  a transaction each, apart from timetabling.
* Reference-data routes, seed, migrations, CLI, deployment, frontend, the bench and CP-SAT:
  no protocol of their own, or not part of the service.
* Inside modelled parts: random draws (choices), the progress numbers of the beacon, wording
  of reports and violations, `PinnedConflict`s, lessons without a qualified teacher, Kempe chains in
  schedules with groups (members are never in a chain), overflow of `u8` and saturation of `u32`, the payload of a solve.

## 5. Proofs

Assumptions on the constants: `ProblemAssumption` (what `validate_structural`
accepts) and `SearchAssumption` (the pins pass the validators by themselves:
otherwise every schedule fails); `KeptAssumption` (what is stored at first is whole and valid); `WeightAssumption` (weights and wishes are naturals, breaks
and soft pins are finitely many). TLC evaluates each on every run of its module. `Score` is an
arbitrary operator, so the theorems hold for any weights. What one theorem needs
beyond that is its own hypothesis, named below.

| Theorem | Says |
|---|---|
| `TypeCorrect` | `Spec => []TypeOK` |
| `Invariance`, `PassingInvariance` | `Spec => []Inv`, `Spec => [](Inv /\ VInv)` |
| `NoConflicts`, `UsedExact`, `CountersExact`, `LocksKept`, `PinsKeptAlways` | `NeverDoubleBooked`, `UsedMirrorsRows`, `CountersMirrorRows`, `TeacherLocksHold`, `PinsNeverMove` |
| `Anytime` | `Spec => Promise!Spec`: the search implements `AnytimeTimetable`, where it chooses its best by `Score` |
| `TeachersKeepTheirHours`, `RecreateLosesNothing`, `ReturnedAccepted` | `TeacherHoursCapped`, `RecreateRestoresHours`, `ReturnedPassesValidators` |
| `ClassInvariance` | `Spec => [](Inv /\ ClassInv)`, where every block is one hour |
| `CounterCoversSingles`, `ClassCapsKeptSingles` | `LessonCounterCovers`, `ReturnedRespectsClassCaps`, where every block is one hour (and, for the second, the pins keep the caps) |
| `TravelTimeKept` | `ReturnedKeepsTravelTime`, where no single hour that needs travel time can be swapped and the pins keep it |
| `ScoresOnlyChoose` | `ScoredSpec => Spec`, where `Score` is the price of a schedule (`ScoreIsPrice`) |
| `ScoredInvariance` | `[](Inv /\ VInv)` of the scored search, whatever `Score` is |
| `PositionsExact` | `PositionsMirrorRows` |
| `CanonicalAlwaysExact`, `SliceAlwaysExact` | `CanonicalExact`, `SliceExact`: the running costs are those of the placements |
| `ShortcutsAlwaysExact` | `ShortcutsExact`: what a shortcut predicts is the difference of two full prices |
| `AcceptanceBounded` | `AcceptedIsNoDearer`, an action property |
| `ReportAlwaysAddsUp` | `ReportAddsUp` |
| `KempeInvariance` | `KempeSpec => []KempeInv` |
| `ChainsNoConflicts`, `ChainsUsedExact`, `ChainsCountersExact`, `ChainsPositionsExact`, `ChainsKeepPinsAndTeachers` | `NeverDoubleBooked`, `UsedMirrorsRows`, `CountersMirrorRows`, `PositionsMirrorRows`, `PinsNeverMove` and `TeacherLocksHold`, of a search with chains, half-way states included |
| `ChainsKeepHours`, `ChainsKeepTeachersHours`, `ChainsReturnAccepted` | `ChainKeepsHours`, `TeacherHoursCapped`, `ReturnedPassesValidators`, of a search with chains |
| `ChainsAnytime` | `KeepsPromise` of a search with chains, where rota and soft pins weigh nothing and `Score` is the price |
| `ChainsKeepLessonCount`, `ChainsKeepClassCaps` | `ChainKeepsLessonCount` (an action property); `LessonCounterCovers` and `ReturnedRespectsClassCaps` of a search with chains; where every block is one hour (and, for the last, the pins keep the caps) |
| `ChainsCostExact`, `ChainsPricedExactly` | `CanonicalExact` when no attempt is under way, where rota and soft pins weigh nothing; `ChainPricedExactly`, where there are no pins besides |
| `GroupTypeCorrect`, `GroupsTogether`, `SplitsReported` | `GroupTypeOK`, `GroupsStayTogether`, `SplitGroupsReported` |
| `OnlyGroupsShare`, `GroupUsedExact`, `GroupRescueGains` | `OnlyGroupsShareSlots`, `UsedMirrorsRows`, `GroupRescueGainsOrRestores`, of a search with groups |
| `GroupCountersExact` | `CountersMirrorRows` of a search with groups, where no two lessons of a group give one class the same subject |
| `ServiceInvariance` | `ServiceSpec => []ServiceInv` |
| `EntriesAlive`, `SerialAccepted`, `PinsSurviveAlways` | `NoDeadEntry`, `SerialSchedulesPass`, `PinsSurvive` |
| `WholeSiblingsStayFixed` | where the promise refuted by `sibling_drift` does hold |

### The search

None of the search's properties is inductive, because no move looks at the placements:
it trusts the used sets, counters and locks, and an undo trusts what the attempt
remembered. `Inv` therefore joins

* `Orderly(rows)`: no conflict, and one room per class, day and subject. The
  second part is there for the mirror: a room lock has one room, so it can be
  right only if the rows of its triple agree;
* `Mirrored(rows, used, tally)`: used sets, hours, subject hours, room locks and
  teacher locks are those of the rows. With it the guards of a move say what they
  mean about the rows;
* `Rebuildable`, while rebuilding: the ruined rows, put back in place of the
  rebuilt ones (`Base`), give an orderly schedule for which the remembered teacher
  locks are right. It is set up by the ruin, unchanged by each rebuilt block, and
  is exactly what `Undo` needs;
* `PinsIn`, for `rows` and for the running best, with `left[l] = 0` for pinned
  lessons, so the greedy loop never places one.

`TimetableSearch_proofs` proves once what the bookkeeping does: vacating the keys of
some rows leaves the keys of the others *because* no two rows share one
(`VacateMirror`); counting out what was counted in gives back the count, in spite
of the saturating subtraction (`CountOutMirror`); a placed, replaced, ruined or
re-roomed set of rows stays mirrored (`PlaceKeeps`, `ReplaceKeeps`,
`TakeOutKeeps`, `RelockedCounted`). Then each action has
its lemma. The delicate ones: `ChangeRoomShared` (a Change may ignore a room lock
only when the count says that the moved rows alone hold it, which is a counting
argument about the whole block) and `SwapSide` (the overlay checks of one side of
a swap keep the arriving row off everyone else).

`VInv` is the second half: `Passing` for every schedule the search is in (`rows`),
has as its best, or may fall back to (`Base`). `Passing` says: no lesson has more
than its hours, its days are tiled by whole blocks, and subject caps, teacher hours and
one teacher per class and subject are kept. Around it:

* `Fits`: what a lesson has placed and what is still to do fit into its hours, in the
  greedy pass and in a rebuild. Without it a rebuild could place a lesson twice;
* `NothingLost`: in a ruin-and-recreate that has not failed, the rows put back and those
  of the blocks still to do are as many as the rows ruined. `RecreateRestoresHours` is
  this with nothing left to do;
* `LocksLive`: a teacher is locked only for a class and subject that has a row, in the
  schedule an undo restores as well. A fresh lock is given only to a teacher with room
  for the whole lesson (`HoursRequired`).

The block shape needs a small theory of tilings. `validate_block_shape` cuts the rows of a
lesson on a day into chunks of the block size, wherever the blocks began; `Tiling`
says that the day is made of blocks that start at the positions `T`, so before any
position outside a block there is a whole number of blocks. Adding a block or taking one
out keeps that, also where two blocks touch.

`ReturnedAccepted` assumes `Unambiguous`: one lesson per class and subject (the
backend's 409), and a pinned teacher is a candidate. The second is not guaranteed by the
backend (see the hazard at `solver_io.py:207`), and the theorem is where it is needed.

`ClassInv` is about `lessons_by_class_day`, which `Mirrored` leaves out because the code
does not keep it exact. For one-hour blocks (`OneHourBlocks`) it is never too low:

* `HoursCovered`: the counter of a class and day is at least the hours it attends;
* `ClassHours`: on a day with more than pins a class is within its cap. The pins are not
  checked against it (`validate_pins` does not), hence the hypothesis of `ClassCapsKeptSingles`;
  it is asked of `rows`, of the best and of `Base`;
* `Restores`, while rebuilding: the hours of `Base` and the lessons an undo would
  discount are together at most the counter and the lessons it would count back in. A ruin
  takes at least as many hours as it discounts lessons (adjacent hours are one
  lesson to it), and a rebuilt hour is counted whether or not the undo discounts it.

The hypothesis is needed: a Change of a double moves the counter by two where placing it
had moved it by one, and `cap_drift` shows the cap broken by that.

`TravelInv` is about travel time: `TravelKept`, asked of `rows`, of the best and of `Base`, is more than the
validator asks. The validator looks at the first row of a lesson's day; when that hour moves away, another
one is first. So every single hour has its travel time, and of longer blocks the first of the day, since a
Change or a ruin takes those away by whole days (`LeftTravel`, `RuinedTravel`). A placed block is checked in both
directions (`Welcomes`): what it needs, and whose travel time it would take. `NoBufferedSwap`, the hypothesis, is
about the constants: the lessons with travel time have blocks of several hours, as swimming in a double
hour, or nothing to be swapped with. Without it the property is false (`swap_buffer`).

### The scored search

`ScoredSearch` conjoins each action with its costs, so each of its steps is a `Next` step of
`TimetableSearch` or leaves its variables alone (`ScoredStep`): FFD order, preferences,
prices and acceptance only restrict the choices, and the invariants, which do not look at how the
best is chosen, carry over. What is added:

* `PosInv`: the position lists are those of the rows. It leans on `Inv`: no class
  and no teacher has two rows in a slot, so giving up the position of one row does not
  give up another's;
* `CanonInv`: the canonical cost is the price of the rows and, while rebuilding, of `Base`,
  because a rebuild does not touch it and an undo keeps it. Most moves price in full; the
  home-room repair adds the change of its own rows, which is exact because no other axis
  looks at rooms (`SameCostBesideRooms`);
* `SliceInv`, where there are no pins: the slice is that of the rows, and `savedSlice` that of
  `Base`. Each move adds its deltas, and `Inv` says that the hours it inserts were free
  and those it removes were held;
* `PromisedInv`: `promised` is the price of the best. With `CanonInv` it says that the comparison of running
  costs is the one of `Score` (`TailPriced`), which is what `ScoresOnlyChoose` needs beyond `ScoredStep`;
* `HistoryInv`: the acceptance list is never empty and holds naturals. `AcceptanceBounded`
  needs it, `CanonInv`, and that the prediction of a Change is exact but for rota and soft pins.

`ScheduleScore_proofs` has what they rest on. The price is a sum of sums over finite sets,
and the laws of sums (`SumRules`, `SumChange`, `SumReindex`, `SumPairs`, `SumCrossed`) are proved
there without induction over data: where a law fails, it fails for a smallest set
(`SmallestSet`), and one element less gives the contradiction. The shortcuts of gap-hours are facts
about least and greatest elements of finite sets of hours: `InsertExact`, `RemoveExact`, `SwapExact`,
`WindowExact`. `ReportExact` compares the report with the price axis by axis: rooms class by class
(`RoomsAddUp`), gaps day by day (`GapsAddUp`), period wishes subject by subject (`PeriodsAddUp`).

### Kempe chains

`kempe_attempt` asks for a room, the subject caps and the travel time when a member lands, and for
nothing else: that its teacher and classes are free is left to the way the chain was built.
The other moves are those of the scored search and keep `Inv` and `VInv` (`MoveKempeInv`); within an attempt
`KempeInv` has `Inv`, of which nothing is lost half way, and `UnderWay`:

* `ClearWay`: no row that stays and conflicts with a member is in the member's way, and no
  two members of one day conflict. The first is the closure of the walk (`ChainClosed`): a
  walk of as many rounds as there are lessons has stopped growing, because each round that adds
  someone adds at least one, so whoever is in the way of a member is a member (`Walked`, by
  the least round at which it fails; `FirstOf`). Conflicts are judged by the teacher lock, which is the
  teacher of the rows (`TeacherIsRows`) and does not move during the attempt;
* `ChainRows`: a member leaves with exactly one block, and the rows of the members that have landed
  match those they gave up, lesson by lesson and teacher by teacher (`SameHours`). So a swap that
  has landed everybody has the hours it began with, and keeps `Passing` (`SwappedPassing`);
* `SoundBefore`: the rows that stay with those taken out are an orderly schedule that passes and whose teacher
  locks are right, which is all a rollback needs (`RecountKeeps`, `UndoKempeInv`).

The theorems follow as they do for the search; `ChainsKeepHours` is an action property and needs besides that
an attempt ends by `KempeKeep` or `KempeUndo` only (`AttemptEndsBy`).

`PriceInv` is about prices: with no attempt under way it is `SliceInv` and `CanonInv`; during one, the totals
and what the attempt remembers are the prices of the schedule it began with (`Before`). A kept chain adds the
difference of two running sums (`ChainCost`), which leave out class-teacher misses, the rota and the
soft pins. The first are the same before and after, because every lesson keeps its hours and teachers
(`SameTeachersMiss`); the other two are not, which is a hazard of the code and here the hypothesis `NoRota`: they
weigh nothing. With it `PromisedInv` is kept too, and the running best only improves (`ChainsAnytime`). The slice is exact where there are no pins, as for the scored search.

`LessonInv` is about `lessons_by_class_day`, where every block is one hour: `ClassInv`, and during an attempt
`Tracked`: a member has one row that is out and at most one that has landed (`Lone`), so blocks are
hours (`LoneBlocks`), and the counter is what it was, less the hours out, plus those landed. The
counter covers the hours of the day at every moment (`HoursCovered`), which is why no discount of a ruin or a
rollback meets zero, and a landing that finds room by the counter finds room by the hours. Where a longer block was
moved before, the counter may be too low for that (`cap_drift`), hence the hypothesis.

### Groups

Members of a group share slots, so `Inv` does not hold of `GroupSpec` and its results
have invariants of their own.

* `TurnsInv`: a rescue or ruin of a single lesson never holds a row of a group, and no
  single lesson is placed again while a group is out. Single-lesson moves leave `Frozen`
  lessons alone (`SingleTurns`).
* `TogetherInv`: the members agree on their slots in `rows`, in `best` and in what a
  group rescue has set aside; `GroupPlace` commits all members at once. Hypothesis: the
  pins have the members together.
* `SplitInv`: no member has two rows in one slot (`OwnSlots`). In the greedy pass, hours
  placed, to come and missed are the hours of the lesson (`HoursMade`), and the used
  sets cover the group's rows (`Covered`), which is why the next block finds other slots.
  Afterwards a group that was not reported has all its hours, in `rows` and in `best`; only
  a reported group is ever the target of a rescue, whose rows are then those just rebuilt.
  Hypothesis: pinned lessons have all their hours, which `validate_pins` enforces
  (`pins.len() != hours`).
* `SharedInv`: `Parallel(rows)`, the property itself, with as much of `Mirrored` as survives
  shared slots (`Kept`). The used sets are exact: a vacated key is held by no other row,
  because single rows share with nobody (`SinglesApart`) and a group leaves as a whole
  (`GroupApart`). The counters are a recount of all rows (`Recounted`), but a lock is in the
  right room only for firm ones (`Firm`): two members that give one class the same subject
  may be in different rooms, and the lock they share keeps the first one. No check of
  `validate_structural` excludes such members, so `GroupCountersExact` says so in its
  hypothesis. The proof of the rest does not need it: only single lessons are moved, and
  their rows, all firm, are in the room of their lock. The teacher locks, too, are right for
  single lessons only. `Restorable` is what an undo needs: the rows that stayed clash with none of
  those placed again, they and the ruined rows are parallel, and the locks that rows still
  hold have not moved (`Welcome`, kept up by `SameLocks`). It takes no hypothesis on the pins.
* `GainInv`: while a group is out, each member has the blocks placed again and nothing of another
  lesson was taken out. The gate of a group rescue compares, per member, the blocks placed with the
  rows before; that this makes the whole schedule larger (`MoreOfEach`) is an injection put
  together from one injection per member.

As `SearchAssumption` has pins without a shared slot, the instances these theorems cover are those in
which groups with a common class are not pinned.

### The service

`ServiceInv` joins types and `NoDeadEntry` with, for every request,

* `Answered`: what the solver returned passes the validators and holds the pins it was bound to;
* `OwnKept`: the pins a class request has read as its own are of lessons the class attends,
  those of shared lessons were read among the siblings too, and once it persists their keys
  are among those that become hard;
* `UpToDate`: as long as nobody else has stored anything, what the request has read and
  deleted is what it would read and delete now;

and `StoredWhole`: while requests did not overlap (`serial`), the stored timetable passes the
validators and has every lesson wholly or not at all. A class request stores one part of its
solution and leaves the rest, so the argument rests on sub-schedules: what a validator
accepts, it accepts of the rows of some of the lessons (`SomeLessons` and the `Part…` lemmas of
`Timetable_proofs`); and whole lessons survive `validate_pins`, so a class was solved
around all that stays.

### Only model-checked

* nothing of `ReturnedKeepsTravelTime` beyond `TravelTimeKept`: single hours that need travel time and are swapped
  may lose it (`swap_buffer`);
* `LessonCounterCovers` and `ReturnedRespectsClassCaps` of a search with groups (they are
  proved without);
* `ChainKeepsLessonCount` with blocks of several hours, as in `chains`: there the counter may have drifted, and
  a discount that meets zero loses what it cannot subtract;
* liveness, ENABLED. Modules with theorems reach no RECURSIVE operator.
