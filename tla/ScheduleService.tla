---------------------------- MODULE ScheduleService ----------------------------
(***************************************************************************)
(* The backend around the solver: requests that generate a timetable, for  *)
(* one class or for the whole school, the registry through which a running *)
(* solve is cancelled, and the stored timetable that all of them and the   *)
(* edits by hand share (backend scheduling/routes/schedule.py,             *)
(* routes/placements.py, solver_io.py, progress.py, and validate_pins of   *)
(* solver-core/src/solve.rs).                                              *)
(*                                                                         *)
(* A request reads the stored timetable, waits for the solver without      *)
(* holding a lock, and replaces rows in the same transaction.  PostgreSQL  *)
(* runs at READ COMMITTED: a DELETE takes the rows that are committed when *)
(* it starts, waits for a transaction that has taken some of them, and     *)
(* never sees the rows which that one puts in their place.                 *)
(*                                                                         *)
(* One school.  The reads of a request are one step, and so are the delete *)
(* of its rows and of the supervision rota.  An edit by hand of a row that *)
(* is just being replaced is not modelled.  What the solver returns for a  *)
(* set of pins is any schedule that its validators accept.                 *)
(***************************************************************************)
EXTENDS Timetable

CONSTANTS
    Requests,     \* POSTs that generate a schedule
    WholeSchool,  \* the scope of POST /schedule/all
    Nobody,
    Kept,         \* timetables that earlier requests and pins may have left
    EditLimit     \* bound: edits by hand

ASSUME ServiceAssumption ==
    /\ Nobody \notin Requests
    /\ WholeSchool \notin Classes
    /\ EditLimit \in Nat

VARIABLES
    stored,    \* scheduled_lessons: rows with a pin_kind
    rota,      \* supervision_assignments has rows
    request,   \* request -> what it is doing
    registry,  \* app.state.solver_progress: class -> request, or Nobody
    cancelled, \* requests whose ProgressHandle has been cancelled
    edits,     \* edits so far
    serial     \* every change so far was a complete schedule computed from
               \* what was stored when it was stored

serviceVars == <<stored, rota, request, registry, cancelled, edits, serial>>

PinKinds == {"hard", "soft", "none"}

StoredRow == [lesson: Lessons, slot: Slots, room: Rooms, teacher: Teachers, pin: PinKinds]

\* siblings, own: the pins read; fixed: rows the solver must keep; solution:
\* what it returned; victims: rows the DELETE has taken; waits: requests whose
\* transaction it waits for; rotaTaken: another rota was committed since;
\* fresh: nothing was stored since the pins were read.
Idle == [stage |-> "new", scope |-> WholeSchool, siblings |-> {}, own |-> {}, fixed |-> {},
         solution |-> {}, victims |-> {}, waits |-> {}, keys |-> {}, rotaTaken |-> FALSE,
         fresh |-> TRUE]

Key(r) == <<r.lesson, r.slot>>
Keys(R) == {Key(r) : r \in R}
Plain(r) == [lesson |-> r.lesson, slot |-> r.slot, room |-> r.room, teacher |-> r.teacher]
Schedule(R) == {Plain(r) : r \in R}
Pinning(R) == {r \in R : r.pin # "none"}
Attends(c, r) == c \in ClassesOf[r.lesson]

Over == {"answered", "failed"}
Ended(stage) == [Idle EXCEPT !.stage = stage]
Persisting(k) == request[k].stage = "persisting"
Solving(k) == request[k].stage \in {"solving", "returned", "crashed"}

-----------------------------------------------------------------------------
(* validate_pins                                                            *)

\* One pin per slot and room; of several, the first in the list, which has
\* the sibling rows first.
Undoubled(first, second) ==
    LET place(r) == <<r.slot, r.room>>
        places(R) == {place(r) : r \in R}
        unique(R) == \A r, q \in R : place(r) = place(q) => r = q
    IN  {P \in SUBSET (first \cup second) :
            /\ unique(P)
            /\ places(P) = places(first \cup second)
            /\ places(P \cap first) = places(first)}

\* A lesson is pinned with all its hours, in whole blocks, or not at all.
WholeLessons(P) ==
    {r \in P : LET own == RowsOf(P, r.lesson)
               IN  Cardinality(own) = Hours[r.lesson] /\ BlockShape(own)}

\* Only hard pins bind the solver; sibling rows are sent as hard pins.
Bound(k) ==
    LET hard == {r \in request[k].own : r.pin = "hard"}
    IN  {WholeLessons(P) : P \in Undoubled(Schedule(request[k].siblings), Schedule(hard))}

-----------------------------------------------------------------------------
(* What the solver returns: see AnytimeTimetable and the validators.        *)

Passes(R) ==
    /\ NoDoubleBooking(R) /\ LessonCardinality(R) /\ BlockShape(R)
    /\ NoRoomHopping(R) /\ SubjectCaps(R) /\ ClassCaps(R)
    /\ TeachersAllowed(R) /\ OneTeacherPerClassSubject(R) /\ TravelBuffers(R)

Passing == {R \in SUBSET {r \in Row : r.teacher \in Candidates[r.lesson]} : Passes(R)}

Solutions(fixed) ==
    {R \in Passing : \A r \in fixed : RowsOf(R, r.lesson) = RowsOf(fixed, r.lesson)}

Complete(R) == Underplaced(R) = {}

Whole(R) ==
    \A l \in Lessons : RowsOf(R, l) = {} \/ Cardinality(RowsOf(R, l)) = Hours[l]

ASSUME KeptAssumption ==
    \A T \in Kept : T \subseteq StoredRow /\ Passes(Schedule(T)) /\ Whole(Schedule(T))

-----------------------------------------------------------------------------
(* A generating request.                                                    *)

\* Broken variant: only what the user has pinned is taken into account.
SiblingRowsPinned(c) == {r \in Pinning(stored) : ClassesOf[r.lesson] \ {c} # {}}

\* Rows of lessons that any other class attends, pinned or not.
SiblingRows(c) == {r \in stored : ClassesOf[r.lesson] \ {c} # {}}

OwnPins(c) == {r \in Pinning(stored) : Attends(c, r)}

\* The pins are read and the progress entry registered; an entry of a solve
\* for the same class is overwritten.
StartClass(k, c) ==
    /\ request[k].stage = "new"
    /\ request' = [request EXCEPT ![k] =
            [Idle EXCEPT !.stage = "solving", !.scope = c,
                         !.siblings = SiblingRows(c), !.own = OwnPins(c)]]
    /\ registry' = [registry EXCEPT ![c] = k]
    /\ UNCHANGED <<stored, rota, cancelled, edits, serial>>

\* With or without respect_pins; there is no progress entry.
StartWholeSchool(k, respect) ==
    /\ request[k].stage = "new"
    /\ request' = [request EXCEPT ![k] =
            [Idle EXCEPT !.stage = "solving",
                         !.own = IF respect THEN Pinning(stored) ELSE {}]]
    /\ UNCHANGED <<stored, rota, registry, cancelled, edits, serial>>

\* The search ends: at its deadline, with nothing left to improve, or after
\* the iteration in which it sees its cancel flag.
Return(k) ==
    /\ request[k].stage = "solving"
    /\ \E F \in Bound(k) : \E R \in Solutions(F) :
         request' = [request EXCEPT ![k].stage = "returned", ![k].fixed = F, ![k].solution = R]
    /\ UNCHANGED <<stored, rota, registry, cancelled, edits, serial>>

\* A validator rejects the result: the binding raises an error.
Crash(k) ==
    /\ request[k].stage = "solving"
    /\ request' = [request EXCEPT ![k].stage = "crashed"]
    /\ UNCHANGED <<stored, rota, registry, cancelled, edits, serial>>

\* Broken variant: an error skips the cleanup.
LeaveOnSuccess(k) ==
    IF request[k].scope \in Classes /\ request[k].stage = "returned"
    THEN [registry EXCEPT ![request[k].scope] = Nobody] ELSE registry

\* The entry of the class is removed, whoever has put it there.
Leave(k) ==
    IF request[k].scope \in Classes
    THEN [registry EXCEPT ![request[k].scope] = Nobody] ELSE registry

Unregister(k) ==
    /\ request[k].stage \in {"returned", "crashed"}
    /\ registry' = Leave(k)
    /\ request' = [request EXCEPT ![k] = IF @.stage = "returned" THEN [@ EXCEPT !.stage = "solved"]
                                        ELSE Ended("failed")]
    /\ UNCHANGED <<stored, rota, cancelled, edits, serial>>

\* filter_solution_for_class
NewRows(k) ==
    IF request[k].scope = WholeSchool THEN request[k].solution
    ELSE {r \in request[k].solution : Attends(request[k].scope, r)}

\* A class request replaces all rows of its class; a request for the whole
\* school those of the lessons that its solution places.
Replaced(k) ==
    IF request[k].scope = WholeSchool
    THEN {r \in stored : \E q \in request[k].solution : q.lesson = r.lesson}
    ELSE {r \in stored : Attends(request[k].scope, r)}

\* Broken variant: the pins are looked up when the rows are gone.
PinnedKeysAfter(k, taken) == Keys(Pinning(stored \ taken))

\* Which keys are pinned is read before the DELETE and joined with the pins
\* that were sent.
PinnedKeys(k, taken) == Keys(request[k].own) \cup Keys(Pinning(taken))

Delete(k) ==
    /\ request[k].stage = "solved"
    /\ LET taken == Replaced(k)
           blockers == {j \in Requests : /\ Persisting(j)
                                         /\ \/ request[j].victims \cap taken # {}
                                            \/ /\ rota
                                               /\ WholeSchool \notin {request[j].scope, request[k].scope}}
       IN  request' = [request EXCEPT ![k].stage = "persisting", ![k].victims = taken,
                            ![k].waits = blockers,
                            ![k].keys = PinnedKeys(k, taken)]
    /\ UNCHANGED <<stored, rota, registry, cancelled, edits, serial>>

\* Broken variant: the rows that a request has read stay locked while it solves.
GrantedByReaders(k) ==
    /\ Persisting(k) /\ \A j \in request[k].waits : ~Persisting(j)
    /\ \A j \in Requests : Solving(j) =>
         (request[j].siblings \cup request[j].own) \cap request[k].victims = {}

Granted(k) == Persisting(k) /\ \A j \in request[k].waits : ~Persisting(j)

\* A row that is still there has a key of a new one.
Collides(k) == Keys(NewRows(k)) \cap Keys(stored \ request[k].victims) # {}

\* Others have still to see that k has stored something.
Overtaken(k) ==
    [j \in Requests |->
        IF j = k THEN Ended("answered")
        ELSE [request[j] EXCEPT !.victims = @ \ request[k].victims,
                                !.rotaTaken = @ \/ /\ Persisting(j)
                                                   /\ WholeSchool \notin {request[j].scope, request[k].scope},
                                !.fresh = FALSE]]

\* Every pinned key becomes a hard pin.  The rota is only rewritten by a
\* class request.
Commit(k) ==
    /\ Granted(k)
    /\ ~Collides(k)
    /\ stored' = (stored \ request[k].victims)
           \cup {[lesson |-> r.lesson, slot |-> r.slot, room |-> r.room, teacher |-> r.teacher,
                  pin |-> IF Key(r) \in request[k].keys THEN "hard" ELSE "none"] :
                     r \in NewRows(k)}
    /\ rota' = (rota \/ request[k].scope # WholeSchool)
    /\ request' = Overtaken(k)
    /\ serial' = (serial /\ request[k].fresh /\ Complete(request[k].solution))
    /\ UNCHANGED <<registry, cancelled, edits>>

\* An IntegrityError; it may also come from a break that has a supervisor by now.
Rollback(k) ==
    /\ Granted(k)
    /\ Collides(k) \/ request[k].rotaTaken
    /\ request' = [request EXCEPT ![k] = Ended("failed")]
    /\ UNCHANGED <<stored, rota, registry, cancelled, edits, serial>>

\* POST /classes/{id}/schedule/cancel, answered with 204
Cancel(c) ==
    /\ registry[c] # Nobody
    /\ cancelled' = cancelled \cup {registry[c]}
    /\ UNCHANGED <<stored, rota, request, registry, edits, serial>>

\* The process ends and starts again: transactions that have not committed
\* are rolled back, the registry is empty.
Restart ==
    /\ \E k \in Requests : request[k].stage \notin Over \cup {"new"}
    /\ request' = [k \in Requests |-> IF request[k].stage \in Over \cup {"new"} THEN request[k]
                                      ELSE Ended("failed")]
    /\ registry' = [c \in Classes |-> Nobody]
    /\ UNCHANGED <<stored, rota, cancelled, edits, serial>>

-----------------------------------------------------------------------------
(* Edits by hand (routes/placements.py).                                    *)

Editable(r) == r \in stored /\ \A k \in Requests : Persisting(k) => r \notin request[k].victims

\* Rows `out` are replaced by rows `in`; a key that is taken fails the request.
Edit(out, in) ==
    /\ edits < EditLimit
    /\ \A r \in out : Editable(r)
    /\ Keys(in) \cap Keys(stored \ out) = {}
    /\ stored' = (stored \ out) \cup in
    /\ edits' = edits + 1
    /\ request' = [k \in Requests |-> [request[k] EXCEPT !.fresh = FALSE]]
    /\ UNCHANGED <<rota, registry, cancelled>>

\* No check against other lessons: the user decides.
Move(r, s, room) ==
    /\ Edit({r}, {[r EXCEPT !.slot = s, !.room = room, !.pin = "hard"]})
    /\ serial' = FALSE

Pin(r, kind) ==
    /\ Edit({r}, {[r EXCEPT !.pin = kind]})
    /\ UNCHANGED serial

SwapPlacements(r, q) ==
    /\ r # q
    /\ Edit({r, q}, {[r EXCEPT !.slot = q.slot, !.room = q.room, !.pin = "hard"],
                     [q EXCEPT !.slot = r.slot, !.room = r.room, !.pin = "hard"]})
    /\ serial' = FALSE

-----------------------------------------------------------------------------

ServiceInit ==
    /\ stored \in Kept
    /\ rota \in BOOLEAN /\ (rota => stored # {})
    /\ request = [k \in Requests |-> Idle]
    /\ registry = [c \in Classes |-> Nobody]
    /\ cancelled = {} /\ edits = 0 /\ serial = TRUE

Persist(k) == Delete(k) \/ Commit(k) \/ Rollback(k)

ServiceNext ==
    \/ \E k \in Requests :
        \/ \E c \in Classes : StartClass(k, c)
        \/ \E respect \in BOOLEAN : StartWholeSchool(k, respect)
        \/ Return(k) \/ Crash(k) \/ Unregister(k)
        \/ Delete(k) \/ Commit(k) \/ Rollback(k)
    \/ \E c \in Classes : Cancel(c)
    \/ Restart
    \/ \E r \in stored :
        \/ \E s \in Slots, room \in Rooms : Move(r, s, room)
        \/ \E kind \in PinKinds : Pin(r, kind)
        \/ \E q \in stored : SwapPlacements(r, q)

\* The event loop and the database go on; a search looks at its cancel flag in
\* every iteration.  The deadline is a setting and may be far away.
Fairness ==
    \A k \in Requests :
        /\ WF_serviceVars(k \in cancelled /\ (Return(k) \/ Crash(k)))
        /\ WF_serviceVars(Unregister(k))
        /\ WF_serviceVars(Persist(k))

ServiceSpec == ServiceInit /\ [][ServiceNext]_serviceVars /\ Fairness

-----------------------------------------------------------------------------
(* Properties.                                                              *)

\* Whoever polls or cancels a class reaches a solve that is still under way:
\* no end of a request, failure included, leaves its entry behind, although
\* two solves of one class share one entry (register_progress).
NoDeadEntry ==
    \A c \in Classes : registry[c] # Nobody =>
        Solving(registry[c]) /\ request[registry[c]].scope = c

\* A cancel that was answered ends its request, without the help of the
\* deadline and however the transactions of others wait for each other
\* (ADR of the progress beacon: exit at the next iteration boundary).
CancelEndsRequest ==
    \A k \in Requests : (k \in cancelled) ~> (request[k].stage \in Over)

\* A hard pin with which the whole lesson was pinned when a request read it
\* is in the stored timetable after the request, unless the user has changed
\* that row meanwhile: in no overlap with other requests does it get lost.
PinsSurvive ==
    [][\A k \in Requests : Persisting(k) /\ request'[k].stage = "answered" =>
         \A r \in request[k].own :
            r.pin = "hard" /\ Plain(r) \in request[k].fixed /\ r \in stored => r \in stored']_serviceVars

\* Requests that do not overlap and place all hours leave a timetable that the
\* solver's validators accept, although each class request stores only the part
\* of its solution that concerns its class.
SerialSchedulesPass == serial => Passes(Schedule(stored))

\* What a class request computes is free of conflicts with the rows of the
\* other classes, "so the solver treats them as fixed"
\* (collect_pinned_placements).
SiblingsStayFixed ==
    \A k \in Requests : request[k].stage = "returned" =>
        \A r \in NewRows(k), q \in Schedule(request[k].siblings) :
            ~Attends(request[k].scope, q) => ~Clash(r, q)
=============================================================================
