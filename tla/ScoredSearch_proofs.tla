-------------------------- MODULE ScoredSearch_proofs --------------------------
(***************************************************************************)
(* The search with its costs only takes steps that TimetableSearch allows, *)
(* so what is proved there holds whatever the weights prefer; and what the *)
(* hot path keeps up to date instead of pricing the schedule again is exact:*)
(* the positions, the full cost, the slice of it, and what a single move is*)
(* said to change.  A move that late acceptance admits is no dearer than one*)
(* of the two costs it is compared with.                                   *)
(***************************************************************************)
EXTENDS ScoredSearch, SearchValidators_proofs, ScheduleScore_proofs

\* A step of the priced search is one of the search, or leaves it alone.
LEMMA ScoredStep == ScoredNext => [Next]_vars
BY DEF ScoredNext, ScoredFfdPlace, ScoredFfdMiss, ScoredChangeN1, ScoredChangeBlock,
       ScoredHomeRoomRepair, ScoredRescue, ScoredRebuildPlace, ScoredRebuildMiss,
       ScoredSwap, ScoredFfdEnd, ScoredRuin, ScoredKeep, ScoredUndo, Idle, ScoredFinish, Next

\* What is proved of the search is true of it, whatever the weights prefer and
\* late acceptance admits.
THEOREM ScoredInvariance == ScoredSpec => [](Inv /\ VInv)
<1>1. ScoredInit => Init
  BY DEF ScoredInit
<1>2. Inv /\ VInv /\ [ScoredNext]_<<vars, costVars>> => (Inv /\ VInv)'
  BY ScoredStep, NextInv, NextPassing
<1> QED
  BY <1>1, <1>2, InitInv, InitPassing, PTL DEF ScoredSpec

-----------------------------------------------------------------------------
(* Positions.                                                               *)

\* The positions are those of the placements.
PosInv ==
    phase # "done" => /\ classPos = ClassPositions(rows)
                      /\ teacherPos = TeacherPositions(rows)

\* A position is held by a row.
LEMMA PositionRow ==
  ASSUME NEW R \in SUBSET Row, NEW d, NEW p
  PROVE  p \in PositionsOf(R, d) <=> \E r \in R : r.slot = <<d, p>>
<1>1. \A r \in R : r.slot = <<Day(r.slot), Pos(r.slot)>>
  <2>1. \A r \in R : r.slot \in Nat \X Nat
    BY ProblemAssumption DEF Row
  <2> QED
    BY <2>1 DEF Day, Pos
<1>2. ASSUME NEW r \in R, r.slot = <<d, p>> PROVE Day(r.slot) = d /\ Pos(r.slot) = p
  BY <1>2 DEF Day, Pos
<1> QED
  BY <1>1, <1>2 DEF PositionsOf

\* No position of what stays is given up with what goes.
LEMMA PositionsLeft ==
  ASSUME NEW R \in SUBSET Row, NEW S \in SUBSET R, NEW d,
         \A r, q \in R : r.slot = q.slot => r = q
  PROVE  PositionsOf(R \ S, d) = PositionsOf(R, d) \ PositionsOf(S, d)
<1>1. \A p : p \in PositionsOf(R, d) <=> \E r \in R : r.slot = <<d, p>>
  BY PositionRow
<1>2. \A p : p \in PositionsOf(S, d) <=> \E r \in S : r.slot = <<d, p>>
  BY PositionRow
<1>3. \A p : p \in PositionsOf(R \ S, d) <=> \E r \in R \ S : r.slot = <<d, p>>
  BY PositionRow
<1>4. \A p : (\E r \in R \ S : r.slot = <<d, p>>)
              <=> (\E r \in R : r.slot = <<d, p>>) /\ ~(\E r \in S : r.slot = <<d, p>>)
  OBVIOUS
<1> QED
  BY ONLY <1>1, <1>2, <1>3, <1>4

\* Positions of two schedules together.
LEMMA PositionsJoined ==
  ASSUME NEW R, NEW S, NEW d
  PROVE  PositionsOf(R \cup S, d) = PositionsOf(R, d) \cup PositionsOf(S, d)
BY DEF PositionsOf

\* Schedule R, with one row a slot, gives up the rows S for the rows J.
GivesUp(R, S, J, Q) ==
    /\ R \in SUBSET Row /\ S \in SUBSET R /\ Q = (R \ S) \cup J
    /\ \A r, q \in R : r.slot = q.slot => r = q

\* Its positions follow.
LEMMA PositionsMoved ==
  ASSUME NEW R, NEW S, NEW J, NEW Q, NEW d, GivesUp(R, S, J, Q)
  PROVE  (PositionsOf(R, d) \ PositionsOf(S, d)) \cup PositionsOf(J, d) = PositionsOf(Q, d)
<1>1. PositionsOf(R \ S, d) = PositionsOf(R, d) \ PositionsOf(S, d)
  BY PositionsLeft DEF GivesUp
<1>2. PositionsOf((R \ S) \cup J, d) = PositionsOf(R \ S, d) \cup PositionsOf(J, d)
  BY PositionsJoined
<1> QED
  BY <1>1, <1>2 DEF GivesUp

\* Positions follow the rows that leave and join a schedule.
LEMMA PositionsTraded ==
  ASSUME NEW R0 \in SUBSET Row, NoDoubleBooking(R0), NEW out \in SUBSET R0,
         NEW in \in SUBSET Row, NEW Q0, Q0 = (R0 \ out) \cup in
  PROVE  /\ Joined(Left(ClassPositions(R0), ClassPositions(out)), ClassPositions(in))
              = ClassPositions(Q0)
         /\ Joined(Left(TeacherPositions(R0), TeacherPositions(out)), TeacherPositions(in))
              = TeacherPositions(Q0)
<1>1. \A r, q \in R0 : r # q => ~Clash(r, q)
  BY DEF NoDoubleBooking
<1>2. ASSUME NEW x \in Classes \X AllDays
      PROVE  (PositionsOf(ClassRows(R0, x[1]), x[2]) \ PositionsOf(ClassRows(out, x[1]), x[2]))
               \cup PositionsOf(ClassRows(in, x[1]), x[2])
               = PositionsOf(ClassRows(Q0, x[1]), x[2])
  <2> DEFINE c == x[1]
             d == x[2]
             R == ClassRows(R0, c)
             S == ClassRows(out, c)
             J == ClassRows(in, c)
  <2>1. R \in SUBSET Row /\ S \in SUBSET R /\ ClassRows(Q0, c) = (R \ S) \cup J
    BY DEF ClassRows
  <2>2. \A r, q \in R : r.slot = q.slot => r = q
    BY <1>1 DEF ClassRows, Clash
  <2> HIDE DEF R, S, J, c, d
  <2>3. GivesUp(R, S, J, ClassRows(Q0, c))
    BY <2>1, <2>2 DEF GivesUp
  <2>4. (PositionsOf(R, d) \ PositionsOf(S, d)) \cup PositionsOf(J, d)
          = PositionsOf(ClassRows(Q0, c), d)
    BY ONLY <2>3, PositionsMoved
  <2> QED
    BY <2>4 DEF R, S, J, c, d
<1>3. ASSUME NEW x \in Teachers \X AllDays
      PROVE  (PositionsOf(TeacherRows(R0, x[1]), x[2]) \ PositionsOf(TeacherRows(out, x[1]), x[2]))
               \cup PositionsOf(TeacherRows(in, x[1]), x[2])
               = PositionsOf(TeacherRows(Q0, x[1]), x[2])
  <2> DEFINE c == x[1]
             d == x[2]
             R == TeacherRows(R0, c)
             S == TeacherRows(out, c)
             J == TeacherRows(in, c)
  <2>1. R \in SUBSET Row /\ S \in SUBSET R /\ TeacherRows(Q0, c) = (R \ S) \cup J
    BY DEF TeacherRows
  <2>2. \A r, q \in R : r.slot = q.slot => r = q
    <3>1. \A r \in R : r \in R0 /\ r.teacher = c
      BY DEF TeacherRows
    <3>2. \A r, q \in R0 : r.slot = q.slot /\ r.teacher = q.teacher => r = q
      BY <1>1 DEF Clash
    <3> HIDE DEF R, c
    <3> QED
      BY ONLY <3>1, <3>2
  <2> HIDE DEF R, S, J, c, d
  <2>3. GivesUp(R, S, J, TeacherRows(Q0, c))
    BY <2>1, <2>2 DEF GivesUp
  <2>4. (PositionsOf(R, d) \ PositionsOf(S, d)) \cup PositionsOf(J, d)
          = PositionsOf(TeacherRows(Q0, c), d)
    BY ONLY <2>3, PositionsMoved
  <2> QED
    BY <2>4 DEF R, S, J, c, d
<1>4. Joined(Left(ClassPositions(R0), ClassPositions(out)), ClassPositions(in)) = ClassPositions(Q0)
  BY <1>2 DEF Joined, Left, ClassPositions
<1>5. Joined(Left(TeacherPositions(R0), TeacherPositions(out)), TeacherPositions(in))
        = TeacherPositions(Q0)
  BY <1>3 DEF Joined, Left, TeacherPositions
<1> QED
  BY <1>4, <1>5

\* Booking rows out and in gives the positions of the new schedule.
LEMMA BookKeeps ==
  ASSUME rows \in SUBSET Row, NoDoubleBooking(rows),
         classPos = ClassPositions(rows), teacherPos = TeacherPositions(rows),
         NEW out \in SUBSET rows, NEW in \in SUBSET Row,
         Book(out, in), rows' = (rows \ out) \cup in
  PROVE  classPos' = ClassPositions(rows') /\ teacherPos' = TeacherPositions(rows')
BY PositionsTraded DEF Book

\* Rows that only change rooms keep their positions.
LEMMA SamePositions ==
  ASSUME NEW R \in SUBSET Row, NEW S \in SUBSET Row,
         \A r \in R : \E q \in S :
            q.lesson = r.lesson /\ q.slot = r.slot /\ q.teacher = r.teacher,
         \A q \in S : \E r \in R :
            q.lesson = r.lesson /\ q.slot = r.slot /\ q.teacher = r.teacher
  PROVE  ClassPositions(R) = ClassPositions(S) /\ TeacherPositions(R) = TeacherPositions(S)
<1>1. ASSUME NEW c, NEW d
      PROVE  PositionsOf(ClassRows(R, c), d) = PositionsOf(ClassRows(S, c), d)
  <2>1. ClassRows(R, c) \in SUBSET Row /\ ClassRows(S, c) \in SUBSET Row
    BY DEF ClassRows
  <2>2. \A p : (\E r \in ClassRows(R, c) : r.slot = <<d, p>>)
                 <=> (\E r \in ClassRows(S, c) : r.slot = <<d, p>>)
    BY DEF ClassRows
  <2>3. \A p : p \in PositionsOf(ClassRows(R, c), d)
                 <=> \E r \in ClassRows(R, c) : r.slot = <<d, p>>
    BY ONLY <2>1, PositionRow
  <2>4. \A p : p \in PositionsOf(ClassRows(S, c), d)
                 <=> \E r \in ClassRows(S, c) : r.slot = <<d, p>>
    BY ONLY <2>1, PositionRow
  <2> QED
    BY <2>2, <2>3, <2>4
<1>2. ASSUME NEW t, NEW d
      PROVE  PositionsOf(TeacherRows(R, t), d) = PositionsOf(TeacherRows(S, t), d)
  <2>1. TeacherRows(R, t) \in SUBSET Row /\ TeacherRows(S, t) \in SUBSET Row
    BY DEF TeacherRows
  <2>2. \A p : (\E r \in TeacherRows(R, t) : r.slot = <<d, p>>)
                 <=> (\E r \in TeacherRows(S, t) : r.slot = <<d, p>>)
    BY DEF TeacherRows
  <2>3. \A p : p \in PositionsOf(TeacherRows(R, t), d)
                 <=> \E r \in TeacherRows(R, t) : r.slot = <<d, p>>
    BY ONLY <2>1, PositionRow
  <2>4. \A p : p \in PositionsOf(TeacherRows(S, t), d)
                 <=> \E r \in TeacherRows(S, t) : r.slot = <<d, p>>
    BY ONLY <2>1, PositionRow
  <2> QED
    BY <2>2, <2>3, <2>4
<1> QED
  BY <1>1, <1>2 DEF ClassPositions, TeacherPositions

\* What booking a step's rows out and in has to show.
LEMMA BookedPositions ==
  ASSUME Inv, PosInv, TypeOK', phase # "done", NEW out, NEW in,
         Book(out, in), out \in SUBSET rows, in \in SUBSET Row, rows' = (rows \ out) \cup in
  PROVE  PosInv'
<1>1. /\ rows \in SUBSET Row /\ NoDoubleBooking(rows)
      /\ classPos = ClassPositions(rows) /\ teacherPos = TeacherPositions(rows)
  BY DEF Inv, TypeOK, Orderly, PosInv
<1>2. classPos' = ClassPositions(rows') /\ teacherPos' = TeacherPositions(rows')
  BY <1>1, BookKeeps
<1> QED
  BY <1>2 DEF PosInv

\* A placed block, by the greedy pass or to put back what was ruined.
LEMMA PlacedPositions ==
  ASSUME Inv, PosInv, TypeOK', NEW l \in Lessons,
         FfdPlace(l) \/ RebuildPlace(l), BookBlock(l)
  PROVE  PosInv'
<1>1. phase # "done"
  BY DEF FfdPlace, FfdTurn, RebuildPlace, Rebuilding
<1>2. PICK s \in Slots, room \in Rooms, t \in Teachers : Place(l, s, room, t)
  BY DEF FfdPlace, RebuildPlace
<1>3. rows \subseteq rows' /\ rows' \in SUBSET Row
  BY <1>2 DEF Place, TypeOK
<1>4. Book({}, rows' \ rows)
  BY DEF BookBlock
<1>5. rows' = (rows \ {}) \cup (rows' \ rows) /\ rows' \ rows \in SUBSET Row
  BY <1>3
<1> QED
  BY <1>1, <1>4, <1>5, BookedPositions

\* A Change of one row picks up and puts down the rows it books.
LEMMA ChangedPositions ==
  ASSUME Inv, PosInv, TypeOK', NEW l \in Lessons, ScoredChangeN1(l)
  PROVE  PosInv'
<1> DEFINE p == CHOOSE r \in rows \ rows' : TRUE
           q == CHOOSE r \in rows' \ rows : TRUE
<1>1. phase # "done" /\ Change(l) /\ BlockSize[l] = 1 /\ Book({p}, {q})
  BY DEF ScoredChangeN1, Change, Searching
<1>picked. PICK R \in Sources(l), s \in Slots, room \in Rooms, t \in Teachers, B \in SUBSET Row :
        MoveBlock(l, R, s, room, t, B)
  BY <1>1, ChangeInv
<1>2. /\ B = Block(l, s, room, t)
      /\ rows' = (rows \ R) \cup B /\ (rows \ R) \cap B = {}
      /\ Window(s, BlockSize[l]) # {r.slot : r \in R}
  BY ONLY <1>picked DEF MoveBlock
<1>3. PICK p0 \in rows : R = {p0}
  BY <1>1, <1>2 DEF Sources, RowsOf
<1>4. PICK q0 : B = {q0}
  <2>1. IsFiniteSet(B) /\ Cardinality(B) = 1
    BY <1>1, <1>2, BlockOfRows
  <2> QED
    BY <2>1, FS_Singleton
<1>5. p0 # q0
  <2>1. \A r \in B : r.slot \in Window(s, BlockSize[l])
    BY <1>2 DEF Block
  <2>2. ASSUME NEW w \in Window(s, BlockSize[l]) PROVE \E r \in B : r.slot = w
    <3> DEFINE r0 == [lesson |-> l, slot |-> w, room |-> room, teacher |-> t]
    <3>1. r0 \in B /\ r0.slot = w
      BY <1>2 DEF Block
    <3> QED
      BY <3>1
  <2>3. {r.slot : r \in B} = Window(s, BlockSize[l])
    BY <2>1, <2>2
  <2>4. R # B
    BY <1>2, <2>3
  <2> QED
    BY <1>3, <1>4, <2>4
<1>6. rows \ rows' = {p0} /\ rows' \ rows = {q0}
  BY <1>2, <1>3, <1>4, <1>5
<1>7. p = p0 /\ q = q0
  BY <1>6
<1> HIDE DEF p, q
<1>8. {p} \in SUBSET rows /\ {q} \in SUBSET Row /\ rows' = (rows \ {p}) \cup {q}
  BY <1>2, <1>3, <1>4, <1>7
<1> QED
  BY <1>1, <1>8, BookedPositions

\* A move priced in full books what it changed.
LEMMA RepricedPositions ==
  ASSUME Inv, PosInv, TypeOK', phase # "done", Repriced
  PROVE  PosInv'
<1>1. Book(rows \ rows', rows' \ rows) /\ rows' \in SUBSET Row
  BY DEF Repriced, TypeOK
<1>2. /\ rows \ rows' \in SUBSET rows /\ rows' \ rows \in SUBSET Row
      /\ rows' = (rows \ (rows \ rows')) \cup (rows' \ rows)
  BY <1>1
<1> QED
  BY <1>1, <1>2, BookedPositions

\* A home-room repair leaves the positions alone.
LEMMA RepairedPositions ==
  ASSUME Inv, PosInv, TypeOK', NEW l \in Lessons, ScoredHomeRoomRepair(l)
  PROVE  PosInv'
<1>1. /\ HomeRoomRepair(l) /\ UNCHANGED <<classPos, teacherPos>>
      /\ phase = "search" /\ rows \in SUBSET Row /\ rows' \in SUBSET Row
  BY DEF ScoredHomeRoomRepair, HomeRoomRepair, Searching, Inv, TypeOK
<1>2. OtherRooms(rows, rows')
  BY <1>1, RepairedRooms
<1>3. ClassPositions(rows) = ClassPositions(rows') /\ TeacherPositions(rows) = TeacherPositions(rows')
  BY <1>1, <1>2, SamePositions DEF OtherRooms, Alike
<1> QED
  BY <1>1, <1>3 DEF PosInv

\* A ruin books the rows it takes out.
LEMMA RuinedPositions ==
  ASSUME Inv, PosInv, TypeOK', BookRuin,
         Ruin \/ \E l \in Lessons : Rescue(l)
  PROVE  PosInv'
<1>1. PICK R : Uproots(R)
  BY StartUproots
<1>2. R \in SUBSET rows /\ TakeOut(R) /\ attempt'.ruined = R
  BY ONLY <1>1 DEF Uproots
<1>3. phase # "done"
  BY StartUproots
<1>4. /\ Book(attempt'.ruined, {}) /\ attempt'.ruined \in SUBSET rows
      /\ rows' = (rows \ attempt'.ruined) \cup {}
  BY <1>2 DEF BookRuin, TakeOut
<1> QED
  BY <1>3, <1>4, BookedPositions

\* An undo books back what the ruin took out.
LEMMA UndonePositions ==
  ASSUME Inv, PosInv, TypeOK', ScoredUndo
  PROVE  PosInv'
<1>1. /\ phase \in {"rescue", "recreate"}
      /\ Book(UNION attempt.added, attempt.ruined)
      /\ rows' = (rows \ UNION attempt.added) \cup attempt.ruined
  BY DEF ScoredUndo, Undo, Rebuilt
<1>2. UNION attempt.added \in SUBSET rows /\ attempt.ruined \in SUBSET Row
  BY <1>1 DEF Inv, Rebuildable, TypeOK, AttemptType
<1> QED
  BY <1>1, <1>2, BookedPositions

\* Steps that leave the schedule alone leave the positions alone.
LEMMA RestingPositions ==
  ASSUME PosInv, phase # "done", UNCHANGED <<rows, classPos, teacherPos>>
  PROVE  PosInv'
BY DEF PosInv

\* Every step keeps the positions those of the placements.
LEMMA NextPositions ==
  ASSUME Inv, PosInv, TypeOK', ScoredNext
  PROVE  PosInv'
<1>1. CASE \E l \in Lessons : ScoredFfdPlace(l) \/ ScoredRebuildPlace(l)
  BY <1>1, PlacedPositions DEF ScoredFfdPlace, ScoredRebuildPlace
<1>2. CASE \E l \in Lessons : ScoredFfdMiss(l) \/ ScoredRebuildMiss(l)
  <2>1. phase # "done" /\ UNCHANGED <<rows, classPos, teacherPos>>
    BY <1>2 DEF ScoredFfdMiss, ScoredRebuildMiss, FfdMiss, FfdTurn, RebuildMiss, Rebuilding,
                costVars
  <2> QED
    BY <2>1, RestingPositions
<1>3. CASE \E l \in Lessons : ScoredChangeN1(l)
  BY <1>3, ChangedPositions
<1>4. CASE \/ \E l \in Lessons : ScoredChangeBlock(l)
           \/ \E l, m \in Lessons : ScoredSwap(l, m)
  <2>1. phase # "done" /\ Repriced
    BY <1>4 DEF ScoredChangeBlock, ScoredSwap, Change, Swap, Searching
  <2> QED
    BY <2>1, RepricedPositions
<1>5. CASE \E l \in Lessons : ScoredHomeRoomRepair(l)
  BY <1>5, RepairedPositions
<1>6. CASE (\E l \in Lessons : ScoredRescue(l)) \/ ScoredRuin
  BY <1>6, RuinedPositions DEF ScoredRescue, ScoredRuin
<1>7. CASE ScoredFfdEnd \/ ScoredKeep \/ Idle
  <2>1. phase # "done" /\ UNCHANGED <<rows, classPos, teacherPos>>
    BY <1>7 DEF ScoredFfdEnd, ScoredKeep, Idle, FfdEnd, Keep, Rebuilt, NothingToRuin, vars
  <2> QED
    BY <2>1, RestingPositions
<1>8. CASE ScoredUndo
  BY <1>8, UndonePositions
<1>9. CASE ScoredFinish
  BY <1>9 DEF ScoredFinish, Finish, PosInv
<1> QED
  BY <1>1, <1>2, <1>3, <1>4, <1>5, <1>6, <1>7, <1>8, <1>9 DEF ScoredNext

\* The positions that gaps, day balance and every priced move are read from
\* are those of the schedule, in the middle of a ruin and after its undo too.
THEOREM PositionsExact == ScoredSpec => []PositionsMirrorRows
<1>1. ScoredInit => PosInv
  BY DEF ScoredInit, Init, PosInv
<1>2. (Inv /\ VInv) /\ (Inv /\ VInv)' /\ PosInv /\ [ScoredNext]_<<vars, costVars>> => PosInv'
  <2> SUFFICES ASSUME Inv, Inv', PosInv, [ScoredNext]_<<vars, costVars>> PROVE PosInv'
    OBVIOUS
  <2>1. CASE ScoredNext
    BY <2>1, NextPositions DEF Inv
  <2>2. CASE UNCHANGED <<vars, costVars>>
    BY <2>2 DEF vars, costVars, PosInv
  <2> QED
    BY <2>1, <2>2
<1>3. PosInv => PositionsMirrorRows
  BY DEF PosInv, PositionsMirrorRows
<1> QED
  BY <1>1, <1>2, <1>3, ScoredInvariance, PTL DEF ScoredSpec

-----------------------------------------------------------------------------
(* The full price is exact.                                                 *)

\* One row a lesson, slot and teacher.
OneEach(R) == \A r, q \in R : Alike(r, q) => r = q

\* Rows that only change rooms keep every price but that of the rooms.
LEMMA SamePreference ==
  ASSUME NEW R \in SUBSET Row, NEW S \in SUBSET Row, OtherRooms(R, S), OneEach(R), OneEach(S)
  PROVE  /\ RowPreference(R) = RowPreference(S)
         /\ WorstClassSpread(R) = WorstClassSpread(S)
<1> DEFINE b == [r \in R |-> CHOOSE q \in S : Alike(q, r)]
<1>1. \A r \in R : b[r] \in S /\ Alike(b[r], r)
  BY DEF OtherRooms
<1>2. \A r, q \in R : b[r] = b[q] => r = q
  <2>1. \A r, q \in R : b[r] = b[q] => Alike(r, q)
    BY ONLY <1>1 DEF Alike
  <2> HIDE DEF b
  <2> QED
    BY ONLY <2>1, OneEach(R) DEF OneEach
<1>3. \A z \in S : \E r \in R : b[r] = z
  <2> SUFFICES ASSUME NEW z \in S PROVE \E r \in R : b[r] = z
    OBVIOUS
  <2>1. PICK r \in R : Alike(z, r)
    BY DEF OtherRooms
  <2>2. Alike(z, b[r]) /\ b[r] \in S
    BY ONLY <1>1, <2>1 DEF Alike
  <2> HIDE DEF b
  <2> QED
    BY ONLY <2>2, OneEach(S), z \in S DEF OneEach
<1> HIDE DEF b
<1>4. IsFiniteSet(R) /\ IsFiniteSet(S) /\ \A r \in Row : r.lesson \in Lessons /\ r.slot \in Slots
  BY ScheduleFinite DEF Row
<1>5. RowPreference(R) = RowPreference(S)
  <2> DEFINE f == [r \in R |-> SubjectPreference(SubjectOf[r.lesson], r.slot)]
             k == [r \in S |-> SubjectPreference(SubjectOf[r.lesson], r.slot)]
  <2>1. \A r \in Row : SubjectPreference(SubjectOf[r.lesson], r.slot) \in Int
    <3>1. \A l \in Lessons : SubjectOf[l] \in Subjects
      BY ProblemAssumption DEF ValidLessons
    <3> QED
      BY <1>4, <3>1, PreferenceNat
  <2>2. f \in [R -> Int] /\ k \in [S -> Int]
    BY <2>1
  <2>3. \A r \in R : b[r] \in S /\ f[r] = k[b[r]]
    BY <1>1 DEF Alike
  <2>4. RowPreference(R) = SumFunction(f) /\ RowPreference(S) = SumFunction(k)
    BY DEF RowPreference
  <2> HIDE DEF f, k
  <2>5. SumFunction(f) = SumFunction(k)
    BY ONLY <1>2, <1>3, <1>4, <2>2, <2>3, SumReindex
  <2> QED
    BY ONLY <2>4, <2>5
<1>6. ASSUME NEW c, NEW d
      PROVE  Cardinality({r \in ClassRows(R, c) : Day(r.slot) = d})
               = Cardinality({r \in ClassRows(S, c) : Day(r.slot) = d})
  <2> DEFINE A == {r \in ClassRows(R, c) : Day(r.slot) = d}
             C == {r \in ClassRows(S, c) : Day(r.slot) = d}
             g == [r \in A |-> b[r]]
  <2>1. A \in SUBSET R /\ C \in SUBSET S
    BY DEF ClassRows
  <2>2. \A r \in R : b[r] \in C <=> r \in A
    BY <1>1 DEF ClassRows, Alike
  <2> HIDE DEF A, C
  <2>3. \A z \in C : \E r \in A : b[r] = z
    BY ONLY <1>3, <2>1, <2>2
  <2>4. g \in Bijection(A, C)
    <3>1. g \in [A -> C] /\ \A r, q \in A : g[r] = g[q] => r = q
      BY ONLY <1>2, <2>1, <2>2
    <3>2. \A z \in C : \E r \in A : g[r] = z
      BY ONLY <2>3
    <3> HIDE DEF g
    <3>3. g \in Injection(A, C)
      BY ONLY <3>1 DEF Injection, IsInjective
    <3>4. g \in Surjection(A, C)
      BY ONLY <3>1, <3>2, Fun_IsSurj
    <3> QED
      BY ONLY <3>3, <3>4 DEF Bijection
  <2>5. IsFiniteSet(A)
    BY <1>4, <2>1, FS_Subset
  <2> HIDE DEF g
  <2>6. Cardinality(C) = Cardinality(A)
    BY <2>4, <2>5, FS_Bijection DEF ExistsBijection
  <2> QED
    BY <2>6 DEF A, C
<1>7. ASSUME NEW c
      PROVE  (\E r \in ClassRows(R, c) : Day(r.slot) < 5) <=> \E r \in ClassRows(S, c) : Day(r.slot) < 5
  BY DEF OtherRooms, Alike, ClassRows
<1>8. WorstClassSpread(R) = WorstClassSpread(S)
  <2> DEFINE loads(Q, c) == {Cardinality({r \in ClassRows(Q, c) : Day(r.slot) = d}) : d \in 0..4}
             busy(Q) == {c \in Classes : \E r \in ClassRows(Q, c) : Day(r.slot) < 5}
             worst(Q) == Max({0} \cup {Max(loads(Q, c)) - Min(loads(Q, c)) : c \in busy(Q)})
  <2>1. ASSUME NEW c PROVE loads(R, c) = loads(S, c)
    <3>1. \A d \in 0..4 : Cardinality({r \in ClassRows(R, c) : Day(r.slot) = d})
                          = Cardinality({r \in ClassRows(S, c) : Day(r.slot) = d})
      BY <1>6
    <3> QED
      BY ONLY <3>1
  <2>2. busy(R) = busy(S)
    BY <1>7
  <2>3. WorstClassSpread(R) = worst(R) /\ WorstClassSpread(S) = worst(S)
    BY DEF WorstClassSpread
  <2> HIDE DEF loads, busy
  <2>4. worst(R) = worst(S)
    BY <2>1, <2>2
  <2> QED
    BY <2>3, <2>4
<1> QED
  BY <1>5, <1>8

\* Nor does a change of rooms alter who teaches and when.
LEMMA SameMisses ==
  ASSUME NEW R, NEW S, OtherRooms(R, S)
  PROVE  /\ ClassTeacherMisses(R) = ClassTeacherMisses(S)
         /\ SoftPinMisses(R) = SoftPinMisses(S)
         /\ SupervisionSpread(R) = SupervisionSpread(S)
<1>1. ASSUME NEW c, NEW s
      PROVE  (\E r \in ClassRows(R, c) : SubjectOf[r.lesson] = s /\ PrefersOwn(c, s, r.teacher))
         <=> (\E r \in ClassRows(S, c) : SubjectOf[r.lesson] = s /\ PrefersOwn(c, s, r.teacher))
  BY DEF OtherRooms, Alike, ClassRows
<1>2. ClassTeacherMisses(R) = ClassTeacherMisses(S)
  BY <1>1 DEF ClassTeacherMisses
<1>3. ASSUME NEW l, NEW s
      PROVE  (\E r \in R : r.lesson = l /\ r.slot = s) <=> (\E r \in S : r.lesson = l /\ r.slot = s)
  BY DEF OtherRooms, Alike
<1>4. SoftPinMisses(R) = SoftPinMisses(S)
  <2> DEFINE kept(Q, k) == \E r \in Q : r.lesson = k[1] /\ r.slot = k[2]
  <2>1. ASSUME NEW k PROVE kept(R, k) <=> kept(S, k)
    BY ONLY <1>3
  <2>2. {k \in SoftPins : ~kept(R, k)} = {k \in SoftPins : ~kept(S, k)}
    BY ONLY <2>1
  <2> QED
    BY <2>2 DEF SoftPinMisses
<1>5. Eligible(R) = Eligible(S)
  <2> DEFINE teaching(Q, s) == {r.teacher : r \in {q \in Q : q.slot = s}}
  <2>1. ASSUME NEW s PROVE teaching(R, s) = teaching(S, s)
    BY DEF OtherRooms, Alike
  <2>2. \A Q, b : CanSupervise(Q, b)
          = (teaching(Q, <<Day(b), Pos(b) - 1>>) \cup teaching(Q, <<Day(b), Pos(b) + 1>>))
              \ teaching(Q, b)
    BY DEF CanSupervise
  <2> HIDE DEF teaching
  <2>3. ASSUME NEW b PROVE CanSupervise(R, b) = CanSupervise(S, b)
    <3>1. /\ teaching(R, b) = teaching(S, b)
          /\ teaching(R, <<Day(b), Pos(b) - 1>>) = teaching(S, <<Day(b), Pos(b) - 1>>)
          /\ teaching(R, <<Day(b), Pos(b) + 1>>) = teaching(S, <<Day(b), Pos(b) + 1>>)
      BY <2>1
    <3> QED
      BY ONLY <2>2, <3>1
  <2> QED
    BY <2>3 DEF Eligible
<1>6. SupervisionSpread(R) = SupervisionSpread(S)
  BY <1>5 DEF SupervisionSpread
<1> QED
  BY <1>2, <1>4, <1>6

\* So it alters nothing but what the rooms cost.
LEMMA SameCostBesideRooms ==
  ASSUME NEW R \in SUBSET Row, NEW S \in SUBSET Row, OtherRooms(R, S), OneEach(R), OneEach(S)
  PROVE  CostBesideRooms(R) = CostBesideRooms(S)
<1>1. ClassPositions(R) = ClassPositions(S) /\ TeacherPositions(R) = TeacherPositions(S)
  BY SamePositions DEF OtherRooms, Alike
<1>2. RowPreference(R) = RowPreference(S) /\ WorstClassSpread(R) = WorstClassSpread(S)
  BY SamePreference
<1>3. /\ ClassTeacherMisses(R) = ClassTeacherMisses(S)
      /\ SoftPinMisses(R) = SoftPinMisses(S)
      /\ SupervisionSpread(R) = SupervisionSpread(S)
  BY SameMisses
<1>4. SliceCost(R) = SliceCost(S)
  BY ONLY <1>1, <1>2 DEF SliceCost
<1>5. ClassDayBalance(R) = ClassDayBalance(S) /\ WorstClassGaps(R) = WorstClassGaps(S)
  BY ONLY <1>1 DEF ClassDayBalance, WorstClassGaps
<1> QED
  BY ONLY <1>2, <1>3, <1>4, <1>5 DEF CostBesideRooms

\* What is priced row by row changes with the rows that come and go.
LEMMA RowsRepriced ==
  ASSUME NEW f \in [Row -> Int], NEW R \in SUBSET Row, NEW S \in SUBSET Row
  PROVE  /\ SumFunctionOnSet(f, S)
              = SumFunctionOnSet(f, R) + SumFunctionOnSet(f, S \ R) - SumFunctionOnSet(f, R \ S)
         /\ \A A \in SUBSET Row : /\ SumFunction([r \in A |-> f[r]]) = SumFunctionOnSet(f, A)
                                  /\ SumFunctionOnSet(f, A) \in Int
<1> DEFINE sum(A) == SumFunctionOnSet(f, A)
           both == sum(R \cap S)
           out == sum(R \ S)
           in == sum(S \ R)
<1>1. IsFiniteSet(Row) /\ \A r \in Row : f[r] \in Int
  BY RowFinite
<1>2. ASSUME NEW A \in SUBSET Row
      PROVE  SumFunction([r \in A |-> f[r]]) = sum(A) /\ sum(A) \in Int
  BY <1>1, SumPart, SumRules
<1>3. ASSUME NEW A \in SUBSET Row, NEW C \in SUBSET Row
      PROVE  sum(A) = sum(A \cap C) + sum(A \ C)
  <2>1. (A \cap C) \cup (A \ C) = A /\ (A \cap C) \cap (A \ C) = {}
        /\ A \cap C \in SUBSET Row /\ A \ C \in SUBSET Row
    OBVIOUS
  <2>2. sum((A \cap C) \cup (A \ C)) = sum(A \cap C) + sum(A \ C)
    BY ONLY <1>1, <2>1, SumBoth
  <2> QED
    BY ONLY <2>1, <2>2
<1>4. sum(R) = sum(R \cap S) + sum(R \ S) /\ sum(S) = sum(S \cap R) + sum(S \ R)
  BY <1>3
<1>5. R \cap S = S \cap R
  OBVIOUS
<1>6. R \cap S \in SUBSET Row /\ R \ S \in SUBSET Row /\ S \ R \in SUBSET Row
  OBVIOUS
<1> HIDE DEF sum
<1>7. both \in Int /\ out \in Int /\ in \in Int
  BY <1>2, <1>6
<1>8. sum(R) = both + out /\ sum(S) = both + in
  BY ONLY <1>4, <1>5
<1> HIDE DEF both, out, in
<1>9. sum(S) = sum(R) + in - out
  BY ONLY <1>7, <1>8
<1> QED
  BY <1>2, <1>9 DEF sum, in, out

\* Rooms are priced row by row.
LEMMA RoomsRepriced ==
  ASSUME NEW R \in SUBSET Row, NEW S \in SUBSET Row
  PROVE  HomeRoomTotal(S) = HomeRoomTotal(R) + HomeRoomTotal(S \ R) - HomeRoomTotal(R \ S)
<1> DEFINE f == [r \in Row |-> HomeRoomPenalty(r.lesson, r.room)]
<1>1. f \in [Row -> Int]
  <2>1. \A r \in Row : r.lesson \in Lessons
    BY DEF Row
  <2>2. \A r \in Row : HomeRoomPenalty(r.lesson, r.room) \in Int
    BY <2>1, PenaltyNat
  <2> QED
    BY <2>2
<1>2. ASSUME NEW A \in SUBSET Row PROVE HomeRoomTotal(A) = SumFunction([r \in A |-> f[r]])
  <2>1. [r \in A |-> f[r]] = [r \in A |-> HomeRoomPenalty(r.lesson, r.room)]
    OBVIOUS
  <2> QED
    BY <2>1 DEF HomeRoomTotal
<1> HIDE DEF f
<1>3. /\ SumFunctionOnSet(f, S)
           = SumFunctionOnSet(f, R) + SumFunctionOnSet(f, S \ R) - SumFunctionOnSet(f, R \ S)
      /\ \A A \in SUBSET Row : SumFunction([r \in A |-> f[r]]) = SumFunctionOnSet(f, A)
  BY <1>1, RowsRepriced
<1>4. R \ S \in SUBSET Row /\ S \ R \in SUBSET Row
  OBVIOUS
<1>5. \A A \in {R, S, R \ S, S \ R} : HomeRoomTotal(A) = SumFunctionOnSet(f, A)
  BY <1>2, <1>3, <1>4
<1> QED
  BY ONLY <1>3, <1>5

\* So are the wishes of the subjects.
LEMMA WishesRepriced ==
  ASSUME NEW R \in SUBSET Row, NEW S \in SUBSET Row
  PROVE  /\ RowPreference(S) = RowPreference(R) + RowPreference(S \ R) - RowPreference(R \ S)
         /\ \A r \in Row : RowPreference({r}) = SubjectPreference(SubjectOf[r.lesson], r.slot)
<1> DEFINE f == [r \in Row |-> SubjectPreference(SubjectOf[r.lesson], r.slot)]
<1>1. f \in [Row -> Int]
  <2>1. \A r \in Row : SubjectOf[r.lesson] \in Subjects /\ r.slot \in Slots
    BY ProblemAssumption DEF Row, ValidLessons
  <2>2. \A r \in Row : SubjectPreference(SubjectOf[r.lesson], r.slot) \in Int
    BY <2>1, PreferenceNat
  <2> QED
    BY <2>2
<1>2. ASSUME NEW A \in SUBSET Row PROVE RowPreference(A) = SumFunction([r \in A |-> f[r]])
  <2>1. [r \in A |-> f[r]] = [r \in A |-> SubjectPreference(SubjectOf[r.lesson], r.slot)]
    OBVIOUS
  <2> QED
    BY <2>1 DEF RowPreference
<1>3. \A r \in Row : f[r] = SubjectPreference(SubjectOf[r.lesson], r.slot)
  OBVIOUS
<1> HIDE DEF f
<1>4. /\ SumFunctionOnSet(f, S)
           = SumFunctionOnSet(f, R) + SumFunctionOnSet(f, S \ R) - SumFunctionOnSet(f, R \ S)
      /\ \A A \in SUBSET Row : SumFunction([r \in A |-> f[r]]) = SumFunctionOnSet(f, A)
  BY <1>1, RowsRepriced
<1>5. R \ S \in SUBSET Row /\ S \ R \in SUBSET Row
  OBVIOUS
<1>6. \A A \in {R, S, R \ S, S \ R} : RowPreference(A) = SumFunctionOnSet(f, A)
  BY <1>2, <1>4, <1>5
<1>7. ASSUME NEW r \in Row PROVE RowPreference({r}) = SubjectPreference(SubjectOf[r.lesson], r.slot)
  <2>1. f[r] \in Int
    BY <1>1
  <2>2. SumFunctionOnSet(f, {r}) = f[r]
    BY ONLY <2>1, SumOne
  <2>3. RowPreference({r}) = SumFunctionOnSet(f, {r})
    BY <1>2, <1>4
  <2> QED
    BY <1>3, <2>2, <2>3
<1>8. RowPreference(S) = RowPreference(R) + RowPreference(S \ R) - RowPreference(R \ S)
  BY ONLY <1>4, <1>6
<1> QED
  BY <1>7, <1>8

\* Between iterations the running cost is the price of the schedule; during a
\* ruin it is the price of the schedule that an undo would go back to.
CanonInv ==
    /\ phase \in {"search", "ruin"} => canonical = ScoreSolution(rows)
    /\ phase \in {"rescue", "recreate"} => canonical = ScoreSolution(Base)

\* HomeRoomRepair prices the rooms of the rows it re-rooms, before and after.
LEMMA RepairedCanonical ==
  ASSUME Inv, Inv', CanonInv, NEW l \in Lessons, ScoredHomeRoomRepair(l)
  PROVE  canonical' = ScoreSolution(rows') /\ phase' = "search"
<1>1. /\ HomeRoomRepair(l) /\ phase = "search" /\ phase' = "search"
      /\ canonical' = Floor0(canonical + HomeRoomTotal(rows' \ rows) - HomeRoomTotal(rows \ rows'))
  BY DEF ScoredHomeRoomRepair, HomeRoomRepair, Searching
<1>2. /\ rows \in SUBSET Row /\ rows' \in SUBSET Row /\ OtherRooms(rows, rows')
  BY <1>1, RepairedRooms DEF Inv
<1>3. ASSUME NEW R \in SUBSET Row, NoDoubleBooking(R) PROVE OneEach(R)
  BY <1>3 DEF NoDoubleBooking, OneEach, Alike, Clash
<1>4. OneEach(rows) /\ OneEach(rows')
  BY <1>2, <1>3 DEF Inv, Orderly
<1>5. CostBesideRooms(rows) = CostBesideRooms(rows')
  BY <1>2, <1>4, SameCostBesideRooms
<1>6. HomeRoomTotal(rows')
        = HomeRoomTotal(rows) + HomeRoomTotal(rows' \ rows) - HomeRoomTotal(rows \ rows')
  BY <1>2, RoomsRepriced
<1>7. /\ ScoreSolution(rows) = CostBesideRooms(rows) + HomeRoomTotal(rows)
      /\ ScoreSolution(rows') = CostBesideRooms(rows') + HomeRoomTotal(rows')
      /\ CostBesideRooms(rows) \in Nat /\ HomeRoomTotal(rows) \in Nat
      /\ ScoreSolution(rows') \in Nat
      /\ HomeRoomTotal(rows' \ rows) \in Nat /\ HomeRoomTotal(rows \ rows') \in Nat
  <2>1. rows' \ rows \in SUBSET Row /\ rows \ rows' \in SUBSET Row
    BY <1>2
  <2> QED
    BY <1>2, <2>1, PriceNat
<1>8. canonical = ScoreSolution(rows)
  BY <1>1 DEF CanonInv
<1>9. canonical + HomeRoomTotal(rows' \ rows) - HomeRoomTotal(rows \ rows') = ScoreSolution(rows')
  BY ONLY <1>5, <1>6, <1>7, <1>8
<1>10. \A n \in Nat : Floor0(n) = n
  BY DEF Floor0, Higher
<1> QED
  BY ONLY <1>1, <1>7, <1>9, <1>10

\* Every step keeps the running cost exact.
LEMMA NextCanonical ==
  ASSUME Inv, Inv', CanonInv, ScoredNext
  PROVE  CanonInv'
<1>0. TypeOK'
  BY DEF Inv
<1>1. CASE \E l \in Lessons : ScoredFfdPlace(l) \/ ScoredFfdMiss(l)
  BY <1>1 DEF ScoredFfdPlace, ScoredFfdMiss, FfdPlace, FfdMiss, FfdTurn, CanonInv
<1>2. CASE \E l \in Lessons : ScoredRebuildPlace(l)
  <2>1. PICK l \in Lessons : ScoredRebuildPlace(l)
    BY <1>2
  <2>2. RebuildPlace(l) /\ UNCHANGED canonical
    BY <2>1 DEF ScoredRebuildPlace
  <2>3. Base' = Base
    BY <1>0, <2>2, RebuildPlaceInv
  <2>4. phase \in {"rescue", "recreate"} /\ phase' = phase
    BY <2>2 DEF RebuildPlace, Rebuilding
  <2> QED
    BY <2>2, <2>3, <2>4 DEF CanonInv
<1>3. CASE \E l \in Lessons : ScoredRebuildMiss(l)
  <2>1. PICK l \in Lessons : RebuildMiss(l) /\ UNCHANGED canonical
    BY <1>3 DEF ScoredRebuildMiss, costVars
  <2>2. phase \in {"rescue", "recreate"} /\ phase' = phase /\ rows' = rows
    BY <2>1 DEF RebuildMiss, Rebuilding
  <2>3. attempt'.added = attempt.added /\ attempt'.ruined = attempt.ruined
    BY <2>1, <2>2 DEF RebuildMiss, Inv, TypeOK, AttemptType
  <2>4. Base' = Base
    BY <2>2, <2>3 DEF Base
  <2> QED
    BY <2>1, <2>2, <2>4 DEF CanonInv
<1>4. CASE \/ \E l \in Lessons : ScoredChangeN1(l) \/ ScoredChangeBlock(l)
           \/ \E l, m \in Lessons : ScoredSwap(l, m)
  <2>1. canonical' = ScoreSolution(rows') /\ phase' = "search"
    BY <1>4 DEF ScoredChangeN1, ScoredChangeBlock, ScoredSwap, Repriced, Change, Swap, Searching
  <2> QED
    BY <2>1 DEF CanonInv
<1>5. CASE \E l \in Lessons : ScoredHomeRoomRepair(l)
  BY <1>5, RepairedCanonical DEF CanonInv
<1>6. CASE (\E l \in Lessons : ScoredRescue(l)) \/ ScoredRuin
  <2>1. (Ruin \/ \E l \in Lessons : Rescue(l)) /\ UNCHANGED canonical
    BY <1>6 DEF ScoredRescue, ScoredRuin, BookRuin
  <2>2. PICK R : Uproots(R)
    BY <2>1, StartUproots
  <2>3. /\ phase \in {"search", "ruin"} /\ phase' \in {"rescue", "recreate"}
    BY <2>1 DEF Ruin, Rescue
  <2>4. Base' = rows
    BY <2>2 DEF Uproots, TakeOut, Base
  <2> QED
    BY <2>1, <2>3, <2>4 DEF CanonInv
<1>7. CASE ScoredFfdEnd
  BY <1>7 DEF ScoredFfdEnd, FfdEnd, CanonInv
<1>8. CASE ScoredKeep
  BY <1>8 DEF ScoredKeep, Keep, CanonInv
<1>9. CASE ScoredUndo
  <2>1. Undo /\ canonical' = canonical
    BY <1>9 DEF ScoredUndo
  <2>2. rows' = Base
    BY <1>0, <2>1, UndoInv
  <2>3. phase \in {"rescue", "recreate"} /\ phase' \in {"search", "ruin"}
    BY <2>1 DEF Undo, Rebuilt
  <2> QED
    BY <2>1, <2>2, <2>3 DEF CanonInv
<1>10. CASE Idle
  <2>1. /\ phase \in {"search", "ruin"} /\ phase' = "search"
        /\ UNCHANGED <<rows, canonical>>
    BY <1>10 DEF Idle, NothingToRuin, vars
  <2> QED
    BY <2>1 DEF CanonInv
<1>11. CASE ScoredFinish
  BY <1>11 DEF ScoredFinish, Finish, CanonInv
<1> QED
  BY <1>1, <1>2, <1>3, <1>4, <1>5, <1>6, <1>7, <1>8, <1>9, <1>10, <1>11 DEF ScoredNext

\* At the head of the loop the running cost is what pricing the schedule from
\* nothing gives, whichever path priced the moves, refused and undone ones
\* included.
THEOREM CanonicalAlwaysExact == ScoredSpec => []CanonicalExact
<1>1. ScoredInit => CanonInv
  BY DEF ScoredInit, Init, CanonInv
<1>2. (Inv /\ VInv) /\ (Inv /\ VInv)' /\ CanonInv /\ [ScoredNext]_<<vars, costVars>> => CanonInv'
  <2> SUFFICES ASSUME Inv, Inv', CanonInv, [ScoredNext]_<<vars, costVars>> PROVE CanonInv'
    OBVIOUS
  <2>1. CASE ScoredNext
    BY <2>1, NextCanonical
  <2>2. CASE UNCHANGED <<vars, costVars>>
    BY <2>2 DEF vars, costVars, CanonInv, Base
  <2> QED
    BY <2>1, <2>2
<1>3. CanonInv => CanonicalExact
  BY DEF CanonInv, CanonicalExact
<1> QED
  BY <1>1, <1>2, <1>3, ScoredInvariance, PTL DEF ScoredSpec

-----------------------------------------------------------------------------
(* The running best.                                                        *)

\* What TimetableSearch compares schedules by is the price.
ScoreIsPrice == \A R \in SUBSET Row : Score(R) = ScoreSolution(R)

\* The running best is remembered with its own price.
PromisedInv == phase # "ffd" => promised = ScoreSolution(best)

\* Only the tail of an iteration, and the end of the greedy pass, set it.
LEMMA TailOrNot ==
  ASSUME ScoredNext
  PROVE  \/ Tick /\ IterationEnds
         \/ ScoredFfdEnd
         \/ /\ UNCHANGED <<best, promised>> /\ ~IterationEnds
            /\ phase = "ffd" => phase' = "ffd"
<1>1. CASE \E l \in Lessons : \/ ScoredFfdPlace(l) \/ ScoredFfdMiss(l) \/ ScoredRebuildPlace(l)
                              \/ ScoredRebuildMiss(l)
  BY <1>1 DEF ScoredFfdPlace, ScoredFfdMiss, ScoredRebuildPlace, ScoredRebuildMiss, FfdPlace,
              FfdMiss, FfdTurn, RebuildPlace, RebuildMiss, Rebuilding, costVars, IterationEnds
<1>2. CASE \E l \in Lessons : ScoredRescue(l)
  BY <1>2 DEF ScoredRescue, BookRuin, Rescue, IterationEnds
<1>3. CASE \/ \E l \in Lessons : \/ ScoredChangeN1(l) \/ ScoredChangeBlock(l)
                                 \/ ScoredHomeRoomRepair(l)
           \/ \E l, m \in Lessons : ScoredSwap(l, m)
  BY <1>3 DEF ScoredChangeN1, ScoredChangeBlock, ScoredHomeRoomRepair, ScoredSwap, Repriced,
              Change, Swap, HomeRoomRepair, Searching, IterationEnds
<1>4. CASE ScoredRuin \/ ScoredFinish
  BY <1>4 DEF ScoredRuin, BookRuin, Ruin, ScoredFinish, Finish, costVars, IterationEnds
<1>5. CASE ScoredKeep
  BY <1>5 DEF ScoredKeep, Keep, Rebuilt, IterationEnds
<1>6. CASE ScoredUndo
  BY <1>6 DEF ScoredUndo, Undo, Rebuilt, IterationEnds
<1>7. CASE Idle
  BY <1>7 DEF Idle, NothingToRuin, vars, IterationEnds
<1> QED
  BY <1>1, <1>2, <1>3, <1>4, <1>5, <1>6, <1>7 DEF ScoredNext

\* The running cost decides as the price would.
LEMMA TailPriced ==
  ASSUME Inv, Inv', CanonInv', PromisedInv, Tick, IterationEnds
  PROVE  PromisedInv' /\ (ScoreIsPrice => BestPriced)
<1>1. /\ canonical' = ScoreSolution(rows') /\ promised = ScoreSolution(best)
      /\ best \in SUBSET Row /\ rows' \in SUBSET Row
  BY DEF IterationEnds, CanonInv, PromisedInv, Inv, TypeOK
<1>2. /\ best' = IF IsBetter THEN rows' ELSE best
      /\ promised' = IF IsBetter THEN canonical' ELSE promised
  BY DEF Tick
<1>3. PromisedInv'
  BY <1>1, <1>2 DEF PromisedInv
<1>4. ScoreIsPrice => (IsBetter <=> Better(rows', best))
  BY <1>1 DEF ScoreIsPrice, IsBetter, Better
<1> QED
  BY <1>2, <1>3, <1>4 DEF BestPriced

\* So it is after every step.
LEMMA NextPromised ==
  ASSUME Inv, Inv', CanonInv', PromisedInv, ScoredNext
  PROVE  PromisedInv' /\ (ScoreIsPrice => BestPriced)
<1>1. CASE Tick /\ IterationEnds
  BY <1>1, TailPriced
<1>2. CASE ScoredFfdEnd
  BY <1>2 DEF ScoredFfdEnd, FfdEnd, PromisedInv, BestPriced, IterationEnds
<1>3. CASE /\ UNCHANGED <<best, promised>> /\ ~IterationEnds
           /\ phase = "ffd" => phase' = "ffd"
  BY <1>3 DEF PromisedInv, BestPriced
<1> QED
  BY <1>1, <1>2, <1>3, TailOrNot

\* Whatever the weights prefer and late acceptance admits, the search behaves
\* as TimetableSearch says, in its choice of the running best too: the cost it
\* carries along decides as the price of the schedules would.
THEOREM ScoresOnlyChoose ==
  ASSUME ScoreIsPrice
  PROVE  ScoredSpec => Spec
<1>1. ScoredInit => Init /\ CanonInv /\ PromisedInv
  BY DEF ScoredInit, Init, CanonInv, PromisedInv
<1>2. (Inv /\ VInv) /\ (Inv /\ VInv)' /\ CanonInv /\ [ScoredNext]_<<vars, costVars>> => CanonInv'
  <2> SUFFICES ASSUME Inv, Inv', CanonInv, [ScoredNext]_<<vars, costVars>> PROVE CanonInv'
    OBVIOUS
  <2>1. CASE UNCHANGED <<vars, costVars>>
    BY <2>1 DEF vars, costVars, CanonInv, Base
  <2> QED
    BY <2>1, NextCanonical
<1>3. /\ (Inv /\ VInv) /\ (Inv /\ VInv)' /\ CanonInv' /\ PromisedInv
      /\ [ScoredNext]_<<vars, costVars>>
      => PromisedInv' /\ [PricedNext]_vars
  <2> SUFFICES ASSUME Inv, Inv', CanonInv', PromisedInv, [ScoredNext]_<<vars, costVars>>
               PROVE  PromisedInv' /\ [PricedNext]_vars
    OBVIOUS
  <2>1. CASE UNCHANGED <<vars, costVars>>
    BY <2>1 DEF vars, costVars, PromisedInv
  <2>2. CASE ScoredNext
    BY <2>2, ScoredStep, NextPromised DEF PricedNext
  <2> QED
    BY <2>1, <2>2
<1> QED
  BY <1>1, <1>2, <1>3, ScoredInvariance, PTL DEF ScoredSpec, Spec

-----------------------------------------------------------------------------
(* One hour moves.                                                          *)

\* The hour at o of each of A moves to w.
HourMoves(X, A, pos, new, o, w) ==
    /\ ByDay(X, pos) /\ ByDay(X, new)
    /\ \A x \in X \X AllDays :
         new[x] = IF x[1] \in A
                  THEN (pos[x] \ (IF x[2] = Day(o) THEN {Pos(o)} ELSE {}))
                         \cup (IF x[2] = Day(w) THEN {Pos(w)} ELSE {})
                  ELSE pos[x]
    /\ \A c \in A : Pos(o) \in pos[<<c, Day(o)>>]

\* partition_delta, summed over who moves, is what the gap-hours change by.
LEMMA PartitionExact ==
  ASSUME NEW X, IsFiniteSet(X), NEW A \in SUBSET X, NEW pos, NEW new,
         NEW o \in Slots, NEW w \in Slots, HourMoves(X, A, pos, new, o, w)
  PROVE  /\ GapHours(new) - GapHours(pos)
              = SumFunction([c \in A |-> PartitionDelta(pos[<<c, Day(o)>>], pos[<<c, Day(w)>>], o, w)])
         /\ GapHours(new) \in Int /\ GapHours(pos) \in Int
         /\ \A c \in A : PartitionDelta(pos[<<c, Day(o)>>], pos[<<c, Day(w)>>], o, w) \in Int
<1> DEFINE d == Day(o)
           e == Day(w)
<1>1. d \in AllDays /\ e \in AllDays /\ Pos(o) \in Nat /\ Pos(w) \in Nat
  BY DaysNumbered DEF TimeBlocks
<1>2. ByDay(X, pos) /\ ByDay(X, new)
  BY DEF HourMoves
<1>3. \A x \in X \X AllDays : pos[x] \in HourSets /\ new[x] \in HourSets
  BY <1>2 DEF ByDay
<1>4. ASSUME NEW c \in A
      PROVE  /\ <<c, d>> \in X \X AllDays /\ <<c, e>> \in X \X AllDays
             /\ Pos(o) \in pos[<<c, d>>]
             /\ pos[<<c, d>>] \in HourSets /\ pos[<<c, e>>] \in HourSets
             /\ new[<<c, d>>] \in HourSets /\ new[<<c, e>>] \in HourSets
  BY <1>1, <1>3 DEF HourMoves
<1>5. ASSUME NEW x \in X \X AllDays
      PROVE  new[x] = IF x[1] \in A
                      THEN (pos[x] \ (IF x[2] = d THEN {Pos(o)} ELSE {}))
                             \cup (IF x[2] = e THEN {Pos(w)} ELSE {})
                      ELSE pos[x]
  BY DEF HourMoves
<1>6. CASE d = e
  <2>1. \A x \in X \X AllDays : x \notin A \X {d} => new[x] = pos[x]
    <3> SUFFICES ASSUME NEW x \in X \X AllDays, x \notin A \X {d} PROVE new[x] = pos[x]
      OBVIOUS
    <3>1. x[1] \notin A \/ x[2] # d
      OBVIOUS
    <3> QED
      BY ONLY <1>5, <1>6, <3>1, x \in X \X AllDays
  <2>2. ASSUME NEW c \in A
        PROVE  /\ PartitionDelta(pos[<<c, d>>], pos[<<c, e>>], o, w)
                    = GapCount(new[<<c, d>>]) - GapCount(pos[<<c, d>>])
               /\ PartitionDelta(pos[<<c, d>>], pos[<<c, e>>], o, w) \in Int
    <3>1. new[<<c, d>>] = (pos[<<c, d>>] \ {Pos(o)}) \cup {Pos(w)}
      <4>1. <<c, d>> \in X \X AllDays
        BY <1>4
      <4>2. \A x \in X \X AllDays : x[1] \in A /\ x[2] = d /\ x[2] = e
              => new[x] = (pos[x] \ {Pos(o)}) \cup {Pos(w)}
        BY ONLY <1>5
      <4> QED
        BY ONLY <1>6, <4>1, <4>2
    <3>2. GapAfterSwap(pos[<<c, d>>], Pos(o), Pos(w)) = GapCount((pos[<<c, d>>] \ {Pos(o)}) \cup {Pos(w)})
      BY <1>1, <1>4, SwapExact
    <3>3. PartitionDelta(pos[<<c, d>>], pos[<<c, e>>], o, w)
            = GapCount(new[<<c, d>>]) - GapCount(pos[<<c, d>>])
      BY <1>6, <3>1, <3>2 DEF PartitionDelta
    <3>4. GapCount(new[<<c, d>>]) \in Nat /\ GapCount(pos[<<c, d>>]) \in Nat
      BY <1>4, GapNat
    <3> QED
      BY ONLY <3>3, <3>4
  <2>3. [c \in A |-> PartitionDelta(pos[<<c, d>>], pos[<<c, e>>], o, w)]
          = [c \in A |-> GapCount(new[<<c, d>>]) - GapCount(pos[<<c, d>>])]
    BY <2>2
  <2> HIDE DEF d, e
  <2>4. /\ GapHours(new) - GapHours(pos)
             = SumFunction([c \in A |-> GapCount(new[<<c, d>>]) - GapCount(pos[<<c, d>>])])
        /\ GapHours(new) \in Int /\ GapHours(pos) \in Int
    BY <1>1, <1>2, <2>1, DayShift
  <2> QED
    BY <2>2, <2>3, <2>4 DEF d, e
<1>7. CASE d # e
  <2> DEFINE mid == [x \in X \X AllDays |-> IF x \in A \X {d} THEN pos[x] \ {Pos(o)} ELSE pos[x]]
             f == [c \in A |-> GapCount(mid[<<c, d>>]) - GapCount(pos[<<c, d>>])]
             h == [c \in A |-> GapCount(new[<<c, e>>]) - GapCount(mid[<<c, e>>])]
  <2>1. ByDay(X, mid)
    <3>1. ASSUME NEW x \in X \X AllDays, x \in A \X {d} PROVE pos[x] \ {Pos(o)} \in HourSets
      <4>1. PICK c \in A : x = <<c, d>>
        BY <3>1
      <4> QED
        BY <1>4, <4>1, HourRemoved
    <3> QED
      BY <1>3, <3>1 DEF ByDay
  <2>2. \A x \in X \X AllDays : x \notin A \X {d} => mid[x] = pos[x]
    OBVIOUS
  <2>3. ASSUME NEW x \in X \X AllDays, x \notin A \X {e} PROVE new[x] = mid[x]
    <3>1. CASE x \in A \X {d}
      <4>1. x[1] \in A /\ x[2] = d
        BY <3>1
      <4>2. new[x] = pos[x] \ {Pos(o)}
        BY <1>5, <1>7, <4>1
      <4> QED
        BY <3>1, <4>2
    <3>2. CASE x \notin A \X {d}
      <4>1. x[1] \notin A \/ (x[2] # d /\ x[2] # e)
        BY <2>3, <3>2
      <4>2. new[x] = pos[x]
        BY <1>5, <4>1
      <4> QED
        BY <3>2, <4>2
    <3> QED
      BY <3>1, <3>2
  <2>4. ASSUME NEW c \in A
        PROVE  /\ mid[<<c, d>>] = pos[<<c, d>>] \ {Pos(o)}
               /\ mid[<<c, e>>] = pos[<<c, e>>]
               /\ new[<<c, e>>] = pos[<<c, e>>] \cup {Pos(w)}
    <3>1. <<c, d>> \in A \X {d} /\ <<c, e>> \notin A \X {d}
      BY <1>7
    <3> QED
      BY <1>4, <1>5, <1>7, <3>1
  <2> HIDE DEF mid
  <2>5. ASSUME NEW c \in A
        PROVE  /\ f[c] \in Int /\ h[c] \in Int
               /\ PartitionDelta(pos[<<c, d>>], pos[<<c, e>>], o, w) = f[c] + h[c]
               /\ PartitionDelta(pos[<<c, d>>], pos[<<c, e>>], o, w) \in Int
    <3>0. /\ pos[<<c, d>>] \in HourSets /\ Pos(o) \in pos[<<c, d>>] /\ pos[<<c, e>>] \in HourSets
          /\ mid[<<c, d>>] = pos[<<c, d>>] \ {Pos(o)}
          /\ new[<<c, e>>] = pos[<<c, e>>] \cup {Pos(w)}
      BY <1>4, <2>4
    <3>1. GapAfterRemove(pos[<<c, d>>], Pos(o)) = GapCount(mid[<<c, d>>])
      BY ONLY <3>0, RemoveExact
    <3>2. GapAfterInsert(pos[<<c, e>>], Pos(w)) = GapCount(new[<<c, e>>])
      BY ONLY <1>1, <3>0, InsertExact
    <3>3. PartitionDelta(pos[<<c, d>>], pos[<<c, e>>], o, w)
            = (GapCount(mid[<<c, d>>]) - GapCount(pos[<<c, d>>]))
              + (GapCount(new[<<c, e>>]) - GapCount(pos[<<c, e>>]))
      BY <1>7, <3>1, <3>2 DEF PartitionDelta
    <3>6. f[c] = GapCount(mid[<<c, d>>]) - GapCount(pos[<<c, d>>])
      OBVIOUS
    <3>7. h[c] = GapCount(new[<<c, e>>]) - GapCount(pos[<<c, e>>])
      BY <2>4
    <3>4. mid[<<c, d>>] \in HourSets
      BY <1>4, <2>1 DEF ByDay
    <3>5. /\ GapCount(mid[<<c, d>>]) \in Nat /\ GapCount(pos[<<c, d>>]) \in Nat
          /\ GapCount(new[<<c, e>>]) \in Nat /\ GapCount(pos[<<c, e>>]) \in Nat
      BY <1>4, <3>4, GapNat
    <3> QED
      BY ONLY <3>3, <3>5, <3>6, <3>7
  <2>6. f \in [A -> Int] /\ h \in [A -> Int]
    BY <2>5
  <2>14. \A c \in A : PartitionDelta(pos[<<c, d>>], pos[<<c, e>>], o, w) \in Int
    BY <2>5
  <2>7. [c \in A |-> PartitionDelta(pos[<<c, d>>], pos[<<c, e>>], o, w)] = [c \in A |-> f[c] + h[c]]
    BY <2>5
  <2> HIDE DEF d, e
  <2>8. /\ GapHours(mid) - GapHours(pos) = SumFunction(f)
        /\ GapHours(mid) \in Int /\ GapHours(pos) \in Int
    BY <1>1, <1>2, <2>1, <2>2, DayShift
  <2>9. /\ GapHours(new) - GapHours(mid) = SumFunction(h)
        /\ GapHours(new) \in Int
    BY <1>1, <1>2, <2>1, <2>3, DayShift
  <2>10. IsFiniteSet(A)
    BY FS_Subset
  <2> HIDE DEF f, h
  <2>11. /\ SumFunction([c \in A |-> f[c] + h[c]]) = SumFunction(f) + SumFunction(h)
         /\ SumFunction(f) \in Int /\ SumFunction(h) \in Int
    BY <2>6, <2>10, SumPlus, SumType
  <2>12. /\ GapHours(new) - GapHours(pos) = SumFunction([c \in A |-> f[c] + h[c]])
         /\ GapHours(new) \in Int /\ GapHours(pos) \in Int
    BY ONLY <2>8, <2>9, <2>11
  <2>13. /\ GapHours(new) - GapHours(pos)
              = SumFunction([c \in A |-> PartitionDelta(pos[<<c, d>>], pos[<<c, e>>], o, w)])
         /\ GapHours(new) \in Int /\ GapHours(pos) \in Int
    BY ONLY <2>7, <2>12
  <2> QED
    BY <2>13, <2>14 DEF d, e
<1> QED
  BY <1>6, <1>7

\* q is row p, of schedule R, at another slot where its classes and its teacher
\* are free.
Shifts(R, p, q) ==
    /\ R \in SUBSET Row /\ NoDoubleBooking(R) /\ p \in R /\ q \in Row
    /\ q.lesson = p.lesson /\ q.teacher = p.teacher
    /\ \A r \in R : r.slot = q.slot =>
         r.teacher # p.teacher /\ ClassesOf[r.lesson] \cap ClassesOf[p.lesson] = {}

\* The positions of a schedule of one row.
LEMMA OneRowPositions ==
  ASSUME NEW p \in Row, NEW d \in AllDays
  PROVE  /\ \A c \in Classes : ClassPositions({p})[<<c, d>>]
              = IF c \in ClassesOf[p.lesson] /\ d = Day(p.slot) THEN {Pos(p.slot)} ELSE {}
         /\ \A t \in Teachers : TeacherPositions({p})[<<t, d>>]
              = IF t = p.teacher /\ d = Day(p.slot) THEN {Pos(p.slot)} ELSE {}
<1>1. ASSUME NEW c \in Classes
      PROVE  ClassPositions({p})[<<c, d>>]
               = IF c \in ClassesOf[p.lesson] /\ d = Day(p.slot) THEN {Pos(p.slot)} ELSE {}
  <2>1. ClassPositions({p})[<<c, d>>] = PositionsOf(ClassRows({p}, c), d)
    BY DEF ClassPositions
  <2> QED
    BY <2>1 DEF PositionsOf, ClassRows
<1>2. ASSUME NEW t \in Teachers
      PROVE  TeacherPositions({p})[<<t, d>>]
               = IF t = p.teacher /\ d = Day(p.slot) THEN {Pos(p.slot)} ELSE {}
  <2>1. TeacherPositions({p})[<<t, d>>] = PositionsOf(TeacherRows({p}, t), d)
    BY DEF TeacherPositions
  <2> QED
    BY <2>1 DEF PositionsOf, TeacherRows
<1> QED
  BY <1>1, <1>2

\* A row that moves, and where it was and comes to be.
LEMMA ShiftedRow ==
  ASSUME NEW R, NEW p, NEW q, Shifts(R, p, q), NEW Q, Q = (R \ {p}) \cup {q}
  PROVE  /\ p \in Row /\ q \in Row /\ q \notin R /\ Q \in SUBSET Row
         /\ R \ Q = {p} /\ Q \ R = {q}
         /\ p.slot \in Slots /\ q.slot \in Slots
         /\ p.lesson \in Lessons /\ p.teacher \in Teachers
         /\ ClassesOf[p.lesson] \in SUBSET Classes
<1>1. p \in Row /\ q \in Row /\ Q \in SUBSET Row
  BY DEF Shifts
<1>2. q \notin R
  BY DEF Shifts
<1>3. p.slot \in Slots /\ q.slot \in Slots /\ p.lesson \in Lessons /\ p.teacher \in Teachers
  BY <1>1 DEF Row
<1>4. ClassesOf[p.lesson] \in SUBSET Classes
  BY <1>3, ProblemAssumption DEF ValidLessons
<1>5. p \in R
  BY DEF Shifts
<1> QED
  BY <1>1, <1>2, <1>3, <1>4, <1>5

\* Its classes and its teacher move an hour, and nobody else does.
LEMMA ShiftMovesHours ==
  ASSUME NEW R, NEW p, NEW q, Shifts(R, p, q), NEW Q, Q = (R \ {p}) \cup {q}
  PROVE  /\ HourMoves(Classes, ClassesOf[p.lesson], ClassPositions(R), ClassPositions(Q),
                      p.slot, q.slot)
         /\ HourMoves(Teachers, {p.teacher}, TeacherPositions(R), TeacherPositions(Q),
                      p.slot, q.slot)
         /\ \A c \in ClassesOf[p.lesson] :
              Pos(q.slot) \notin ClassPositions(R)[<<c, Day(q.slot)>>]
<1>1. /\ R \in SUBSET Row /\ p \in R /\ q \in Row /\ p \in Row /\ Q \in SUBSET Row
      /\ NoDoubleBooking(R) /\ q.lesson = p.lesson /\ q.teacher = p.teacher
      /\ p.slot \in Slots /\ q.slot \in Slots
      /\ ClassesOf[p.lesson] \in SUBSET Classes /\ p.teacher \in Teachers
  <2>1. /\ R \in SUBSET Row /\ p \in R /\ q \in Row
        /\ NoDoubleBooking(R) /\ q.lesson = p.lesson /\ q.teacher = p.teacher
    BY DEF Shifts
  <2>2. /\ p \in Row /\ Q \in SUBSET Row /\ p.slot \in Slots /\ q.slot \in Slots
        /\ ClassesOf[p.lesson] \in SUBSET Classes /\ p.teacher \in Teachers
    BY ShiftedRow
  <2> QED
    BY ONLY <2>1, <2>2
<1>2. /\ Joined(Left(ClassPositions(R), ClassPositions({p})), ClassPositions({q}))
           = ClassPositions(Q)
      /\ Joined(Left(TeacherPositions(R), TeacherPositions({p})), TeacherPositions({q}))
           = TeacherPositions(Q)
  <2>1. {p} \in SUBSET R /\ {q} \in SUBSET Row
    BY <1>1
  <2> QED
    BY ONLY <1>1, <2>1, PositionsTraded, Q = (R \ {p}) \cup {q}
<1>3. /\ ByDay(Classes, ClassPositions(R)) /\ ByDay(Classes, ClassPositions(Q))
      /\ ByDay(Teachers, TeacherPositions(R)) /\ ByDay(Teachers, TeacherPositions(Q))
  BY <1>1, SchedulePositions
<1>4. /\ DOMAIN ClassPositions(R) = Classes \X AllDays
      /\ DOMAIN TeacherPositions(R) = Teachers \X AllDays
  BY DEF ClassPositions, TeacherPositions
<1>5. \A x \in Classes \X AllDays : ClassPositions(Q)[x]
        = (ClassPositions(R)[x] \ ClassPositions({p})[x]) \cup ClassPositions({q})[x]
  BY <1>2, <1>4 DEF Joined, Left
<1>6. \A x \in Teachers \X AllDays : TeacherPositions(Q)[x]
        = (TeacherPositions(R)[x] \ TeacherPositions({p})[x]) \cup TeacherPositions({q})[x]
  BY <1>2, <1>4 DEF Joined, Left
<1>7. ASSUME NEW x \in Classes \X AllDays
      PROVE  /\ ClassPositions({p})[x]
                  = IF x[1] \in ClassesOf[p.lesson] /\ x[2] = Day(p.slot) THEN {Pos(p.slot)} ELSE {}
             /\ ClassPositions({q})[x]
                  = IF x[1] \in ClassesOf[p.lesson] /\ x[2] = Day(q.slot) THEN {Pos(q.slot)} ELSE {}
  <2>1. PICK c \in Classes, d \in AllDays : x = <<c, d>>
    OBVIOUS
  <2> QED
    BY <1>1, <2>1, OneRowPositions
<1>8. ASSUME NEW x \in Teachers \X AllDays
      PROVE  /\ TeacherPositions({p})[x]
                  = IF x[1] = p.teacher /\ x[2] = Day(p.slot) THEN {Pos(p.slot)} ELSE {}
             /\ TeacherPositions({q})[x]
                  = IF x[1] = p.teacher /\ x[2] = Day(q.slot) THEN {Pos(q.slot)} ELSE {}
  <2>1. PICK t \in Teachers, d \in AllDays : x = <<t, d>>
    OBVIOUS
  <2>2. \A r \in Row : TeacherPositions({r})[<<t, d>>]
          = IF t = r.teacher /\ d = Day(r.slot) THEN {Pos(r.slot)} ELSE {}
    BY OneRowPositions
  <2> QED
    BY ONLY <1>1, <2>1, <2>2
<1>9. Day(p.slot) \in AllDays /\ Day(q.slot) \in AllDays
  BY <1>1, DaysNumbered DEF TimeBlocks
<1>10. ASSUME NEW c \in ClassesOf[p.lesson]
       PROVE  /\ Pos(p.slot) \in ClassPositions(R)[<<c, Day(p.slot)>>]
              /\ Pos(q.slot) \notin ClassPositions(R)[<<c, Day(q.slot)>>]
  <2>1. c \in Classes /\ ClassRows(R, c) \in SUBSET Row
    BY <1>1 DEF ClassRows
  <2>2. \A d \in AllDays : ClassPositions(R)[<<c, d>>] = PositionsOf(ClassRows(R, c), d)
    BY <2>1 DEF ClassPositions
  <2>3. p \in ClassRows(R, c)
    BY <1>1 DEF ClassRows
  <2>4. Pos(p.slot) \in PositionsOf(ClassRows(R, c), Day(p.slot))
    BY <2>3 DEF PositionsOf
  <2>5. ASSUME NEW r \in ClassRows(R, c), r.slot = <<Day(q.slot), Pos(q.slot)>> PROVE FALSE
    <3>1. r \in R /\ c \in ClassesOf[r.lesson]
      BY DEF ClassRows
    <3>2. q.slot = <<Day(q.slot), Pos(q.slot)>>
      BY <1>1, ProblemAssumption DEF Day, Pos
    <3>3. ClassesOf[r.lesson] \cap ClassesOf[p.lesson] = {}
      BY <2>5, <3>1, <3>2 DEF Shifts
    <3> QED
      BY <3>1, <3>3
  <2>6. Pos(q.slot) \notin PositionsOf(ClassRows(R, c), Day(q.slot))
    <3>1. Pos(q.slot) \in PositionsOf(ClassRows(R, c), Day(q.slot))
            <=> \E r \in ClassRows(R, c) : r.slot = <<Day(q.slot), Pos(q.slot)>>
      BY ONLY <2>1, PositionRow
    <3> QED
      BY ONLY <2>5, <3>1
  <2> QED
    BY <1>9, <2>2, <2>4, <2>6
<1>11. Pos(p.slot) \in TeacherPositions(R)[<<p.teacher, Day(p.slot)>>]
  <2>1. TeacherPositions(R)[<<p.teacher, Day(p.slot)>>]
          = PositionsOf(TeacherRows(R, p.teacher), Day(p.slot))
    BY <1>1, <1>9 DEF TeacherPositions
  <2> QED
    BY <1>1, <2>1 DEF PositionsOf, TeacherRows
<1>12. HourMoves(Classes, ClassesOf[p.lesson], ClassPositions(R), ClassPositions(Q), p.slot, q.slot)
  <2>1. ASSUME NEW x \in Classes \X AllDays
        PROVE  ClassPositions(Q)[x]
                 = IF x[1] \in ClassesOf[p.lesson]
                   THEN (ClassPositions(R)[x] \ (IF x[2] = Day(p.slot) THEN {Pos(p.slot)} ELSE {}))
                          \cup (IF x[2] = Day(q.slot) THEN {Pos(q.slot)} ELSE {})
                   ELSE ClassPositions(R)[x]
    BY ONLY <1>5, <1>7, x \in Classes \X AllDays
  <2> QED
    BY ONLY <1>3, <1>10, <2>1 DEF HourMoves
<1>13. HourMoves(Teachers, {p.teacher}, TeacherPositions(R), TeacherPositions(Q), p.slot, q.slot)
  <2>1. ASSUME NEW x \in Teachers \X AllDays
        PROVE  TeacherPositions(Q)[x]
                 = IF x[1] \in {p.teacher}
                   THEN (TeacherPositions(R)[x] \ (IF x[2] = Day(p.slot) THEN {Pos(p.slot)} ELSE {}))
                          \cup (IF x[2] = Day(q.slot) THEN {Pos(q.slot)} ELSE {})
                   ELSE TeacherPositions(R)[x]
    BY ONLY <1>6, <1>8, x \in Teachers \X AllDays
  <2> QED
    BY ONLY <1>3, <1>11, <2>1 DEF HourMoves
<1> QED
  BY <1>10, <1>12, <1>13

\* A weight on a difference of sums.
LEMMA Distributed ==
  ASSUME NEW w \in Int, NEW m \in Int, NEW n \in Int
  PROVE  w * (m - n) = w * m - w * n /\ w * m \in Int /\ w * n \in Int
OBVIOUS

\* score_after_change_move: the slice of the schedule with the row moved.
LEMMA SliceDeltaExact ==
  ASSUME NEW p, NEW q, Shifts(rows, p, q), NEW Q, Q = (rows \ {p}) \cup {q},
         classPos = ClassPositions(rows), teacherPos = TeacherPositions(rows)
  PROVE  SliceDelta(p, q) = SliceCost(Q) - SliceCost(rows)
<1> DEFINE A == ClassesOf[p.lesson]
           o == p.slot
           w == q.slot
           cp == ClassPositions(rows)
           tp == TeacherPositions(rows)
           cdelta == SumFunction([c \in A |-> PartitionDelta(cp[<<c, Day(o)>>], cp[<<c, Day(w)>>], o, w)])
           tdelta == PartitionDelta(tp[<<p.teacher, Day(o)>>], tp[<<p.teacher, Day(w)>>], o, w)
           pold == SubjectPreference(SubjectOf[p.lesson], p.slot)
           pnew == SubjectPreference(SubjectOf[p.lesson], q.slot)
<1>1. /\ rows \in SUBSET Row /\ Q \in SUBSET Row /\ p \in Row /\ q \in Row
      /\ o \in Slots /\ w \in Slots /\ A \in SUBSET Classes /\ p.teacher \in Teachers
      /\ rows \ Q = {p} /\ Q \ rows = {q} /\ q.lesson = p.lesson /\ p.lesson \in Lessons
  <2>1. rows \in SUBSET Row /\ q.lesson = p.lesson
    BY DEF Shifts
  <2>2. /\ Q \in SUBSET Row /\ p \in Row /\ q \in Row
        /\ o \in Slots /\ w \in Slots /\ A \in SUBSET Classes /\ p.teacher \in Teachers
        /\ rows \ Q = {p} /\ Q \ rows = {q} /\ p.lesson \in Lessons
    BY ShiftedRow
  <2> QED
    BY ONLY <2>1, <2>2
<1>2. /\ HourMoves(Classes, A, cp, ClassPositions(Q), o, w)
      /\ HourMoves(Teachers, {p.teacher}, tp, TeacherPositions(Q), o, w)
  BY ShiftMovesHours
<1>3. IsFiniteSet(Classes) /\ IsFiniteSet(Teachers)
  BY ProblemAssumption
<1>4. SliceDelta(p, q)
        = Weight["classGap"] * cdelta + Weight["teacherGap"] * tdelta + pnew - pold
  BY DEF SliceDelta
<1>5. /\ SliceCost(rows) = Weight["classGap"] * GapHours(cp) + Weight["teacherGap"] * GapHours(tp)
                           + RowPreference(rows)
      /\ SliceCost(Q) = Weight["classGap"] * GapHours(ClassPositions(Q))
                        + Weight["teacherGap"] * GapHours(TeacherPositions(Q)) + RowPreference(Q)
  BY DEF SliceCost
<1>6. pold \in Nat /\ pnew \in Nat
  BY <1>1, PreferenceNat, ProblemAssumption DEF ValidLessons
<1>7. RowPreference(Q) = RowPreference(rows) + pnew - pold
  <2>1. RowPreference(Q) = RowPreference(rows) + RowPreference({q}) - RowPreference({p})
    BY <1>1, WishesRepriced
  <2>2. RowPreference({q}) = pnew /\ RowPreference({p}) = pold
    BY <1>1, WishesRepriced
  <2> HIDE DEF pnew, pold
  <2> QED
    BY ONLY <2>1, <2>2
<1>8. RowPreference(rows) \in Nat
  BY <1>1, RowSumsNat
<1> HIDE DEF A, o, w, cp, tp, pold, pnew
<1>9. /\ GapHours(ClassPositions(Q)) - GapHours(cp) = cdelta
      /\ GapHours(ClassPositions(Q)) \in Int /\ GapHours(cp) \in Int
  <2>1. /\ GapHours(ClassPositions(Q)) - GapHours(cp)
             = SumFunction([c \in A |-> PartitionDelta(cp[<<c, Day(o)>>], cp[<<c, Day(w)>>], o, w)])
        /\ GapHours(ClassPositions(Q)) \in Int /\ GapHours(cp) \in Int
        /\ \A c \in A : PartitionDelta(cp[<<c, Day(o)>>], cp[<<c, Day(w)>>], o, w) \in Int
    BY ONLY <1>1, <1>2, <1>3, PartitionExact
  <2> QED
    BY <2>1
<1>10. /\ GapHours(TeacherPositions(Q)) - GapHours(tp) = tdelta
       /\ GapHours(TeacherPositions(Q)) \in Int /\ GapHours(tp) \in Int
  <2> DEFINE g == [t \in {p.teacher} |-> PartitionDelta(tp[<<t, Day(o)>>], tp[<<t, Day(w)>>], o, w)]
  <2>1. {p.teacher} \in SUBSET Teachers
    BY <1>1
  <2>2. /\ GapHours(TeacherPositions(Q)) - GapHours(tp) = SumFunction(g)
        /\ GapHours(TeacherPositions(Q)) \in Int /\ GapHours(tp) \in Int
        /\ \A t \in {p.teacher} : PartitionDelta(tp[<<t, Day(o)>>], tp[<<t, Day(w)>>], o, w) \in Int
    BY ONLY <1>1, <1>2, <1>3, <2>1, PartitionExact
  <2>3. g \in [{p.teacher} -> Int] /\ g[p.teacher] = tdelta
    BY ONLY <2>2
  <2> HIDE DEF g, tdelta
  <2>4. SumFunction(g) = SumFunctionOnSet(g, {p.teacher})
    BY ONLY <2>3, SumType, FS_Singleton
  <2>5. SumFunctionOnSet(g, {p.teacher}) = g[p.teacher]
    BY ONLY <2>3, SumOne
  <2> QED
    BY ONLY <2>2, <2>3, <2>4, <2>5
<1> HIDE DEF cdelta, tdelta
<1>11. Weight["classGap"] \in Int /\ Weight["teacherGap"] \in Int
  BY WeightAssumption DEF Axes
<1>12. /\ Weight["classGap"] * cdelta
            = Weight["classGap"] * GapHours(ClassPositions(Q)) - Weight["classGap"] * GapHours(cp)
       /\ Weight["classGap"] * GapHours(ClassPositions(Q)) \in Int
       /\ Weight["classGap"] * GapHours(cp) \in Int
  BY ONLY <1>9, <1>11, Distributed
<1>13. /\ Weight["teacherGap"] * tdelta
            = Weight["teacherGap"] * GapHours(TeacherPositions(Q)) - Weight["teacherGap"] * GapHours(tp)
       /\ Weight["teacherGap"] * GapHours(TeacherPositions(Q)) \in Int
       /\ Weight["teacherGap"] * GapHours(tp) \in Int
  BY ONLY <1>10, <1>11, Distributed
<1> QED
  BY ONLY <1>4, <1>5, <1>6, <1>7, <1>8, <1>12, <1>13

\* balance_after_move: the spread of a class one of whose hours moves.
LEMMA MovedSpread ==
  ASSUME NEW A \in SUBSET Classes, NEW pos, NEW new, NEW o \in Slots, NEW w \in Slots,
         HourMoves(Classes, A, pos, new, o, w), NEW c \in A, Pos(w) \notin pos[<<c, Day(w)>>]
  PROVE  BalanceAfterMove(pos, c, Day(o), Day(w)) = BalanceOf(new, c)
<1> DEFINE d == Day(o)
           e == Day(w)
<1>1. d \in AllDays /\ e \in AllDays /\ Pos(o) \in Nat /\ Pos(w) \in Nat
  BY DaysNumbered DEF TimeBlocks
<1>2. ASSUME NEW x \in AllDays
      PROVE  /\ pos[<<c, x>>] \in HourSets
             /\ new[<<c, x>>] = (pos[<<c, x>>] \ (IF x = d THEN {Pos(o)} ELSE {}))
                                   \cup (IF x = e THEN {Pos(w)} ELSE {})
  <2>1. <<c, x>> \in Classes \X AllDays
    OBVIOUS
  <2>2. \A z \in Classes \X AllDays :
           new[z] = IF z[1] \in A
                    THEN (pos[z] \ (IF z[2] = Day(o) THEN {Pos(o)} ELSE {}))
                           \cup (IF z[2] = Day(w) THEN {Pos(w)} ELSE {})
                    ELSE pos[z]
    BY DEF HourMoves
  <2>3. new[<<c, x>>] = IF <<c, x>>[1] \in A
                    THEN (pos[<<c, x>>] \ (IF <<c, x>>[2] = Day(o) THEN {Pos(o)} ELSE {}))
                           \cup (IF <<c, x>>[2] = Day(w) THEN {Pos(w)} ELSE {})
                    ELSE pos[<<c, x>>]
    BY <2>1, <2>2
  <2>4. pos[<<c, x>>] \in HourSets
    BY <2>1 DEF HourMoves, ByDay
  <2> QED
    BY <2>3, <2>4
<1>3. Pos(o) \in pos[<<c, d>>] /\ Pos(w) \notin pos[<<c, e>>]
  BY DEF HourMoves
<1> DEFINE load(x) == Cardinality(pos[<<c, x>>])
<1> HIDE DEF d, e
<1>4. ASSUME NEW x \in AllDays
      PROVE  /\ load(x) \in Nat
             /\ x = d => load(x) >= 1
             /\ Cardinality(new[<<c, x>>])
                  = load(x) - (IF x = d THEN 1 ELSE 0) + (IF x = e THEN 1 ELSE 0)
  <2> DEFINE P == pos[<<c, x>>]
             M == IF x = d THEN P \ {Pos(o)} ELSE P
  <2>0. P \in HourSets /\ (x = d => Pos(o) \in P) /\ (x = e => Pos(w) \notin P)
    BY <1>2, <1>3
  <2> HIDE DEF P
  <2>1. /\ M \in HourSets /\ Cardinality(P) \in Nat
        /\ x = d => Cardinality(P) >= 1
        /\ Cardinality(M) = Cardinality(P) - (IF x = d THEN 1 ELSE 0)
    <3>1. CASE x = d
      <4>1. /\ P \ {Pos(o)} \in HourSets
            /\ Cardinality(P) \in Nat /\ Cardinality(P) >= 1
            /\ Cardinality(P \ {Pos(o)}) = Cardinality(P) - 1
        BY <2>0, <3>1, HourRemoved
      <4> QED
        BY <3>1, <4>1
    <3>2. CASE x # d
      <4>1. Cardinality(P) \in Nat
        BY <2>0, PositionsFit
      <4> QED
        BY <2>0, <3>2, <4>1
    <3> QED
      BY <3>1, <3>2
  <2>2. x = e => Pos(w) \notin M
    BY <2>0
  <2> HIDE DEF M
  <2>3. /\ Cardinality(M) \in Nat
        /\ Cardinality(M \cup {Pos(w)}) = Cardinality(M) + (IF Pos(w) \in M THEN 0 ELSE 1)
    BY <1>1, <2>1, HourAdded
  <2>4. new[<<c, x>>] = IF x = e THEN M \cup {Pos(w)} ELSE M
    BY <1>2 DEF M, P, d, e
  <2>5. Cardinality(new[<<c, x>>]) = Cardinality(M) + (IF x = e THEN 1 ELSE 0)
    BY <2>2, <2>3, <2>4
  <2> QED
    BY ONLY <2>1, <2>3, <2>5 DEF P, load
<1> DEFINE n == Loads(pos, c)
<1>5. \A x \in AllDays : n[x] = load(x)
  BY DEF Loads
<1> HIDE DEF load, n
<1>6. CASE d = e
  <2>1. \A x \in AllDays : Cardinality(new[<<c, x>>]) = n[x]
    BY ONLY <1>4, <1>5, <1>6
  <2>2. Loads(new, c) = Loads(pos, c)
    BY <2>1 DEF Loads, n
  <2> QED
    BY <1>6, <2>2 DEF BalanceAfterMove, BalanceOf, d, e
<1>7. CASE d # e
  <2>1. \A x \in AllDays : Cardinality(new[<<c, x>>])
            = CASE x = d -> Floor0(n[x] - 1) [] x = e -> n[x] + 1 [] OTHER -> n[x]
    <3> TAKE x \in AllDays
    <3>1. CASE x = d
      BY <1>4, <1>5, <1>7, <3>1 DEF Floor0, Higher
    <3>2. CASE x = e
      BY <1>4, <1>5, <1>7, <3>2
    <3>3. CASE x # d /\ x # e
      BY <1>4, <1>5, <1>7, <3>3
    <3> QED
      BY <3>1, <3>2, <3>3
  <2>2. Loads(new, c) = [x \in AllDays |->
            CASE x = d -> Floor0(n[x] - 1) [] x = e -> n[x] + 1 [] OTHER -> n[x]]
    BY <2>1 DEF Loads
  <2> QED
    BY <1>7, <2>2 DEF BalanceAfterMove, BalanceOf, d, e, n
<1> QED
  BY <1>6, <1>7

\* The same over all classes of a row that moves.
LEMMA BalanceDeltaExact ==
  ASSUME NEW p, NEW q, Shifts(rows, p, q), NEW Q, Q = (rows \ {p}) \cup {q},
         classPos = ClassPositions(rows)
  PROVE  BalanceDelta(p, q) = ClassDayBalance(Q) - ClassDayBalance(rows)
<1> DEFINE A == ClassesOf[p.lesson]
           cp == ClassPositions(rows)
           cq == ClassPositions(Q)
           f == [c \in Classes |-> BalanceOf(cp, c)]
           h == [c \in Classes |-> BalanceOf(cq, c)]
<1>1. /\ rows \in SUBSET Row /\ Q \in SUBSET Row
      /\ p.slot \in Slots /\ q.slot \in Slots /\ A \in SUBSET Classes
  <2>1. rows \in SUBSET Row
    BY DEF Shifts
  <2>2. /\ Q \in SUBSET Row
        /\ p.slot \in Slots /\ q.slot \in Slots /\ A \in SUBSET Classes
    BY ShiftedRow
  <2> QED
    BY ONLY <2>1, <2>2
<1>2. /\ HourMoves(Classes, A, cp, cq, p.slot, q.slot)
      /\ \A c \in A : Pos(q.slot) \notin cp[<<c, Day(q.slot)>>]
  BY ShiftMovesHours
<1>3. IsFiniteSet(Classes)
  BY ProblemAssumption
<1>4. f \in [Classes -> Int] /\ h \in [Classes -> Int]
  <2>1. ByDay(Classes, cp) /\ ByDay(Classes, cq)
    BY <1>1, SchedulePositions
  <2> HIDE DEF cp, cq
  <2>2. \A c \in Classes : BalanceOf(cp, c) \in Nat
    BY ONLY <1>3, <2>1, GapHoursNat
  <2>3. \A c \in Classes : BalanceOf(cq, c) \in Nat
    BY ONLY <1>3, <2>1, GapHoursNat
  <2> QED
    BY <2>2, <2>3
<1>5. \A c \in Classes \ A : h[c] = f[c]
  <2> SUFFICES ASSUME NEW c \in Classes \ A PROVE BalanceOf(cq, c) = BalanceOf(cp, c)
    OBVIOUS
  <2>1. \A x \in Classes \X AllDays : x[1] \notin A => cq[x] = cp[x]
    BY ONLY <1>2 DEF HourMoves
  <2> HIDE DEF A, cp, cq
  <2>2. \A d \in AllDays : cq[<<c, d>>] = cp[<<c, d>>]
    BY <2>1
  <2> QED
    BY <2>2 DEF BalanceOf, Loads
<1>6. ClassDayBalance(Q) = SumFunction(h) /\ ClassDayBalance(rows) = SumFunction(f)
  BY DEF ClassDayBalance
<1>7. SumFunction(h) - SumFunction(f) = SumFunction([c \in A |-> h[c] - f[c]])
  <2> HIDE DEF f, h, A
  <2> QED
    BY <1>1, <1>3, <1>4, <1>5, SumChange
<1>8. ASSUME NEW c \in A
      PROVE  BalanceAfterMove(cp, c, Day(p.slot), Day(q.slot)) - BalanceOf(cp, c) = h[c] - f[c]
  <2> HIDE DEF cp, cq, A
  <2>1. BalanceAfterMove(cp, c, Day(p.slot), Day(q.slot)) = BalanceOf(cq, c)
    <3> DEFINE o == p.slot
               w == q.slot
    <3>1. /\ A \in SUBSET Classes /\ o \in Slots /\ w \in Slots /\ c \in A
          /\ HourMoves(Classes, A, cp, cq, o, w) /\ Pos(w) \notin cp[<<c, Day(w)>>]
      BY <1>1, <1>2
    <3> HIDE DEF o, w
    <3>2. BalanceAfterMove(cp, c, Day(o), Day(w)) = BalanceOf(cq, c)
      BY ONLY <3>1, MovedSpread
    <3> QED
      BY <3>2 DEF o, w
  <2>2. c \in Classes
    BY <1>1
  <2>3. h[c] = BalanceOf(cq, c) /\ f[c] = BalanceOf(cp, c)
    BY ONLY <2>2
  <2> HIDE DEF f, h
  <2> QED
    BY ONLY <2>1, <2>3
<1>9. BalanceDelta(p, q) = SumFunction([c \in A |-> h[c] - f[c]])
  <2>1. [c \in A |-> BalanceAfterMove(cp, c, Day(p.slot), Day(q.slot)) - BalanceOf(cp, c)]
          = [c \in A |-> h[c] - f[c]]
    BY <1>8
  <2>2. BalanceDelta(p, q) = SumFunction(
          [c \in A |-> BalanceAfterMove(cp, c, Day(p.slot), Day(q.slot)) - BalanceOf(cp, c)])
    BY DEF BalanceDelta
  <2> HIDE DEF f, h, cp, cq, A
  <2> QED
    BY ONLY <2>1, <2>2
<1> HIDE DEF f, h
<1> QED
  BY <1>6, <1>7, <1>9

\* The shortcuts of a Change give what pricing both schedules gives, for any
\* row and any slot that is free for its classes and its teacher, blocks
\* included.
THEOREM ShortcutsAlwaysExact == ScoredSpec => []ShortcutsExact
<1>1. Inv /\ PositionsMirrorRows => ShortcutsExact
  <2> SUFFICES ASSUME Inv, PositionsMirrorRows, phase = "search",
                      NEW p \in rows, NEW s \in Slots,
                      \A r \in rows : r.slot = s =>
                         /\ r.teacher # p.teacher
                         /\ ClassesOf[r.lesson] \cap ClassesOf[p.lesson] = {},
                      NEW q, q = [p EXCEPT !.slot = s],
                      NEW moved, moved = (rows \ {p}) \cup {q}
               PROVE  /\ SliceDelta(p, q) = SliceCost(moved) - SliceCost(rows)
                      /\ BalanceDelta(p, q) = ClassDayBalance(moved) - ClassDayBalance(rows)
    BY DEF ShortcutsExact
  <2>1. rows \in SUBSET Row /\ NoDoubleBooking(rows)
    BY DEF Inv, TypeOK, Orderly
  <2>2. q \in Row /\ q.lesson = p.lesson /\ q.teacher = p.teacher /\ q.slot = s
    BY <2>1 DEF Row
  <2>3. Shifts(rows, p, q)
    BY <2>1, <2>2 DEF Shifts
  <2>4. classPos = ClassPositions(rows) /\ teacherPos = TeacherPositions(rows)
    BY DEF PositionsMirrorRows
  <2> QED
    BY <2>3, <2>4, SliceDeltaExact, BalanceDeltaExact
<1> QED
  BY <1>1, ScoredInvariance, PositionsExact, PTL

-----------------------------------------------------------------------------
(* The slice.                                                               *)

\* The positions of a block of n hours from s on.
Hours0(s, n) == Pos(s)..(Pos(s) + n - 1)

\* Each of A is busy n hours more from s on, in hours that were free.
HoursAdded(X, A, pos, new, s, n) ==
    /\ ByDay(X, pos) /\ ByDay(X, new)
    /\ \A x \in X \X AllDays :
         new[x] = IF x[1] \in A /\ x[2] = Day(s) THEN pos[x] \cup Hours0(s, n) ELSE pos[x]
    /\ \A c \in A : pos[<<c, Day(s)>>] \cap Hours0(s, n) = {}

\* gap_after_window_insert, summed over who is busy, is what the gap-hours
\* change by.
LEMMA AddedExact ==
  ASSUME NEW X, IsFiniteSet(X), NEW A \in SUBSET X, NEW pos, NEW new,
         NEW s \in Slots, NEW n \in Nat \ {0}, HoursAdded(X, A, pos, new, s, n)
  PROVE  /\ GapHours(new) - GapHours(pos)
              = SumFunction([c \in A |-> GapAfterWindow(pos[<<c, Day(s)>>], Pos(s), n)
                                           - GapCount(pos[<<c, Day(s)>>])])
         /\ GapHours(new) \in Int /\ GapHours(pos) \in Int
         /\ \A c \in A : GapAfterWindow(pos[<<c, Day(s)>>], Pos(s), n)
                           - GapCount(pos[<<c, Day(s)>>]) \in Int
<1> DEFINE d == Day(s)
<1>1. d \in AllDays /\ Pos(s) \in Nat
  BY DaysNumbered DEF TimeBlocks
<1>2. ByDay(X, pos) /\ ByDay(X, new)
  BY DEF HoursAdded
<1>3. ASSUME NEW x \in X \X AllDays
      PROVE  new[x] = IF x[1] \in A /\ x[2] = d THEN pos[x] \cup Hours0(s, n) ELSE pos[x]
  BY DEF HoursAdded
<1>4. ASSUME NEW c \in A PROVE pos[<<c, d>>] \cap Hours0(s, n) = {}
  BY DEF HoursAdded
<1> HIDE DEF d
<1>5. \A x \in X \X AllDays : x \notin A \X {d} => new[x] = pos[x]
  <2> SUFFICES ASSUME NEW x \in X \X AllDays, x \notin A \X {d} PROVE new[x] = pos[x]
    OBVIOUS
  <2>1. x[1] \notin A \/ x[2] # d
    OBVIOUS
  <2> QED
    BY ONLY <1>3, <2>1, x \in X \X AllDays
<1>6. ASSUME NEW c \in A
      PROVE  /\ GapAfterWindow(pos[<<c, d>>], Pos(s), n) = GapCount(new[<<c, d>>])
             /\ GapCount(new[<<c, d>>]) \in Nat /\ GapCount(pos[<<c, d>>]) \in Nat
  <2>1. <<c, d>> \in X \X AllDays
    BY <1>1
  <2>2. pos[<<c, d>>] \in HourSets /\ new[<<c, d>>] \in HourSets
    BY <1>2, <2>1 DEF ByDay
  <2>3. \A x \in X \X AllDays : x[1] \in A /\ x[2] = d => new[x] = pos[x] \cup Hours0(s, n)
    BY ONLY <1>3
  <2>4. new[<<c, d>>] = pos[<<c, d>>] \cup Hours0(s, n)
    BY ONLY <2>1, <2>3, c \in A
  <2> DEFINE P == pos[<<c, d>>]
  <2>5. P \in HourSets /\ P \cap (Pos(s)..(Pos(s) + n - 1)) = {}
    BY <1>4, <2>2 DEF Hours0
  <2> HIDE DEF P
  <2>6. GapAfterWindow(P, Pos(s), n) = GapCount(P \cup (Pos(s)..(Pos(s) + n - 1)))
    BY ONLY <1>1, <2>5, n \in Nat \ {0}, WindowExact
  <2>7. GapAfterWindow(pos[<<c, d>>], Pos(s), n) = GapCount(new[<<c, d>>])
    BY <2>4, <2>6 DEF P, Hours0
  <2>8. GapCount(new[<<c, d>>]) \in Nat /\ GapCount(pos[<<c, d>>]) \in Nat
    BY <2>2, GapNat
  <2> QED
    BY <2>7, <2>8
<1>7. [c \in A |-> GapAfterWindow(pos[<<c, d>>], Pos(s), n) - GapCount(pos[<<c, d>>])]
        = [c \in A |-> GapCount(new[<<c, d>>]) - GapCount(pos[<<c, d>>])]
  BY <1>6
<1>8. \A c \in A : GapAfterWindow(pos[<<c, d>>], Pos(s), n) - GapCount(pos[<<c, d>>]) \in Int
  <2> SUFFICES ASSUME NEW c \in A
               PROVE  GapAfterWindow(pos[<<c, d>>], Pos(s), n) - GapCount(pos[<<c, d>>]) \in Int
    OBVIOUS
  <2>1. /\ GapAfterWindow(pos[<<c, d>>], Pos(s), n) = GapCount(new[<<c, d>>])
        /\ GapCount(new[<<c, d>>]) \in Nat /\ GapCount(pos[<<c, d>>]) \in Nat
    BY <1>6
  <2> QED
    BY ONLY <2>1
<1>9. /\ GapHours(new) - GapHours(pos)
           = SumFunction([c \in A |-> GapCount(new[<<c, d>>]) - GapCount(pos[<<c, d>>])])
      /\ GapHours(new) \in Int /\ GapHours(pos) \in Int
  BY <1>1, <1>2, <1>5, DayShift
<1>10. GapHours(new) - GapHours(pos)
         = SumFunction([c \in A |-> GapAfterWindow(pos[<<c, d>>], Pos(s), n) - GapCount(pos[<<c, d>>])])
  BY ONLY <1>7, <1>9
<1> QED
  BY <1>8, <1>9, <1>10 DEF d

\* The hours of a block are those of its window, for its classes and its
\* teacher.
LEMMA BlockPositions ==
  ASSUME NEW l \in Lessons, NEW s \in Slots, NEW room \in Rooms, NEW t \in Teachers,
         NEW B \in SUBSET Row, B = Block(l, s, room, t)
  PROVE  /\ \A x \in Classes \X AllDays : ClassPositions(B)[x]
              = IF x[1] \in ClassesOf[l] /\ x[2] = Day(s) THEN Hours0(s, BlockSize[l]) ELSE {}
         /\ \A x \in Teachers \X AllDays : TeacherPositions(B)[x]
              = IF x[1] \in {t} /\ x[2] = Day(s) THEN Hours0(s, BlockSize[l]) ELSE {}
<1> DEFINE n == BlockSize[l]
<1>1. n \in Nat /\ Pos(s) \in Nat
  BY DaysNumbered, ProblemAssumption DEF ValidLessons, TimeBlocks
<1>2. ASSUME NEW d, NEW p
      PROVE  p \in PositionsOf(B, d) <=> d = Day(s) /\ p \in Hours0(s, n)
  <2>1. p \in PositionsOf(B, d) <=> \E r \in B : r.slot = <<d, p>>
    BY PositionRow
  <2>2. (\E r \in B : r.slot = <<d, p>>) <=> <<d, p>> \in Window(s, n)
    <3>1. \A r \in B : r.slot \in Window(s, n)
      BY DEF Block
    <3>2. ASSUME NEW w \in Window(s, n) PROVE \E r \in B : r.slot = w
      <4> DEFINE r0 == [lesson |-> l, slot |-> w, room |-> room, teacher |-> t]
      <4>1. r0 \in B /\ r0.slot = w
        BY DEF Block
      <4> QED
        BY <4>1
    <3> QED
      BY ONLY <3>1, <3>2
  <2>3. <<d, p>> \in Window(s, n) <=> d = Day(s) /\ \E k \in 0..(n - 1) : p = Pos(s) + k
    BY DEF Window
  <2>4. (\E k \in 0..(n - 1) : p = Pos(s) + k) <=> p \in Hours0(s, n)
    <3>1. ASSUME p \in Pos(s)..(Pos(s) + n - 1) PROVE \E k \in 0..(n - 1) : p = Pos(s) + k
      <4> DEFINE k == p - Pos(s)
      <4>1. k \in 0..(n - 1) /\ p = Pos(s) + k
        BY <1>1, <3>1
      <4> QED
        BY <4>1
    <3>2. ASSUME NEW k \in 0..(n - 1), p = Pos(s) + k PROVE p \in Pos(s)..(Pos(s) + n - 1)
      BY <1>1, <3>2
    <3> QED
      BY <3>1, <3>2 DEF Hours0
  <2> QED
    BY ONLY <2>1, <2>2, <2>3, <2>4
<1>3. \A r \in B : r.lesson = l /\ r.teacher = t
  BY DEF Block
<1>4. ASSUME NEW x \in Classes \X AllDays
      PROVE  ClassPositions(B)[x] = IF x[1] \in ClassesOf[l] /\ x[2] = Day(s) THEN Hours0(s, n) ELSE {}
  <2>1. ClassPositions(B)[x] = PositionsOf(ClassRows(B, x[1]), x[2])
    BY DEF ClassPositions
  <2>2. ClassRows(B, x[1]) = IF x[1] \in ClassesOf[l] THEN B ELSE {}
    BY <1>3 DEF ClassRows
  <2>3. PositionsOf({}, x[2]) = {}
    BY DEF PositionsOf
  <2>4. PositionsOf(B, x[2]) = IF x[2] = Day(s) THEN Hours0(s, n) ELSE {}
    BY <1>2
  <2> HIDE DEF n
  <2> QED
    BY ONLY <2>1, <2>2, <2>3, <2>4
<1>5. ASSUME NEW x \in Teachers \X AllDays
      PROVE  TeacherPositions(B)[x] = IF x[1] \in {t} /\ x[2] = Day(s) THEN Hours0(s, n) ELSE {}
  <2>1. TeacherPositions(B)[x] = PositionsOf(TeacherRows(B, x[1]), x[2])
    BY DEF TeacherPositions
  <2>2. TeacherRows(B, x[1]) = IF x[1] \in {t} THEN B ELSE {}
    BY <1>3 DEF TeacherRows
  <2>3. PositionsOf({}, x[2]) = {}
    BY DEF PositionsOf
  <2>4. PositionsOf(B, x[2]) = IF x[2] = Day(s) THEN Hours0(s, n) ELSE {}
    BY <1>2
  <2> HIDE DEF n
  <2> QED
    BY ONLY <2>1, <2>2, <2>3, <2>4
<1> QED
  BY <1>4, <1>5

\* try_place_block's commit adds the block's hours, which were free.
LEMMA BlockAddsHours ==
  ASSUME NEW R \in SUBSET Row, NEW B \in SUBSET Row, R \cap B = {}, NoDoubleBooking(R \cup B),
         NEW l \in Lessons, NEW s \in Slots, NEW room \in Rooms, NEW t \in Teachers,
         B = Block(l, s, room, t)
  PROVE  /\ HoursAdded(Classes, ClassesOf[l], ClassPositions(R), ClassPositions(R \cup B),
                       s, BlockSize[l])
         /\ HoursAdded(Teachers, {t}, TeacherPositions(R), TeacherPositions(R \cup B),
                       s, BlockSize[l])
<1> DEFINE Q == R \cup B
           n == BlockSize[l]
<1>1. Q \in SUBSET Row
  OBVIOUS
<1>2. /\ ByDay(Classes, ClassPositions(R)) /\ ByDay(Classes, ClassPositions(Q))
      /\ ByDay(Teachers, TeacherPositions(R)) /\ ByDay(Teachers, TeacherPositions(Q))
  BY <1>1, SchedulePositions
<1>3. Day(s) \in AllDays
  BY DaysNumbered DEF TimeBlocks
<1>4. ASSUME NEW x \in Classes \X AllDays
      PROVE  ClassPositions(Q)[x] = ClassPositions(R)[x] \cup ClassPositions(B)[x]
  <2>1. \A S : ClassPositions(S)[x] = PositionsOf(ClassRows(S, x[1]), x[2])
    BY DEF ClassPositions
  <2>2. ClassRows(Q, x[1]) = ClassRows(R, x[1]) \cup ClassRows(B, x[1])
    BY DEF ClassRows
  <2> HIDE DEF Q
  <2> QED
    BY ONLY <2>1, <2>2, PositionsJoined
<1>5. ASSUME NEW x \in Teachers \X AllDays
      PROVE  TeacherPositions(Q)[x] = TeacherPositions(R)[x] \cup TeacherPositions(B)[x]
  <2>1. \A S : TeacherPositions(S)[x] = PositionsOf(TeacherRows(S, x[1]), x[2])
    BY DEF TeacherPositions
  <2>2. TeacherRows(Q, x[1]) = TeacherRows(R, x[1]) \cup TeacherRows(B, x[1])
    BY DEF TeacherRows
  <2> HIDE DEF Q
  <2> QED
    BY ONLY <2>1, <2>2, PositionsJoined
<1>6. /\ \A x \in Classes \X AllDays : ClassPositions(B)[x]
              = IF x[1] \in ClassesOf[l] /\ x[2] = Day(s) THEN Hours0(s, n) ELSE {}
      /\ \A x \in Teachers \X AllDays : TeacherPositions(B)[x]
              = IF x[1] \in {t} /\ x[2] = Day(s) THEN Hours0(s, n) ELSE {}
  BY BlockPositions
<1>7. ASSUME NEW r \in R, NEW q \in B PROVE ~Clash(r, q)
  BY DEF NoDoubleBooking
<1>8. \A q \in B : q.lesson = l /\ q.teacher = t
  BY DEF Block
<1>9. ClassesOf[l] \in SUBSET Classes
  BY ProblemAssumption DEF ValidLessons
<1>10. ASSUME NEW c \in ClassesOf[l]
       PROVE  ClassPositions(R)[<<c, Day(s)>>] \cap Hours0(s, n) = {}
  <2> SUFFICES ASSUME NEW p \in ClassPositions(R)[<<c, Day(s)>>], p \in Hours0(s, n) PROVE FALSE
    OBVIOUS
  <2>1. <<c, Day(s)>> \in Classes \X AllDays
    BY <1>3, <1>9
  <2>2. p \in PositionsOf(ClassRows(R, c), Day(s))
    BY <2>1 DEF ClassPositions
  <2>3. ClassRows(R, c) \in SUBSET Row
    BY DEF ClassRows
  <2>4. PICK r \in ClassRows(R, c) : r.slot = <<Day(s), p>>
    BY ONLY <2>2, <2>3, PositionRow
  <2>5. p \in ClassPositions(B)[<<c, Day(s)>>]
    BY <1>6, <2>1
  <2>6. p \in PositionsOf(ClassRows(B, c), Day(s))
    BY <2>1, <2>5 DEF ClassPositions
  <2>7. ClassRows(B, c) \in SUBSET Row
    BY DEF ClassRows
  <2>8. PICK q \in ClassRows(B, c) : q.slot = <<Day(s), p>>
    BY ONLY <2>6, <2>7, PositionRow
  <2>9. r \in R /\ q \in B /\ c \in ClassesOf[r.lesson] /\ c \in ClassesOf[q.lesson]
    BY DEF ClassRows
  <2>10. ~Clash(r, q)
    BY <1>7, <2>9
  <2> QED
    BY ONLY <2>4, <2>8, <2>9, <2>10 DEF Clash
<1>11. TeacherPositions(R)[<<t, Day(s)>>] \cap Hours0(s, n) = {}
  <2> SUFFICES ASSUME NEW p \in TeacherPositions(R)[<<t, Day(s)>>], p \in Hours0(s, n) PROVE FALSE
    OBVIOUS
  <2>1. <<t, Day(s)>> \in Teachers \X AllDays
    BY <1>3
  <2>2. p \in PositionsOf(TeacherRows(R, t), Day(s))
    BY <2>1 DEF TeacherPositions
  <2>3. TeacherRows(R, t) \in SUBSET Row
    BY DEF TeacherRows
  <2>4. PICK r \in TeacherRows(R, t) : r.slot = <<Day(s), p>>
    BY ONLY <2>2, <2>3, PositionRow
  <2>5. p \in TeacherPositions(B)[<<t, Day(s)>>]
    BY <1>6, <2>1
  <2>6. p \in PositionsOf(TeacherRows(B, t), Day(s))
    BY <2>1, <2>5 DEF TeacherPositions
  <2>7. TeacherRows(B, t) \in SUBSET Row
    BY DEF TeacherRows
  <2>8. PICK q \in TeacherRows(B, t) : q.slot = <<Day(s), p>>
    BY ONLY <2>6, <2>7, PositionRow
  <2>9. r \in R /\ q \in B /\ r.teacher = t /\ q.teacher = t
    BY DEF TeacherRows
  <2>10. ~Clash(r, q)
    BY <1>7, <2>9
  <2> QED
    BY ONLY <2>4, <2>8, <2>9, <2>10 DEF Clash
<1> HIDE DEF Q, n
<1>12. \A x \in Classes \X AllDays : ClassPositions(Q)[x]
         = IF x[1] \in ClassesOf[l] /\ x[2] = Day(s)
           THEN ClassPositions(R)[x] \cup Hours0(s, n) ELSE ClassPositions(R)[x]
  BY ONLY <1>4, <1>6
<1>13. \A x \in Teachers \X AllDays : TeacherPositions(Q)[x]
         = IF x[1] \in {t} /\ x[2] = Day(s)
           THEN TeacherPositions(R)[x] \cup Hours0(s, n) ELSE TeacherPositions(R)[x]
  BY ONLY <1>5, <1>6
<1>14. HoursAdded(Classes, ClassesOf[l], ClassPositions(R), ClassPositions(Q), s, n)
  BY ONLY <1>2, <1>10, <1>12 DEF HoursAdded
<1>15. HoursAdded(Teachers, {t}, TeacherPositions(R), TeacherPositions(Q), s, n)
  BY ONLY <1>2, <1>11, <1>13 DEF HoursAdded
<1> QED
  BY <1>14, <1>15 DEF Q, n

\* The wishes of a block, hour by hour of its window.
LEMMA BlockWishes ==
  ASSUME NEW l \in Lessons, NEW s \in Slots, NEW room \in Rooms, NEW t \in Teachers,
         NEW B \in SUBSET Row, B = Block(l, s, room, t), Window(s, BlockSize[l]) \subseteq Slots
  PROVE  RowPreference(B)
           = SumFunction([w \in Window(s, BlockSize[l]) |-> SubjectPreference(SubjectOf[l], w)])
<1> DEFINE W == Window(s, BlockSize[l])
           f == [r \in B |-> SubjectPreference(SubjectOf[r.lesson], r.slot)]
           k == [w \in W |-> SubjectPreference(SubjectOf[l], w)]
           b == [r \in B |-> r.slot]
<1>1. IsFiniteSet(B)
  BY ScheduleFinite
<1>2. \A r \in B : r.lesson = l /\ r.slot \in W /\ r.room = room /\ r.teacher = t
  BY DEF Block
<1>3. \A w \in W : SubjectPreference(SubjectOf[l], w) \in Int
  <2>1. SubjectOf[l] \in Subjects
    BY ProblemAssumption DEF ValidLessons
  <2> QED
    BY <2>1, PreferenceNat
<1>4. f \in [B -> Int] /\ k \in [W -> Int]
  BY <1>2, <1>3
<1>5. \A r \in B : b[r] \in W /\ f[r] = k[b[r]]
  BY <1>2
<1>6. \A r, q \in B : b[r] = b[q] => r = q
  BY BlockRows
<1>7. ASSUME NEW w \in W PROVE \E r \in B : b[r] = w
  <2> DEFINE r0 == [lesson |-> l, slot |-> w, room |-> room, teacher |-> t]
  <2>1. r0 \in B /\ r0.slot = w
    BY DEF Block
  <2> QED
    BY <2>1
<1>8. RowPreference(B) = SumFunction(f)
  BY DEF RowPreference
<1> HIDE DEF f, k, b, W
<1>9. SumFunction(f) = SumFunction(k)
  BY ONLY <1>1, <1>4, <1>5, <1>6, <1>7, SumReindex
<1> QED
  BY <1>8, <1>9 DEF k, W

\* No rows, no wishes.
LEMMA NoRowsNoWishes == RowPreference({}) = 0
<1>1. [r \in {} |-> SubjectPreference(SubjectOf[r.lesson], r.slot)] = [r \in {} |-> 0]
  OBVIOUS
<1>2. SumFunction([r \in {} |-> 0]) = SumFunctionOnSet([r \in {} |-> 0], {})
  <2>1. IsFiniteSet({}) /\ [r \in {} |-> 0] \in [{} -> Int]
    BY FS_EmptySet
  <2> QED
    BY ONLY <2>1, SumType
<1>3. SumFunctionOnSet([r \in {} |-> 0], {}) = 0
  <2>1. IsFiniteSet({}) /\ \A x \in {} : [r \in {} |-> 0][x] \in Int
    BY FS_EmptySet
  <2> QED
    BY ONLY <2>1, SumRules
<1> QED
  BY <1>1, <1>2, <1>3 DEF RowPreference

\* What try_place_block makes of the slice is the slice of the new schedule.
LEMMA SliceAfterExact ==
  ASSUME rows \in SUBSET Row, NEW B \in SUBSET Row, rows \cap B = {}, NoDoubleBooking(rows \cup B),
         NEW l \in Lessons, NEW s \in Slots, NEW room \in Rooms, NEW t \in Teachers,
         B = Block(l, s, room, t), Window(s, BlockSize[l]) \subseteq Slots,
         classPos = ClassPositions(rows), teacherPos = TeacherPositions(rows),
         slice = SliceCost(rows)
  PROVE  SliceAfter(l, s, t) = SliceCost(rows \cup B)
<1> DEFINE Q == rows \cup B
           n == BlockSize[l]
           A == ClassesOf[l]
           cp == ClassPositions(rows)
           tp == TeacherPositions(rows)
           cdelta == SumFunction([c \in A |-> GapAfterWindow(cp[<<c, Day(s)>>], Pos(s), n)
                                               - GapCount(cp[<<c, Day(s)>>])])
           tdelta == GapAfterWindow(tp[<<t, Day(s)>>], Pos(s), n) - GapCount(tp[<<t, Day(s)>>])
           wishes == SumFunction([w \in Window(s, n) |-> SubjectPreference(SubjectOf[l], w)])
<1>1. /\ Q \in SUBSET Row /\ A \in SUBSET Classes /\ n \in Nat \ {0}
      /\ IsFiniteSet(Classes) /\ IsFiniteSet(Teachers) /\ {t} \in SUBSET Teachers
  BY ProblemAssumption DEF ValidLessons
<1>2. /\ HoursAdded(Classes, A, cp, ClassPositions(Q), s, n)
      /\ HoursAdded(Teachers, {t}, tp, TeacherPositions(Q), s, n)
  BY BlockAddsHours
<1>3. SliceAfter(l, s, t)
        = Floor0(slice + Weight["classGap"] * cdelta + Weight["teacherGap"] * tdelta + wishes)
  BY DEF SliceAfter
<1>4. /\ SliceCost(rows) = Weight["classGap"] * GapHours(cp) + Weight["teacherGap"] * GapHours(tp)
                           + RowPreference(rows)
      /\ SliceCost(Q) = Weight["classGap"] * GapHours(ClassPositions(Q))
                        + Weight["teacherGap"] * GapHours(TeacherPositions(Q)) + RowPreference(Q)
  BY DEF SliceCost
<1>5. RowPreference(B) = wishes
  BY BlockWishes
<1>6. RowPreference(Q) = RowPreference(rows) + wishes /\ RowPreference(rows) \in Nat /\ wishes \in Nat
  <2>1. Q \ rows = B /\ rows \ Q = {}
    OBVIOUS
  <2>2. RowPreference(Q) = RowPreference(rows) + RowPreference(Q \ rows) - RowPreference(rows \ Q)
    BY <1>1, WishesRepriced
  <2>3. RowPreference({}) = 0
    BY NoRowsNoWishes
  <2>4. RowPreference(rows) \in Nat /\ RowPreference(B) \in Nat
    BY RowSumsNat
  <2>5. RowPreference(Q) = RowPreference(rows) + RowPreference(B) - RowPreference({})
    BY ONLY <2>1, <2>2
  <2> HIDE DEF Q, wishes
  <2> QED
    BY ONLY <1>5, <2>3, <2>4, <2>5
<1>7. /\ GapHours(ClassPositions(Q)) - GapHours(cp) = cdelta
      /\ GapHours(ClassPositions(Q)) \in Int /\ GapHours(cp) \in Int
  <2>0. /\ IsFiniteSet(Classes) /\ A \in SUBSET Classes /\ n \in Nat \ {0} /\ s \in Slots
        /\ HoursAdded(Classes, A, cp, ClassPositions(Q), s, n)
    BY <1>1, <1>2
  <2> HIDE DEF cp, Q, A, n
  <2>1. /\ GapHours(ClassPositions(Q)) - GapHours(cp)
             = SumFunction([c \in A |-> GapAfterWindow(cp[<<c, Day(s)>>], Pos(s), n)
                                               - GapCount(cp[<<c, Day(s)>>])])
        /\ GapHours(ClassPositions(Q)) \in Int /\ GapHours(cp) \in Int
        /\ \A c \in A : GapAfterWindow(cp[<<c, Day(s)>>], Pos(s), n)
                            - GapCount(cp[<<c, Day(s)>>]) \in Int
    BY ONLY <2>0, AddedExact
  <2> QED
    BY <2>1
<1>8. /\ GapHours(TeacherPositions(Q)) - GapHours(tp) = tdelta
      /\ GapHours(TeacherPositions(Q)) \in Int /\ GapHours(tp) \in Int
  <2> DEFINE g == [u \in {t} |-> GapAfterWindow(tp[<<u, Day(s)>>], Pos(s), n)
                                   - GapCount(tp[<<u, Day(s)>>])]
  <2> HIDE DEF tp, Q, n
  <2>2. /\ GapHours(TeacherPositions(Q)) - GapHours(tp) = SumFunction(g)
        /\ GapHours(TeacherPositions(Q)) \in Int /\ GapHours(tp) \in Int
        /\ \A u \in {t} : GapAfterWindow(tp[<<u, Day(s)>>], Pos(s), n)
                            - GapCount(tp[<<u, Day(s)>>]) \in Int
    BY ONLY <1>1, <1>2, s \in Slots, AddedExact
  <2>3. g \in [{t} -> Int] /\ g[t] = tdelta
    BY ONLY <2>2
  <2> HIDE DEF g, tdelta
  <2>4. SumFunction(g) = SumFunctionOnSet(g, {t})
    BY ONLY <2>3, SumType, FS_Singleton
  <2>5. SumFunctionOnSet(g, {t}) = g[t]
    BY ONLY <2>3, SumOne
  <2> QED
    BY ONLY <2>2, <2>3, <2>4, <2>5
<1> HIDE DEF cdelta, tdelta, wishes, cp, tp, Q, A, n
<1>9. Weight["classGap"] \in Int /\ Weight["teacherGap"] \in Int
  BY WeightAssumption DEF Axes
<1>10. /\ Weight["classGap"] * cdelta
            = Weight["classGap"] * GapHours(ClassPositions(Q)) - Weight["classGap"] * GapHours(cp)
       /\ Weight["classGap"] * GapHours(ClassPositions(Q)) \in Int
       /\ Weight["classGap"] * GapHours(cp) \in Int
  BY ONLY <1>7, <1>9, Distributed
<1>11. /\ Weight["teacherGap"] * tdelta
            = Weight["teacherGap"] * GapHours(TeacherPositions(Q)) - Weight["teacherGap"] * GapHours(tp)
       /\ Weight["teacherGap"] * GapHours(TeacherPositions(Q)) \in Int
       /\ Weight["teacherGap"] * GapHours(tp) \in Int
  BY ONLY <1>8, <1>9, Distributed
<1>12. slice + Weight["classGap"] * cdelta + Weight["teacherGap"] * tdelta + wishes = SliceCost(Q)
  BY ONLY slice = SliceCost(rows), <1>4, <1>6, <1>10, <1>11
<1>13. SliceCost(Q) \in Nat
  BY <1>1, PriceNat
<1>14. \A m \in Nat : Floor0(m) = m
  BY DEF Floor0, Higher
<1> QED
  BY ONLY <1>3, <1>12, <1>13, <1>14 DEF Q

\* A Change of a single hour moves one row to a slot that is free for its
\* classes and its teacher.
LEMMA ChangedRow ==
  ASSUME Inv, TypeOK', NEW l \in Lessons, Change(l), BlockSize[l] = 1
  PROVE  \E p, q : /\ rows \ rows' = {p} /\ rows' \ rows = {q}
                   /\ rows' = (rows \ {p}) \cup {q}
                   /\ Shifts(rows, p, q)
<1>1. Inv'
  BY ChangeInv
<1>picked. PICK R \in Sources(l), s \in Slots, room \in Rooms, t \in Teachers, B \in SUBSET Row :
        MoveBlock(l, R, s, room, t, B)
  BY ChangeInv
<1>2. /\ B = Block(l, s, room, t)
      /\ rows' = (rows \ R) \cup B /\ (rows \ R) \cap B = {}
      /\ Window(s, BlockSize[l]) # {r.slot : r \in R}
      /\ \A r \in R : r.teacher = t
  BY ONLY <1>picked DEF MoveBlock
<1>3. PICK p \in rows : R = {p}
  BY <1>2 DEF Sources, RowsOf
<1>4. p.lesson = l /\ p.teacher = t
  BY <1>2, <1>3 DEF Sources, RowsOf
<1>5. PICK q : B = {q}
  <2>1. IsFiniteSet(B) /\ Cardinality(B) = 1
    BY <1>2, BlockOfRows
  <2> QED
    BY <2>1, FS_Singleton
<1>6. q \in Row /\ q.lesson = l /\ q.teacher = t
  <2>1. q \in Block(l, s, room, t)
    BY <1>2, <1>5
  <2>2. q.lesson = l /\ q.teacher = t
    BY ONLY <2>1, BlockRows
  <2> QED
    BY <1>5, <2>2
<1>7. p.slot # q.slot
  <2>1. \A r \in B : r.slot \in Window(s, BlockSize[l])
    BY <1>2 DEF Block
  <2>2. ASSUME NEW w \in Window(s, BlockSize[l]) PROVE \E r \in B : r.slot = w
    <3> DEFINE r0 == [lesson |-> l, slot |-> w, room |-> room, teacher |-> t]
    <3>1. r0 \in B /\ r0.slot = w
      BY <1>2 DEF Block
    <3> QED
      BY <3>1
  <2>3. Window(s, BlockSize[l]) = {q.slot}
    BY ONLY <1>5, <2>1, <2>2
  <2> QED
    BY ONLY <1>2, <1>3, <2>3
<1>8. rows \ rows' = {p} /\ rows' \ rows = {q} /\ rows' = (rows \ {p}) \cup {q} /\ q \notin rows
  BY ONLY <1>2, <1>3, <1>5, <1>7
<1>9. rows \in SUBSET Row /\ NoDoubleBooking(rows) /\ NoDoubleBooking(rows')
  BY <1>1 DEF Inv, TypeOK, Orderly
<1>10. ASSUME NEW r \in rows, r.slot = q.slot
       PROVE  r.teacher # p.teacher /\ ClassesOf[r.lesson] \cap ClassesOf[p.lesson] = {}
  <2>1. r \in rows' /\ q \in rows' /\ r # q
    BY <1>7, <1>8, <1>10
  <2>2. ~Clash(r, q)
    BY <1>9, <2>1 DEF NoDoubleBooking
  <2> QED
    BY ONLY <1>4, <1>6, <1>10, <2>2 DEF Clash
<1>11. Shifts(rows, p, q)
  BY ONLY <1>3, <1>4, <1>6, <1>9, <1>10 DEF Shifts
<1> QED
  BY ONLY <1>8, <1>11

\* In a schedule without pins the running slice is the recount, except in the
\* middle of a ruin, where it is the slice to go back to that is exact.
SliceInv ==
    PinnedRows = {} =>
      /\ phase \in {"ffd", "search", "ruin"} => slice = SliceCost(rows)
      /\ phase \in {"rescue", "recreate"} => savedSlice = SliceCost(Base)

\* A block that try_place_block commits.
LEMMA BlockSlice ==
  ASSUME Inv, TypeOK', PosInv, phase = "ffd", slice = SliceCost(rows),
         NEW l \in Lessons, FfdPlace(l), BookBlock(l)
  PROVE  slice' = SliceCost(rows')
<1>1. PICK s \in Slots, room \in Rooms, t \in Teachers : Place(l, s, room, t)
  BY DEF FfdPlace
<1> DEFINE B == Block(l, s, room, t)
           n == BlockSize[l]
           first == CHOOSE r \in rows' \ rows : \A q \in rows' \ rows : Pos(r.slot) <= Pos(q.slot)
<1>2. /\ Orderly(rows') /\ rows' = rows \cup B /\ rows \cap B = {} /\ B \in SUBSET Row
      /\ Window(s, n) \subseteq Slots
  <2>1. TypeOK /\ Orderly(rows) /\ Mirrored(rows, used, tally)
    BY DEF Inv
  <2>2. /\ Orderly(rows') /\ rows' = rows \cup B /\ rows \cap B = {}
    BY ONLY <1>1, <2>1, l \in Lessons, PlaceKeeps
  <2>3. Window(s, n) \subseteq Slots
    BY <1>1 DEF Place, CanPlace
  <2>4. B \in SUBSET Row
    BY <2>3, BlockType
  <2> QED
    BY ONLY <2>2, <2>3, <2>4
<1>3. n \in Nat \ {0} /\ Pos(s) \in Nat /\ s = <<Day(s), Pos(s)>>
  <2>1. s \in Nat \X Nat
    BY ProblemAssumption
  <2>2. n \in Nat \ {0}
    BY ProblemAssumption DEF ValidLessons
  <2> QED
    BY <2>1, <2>2 DEF Day, Pos
<1>4. rows' \ rows = B
  BY <1>2
<1>5. \A r \in B : /\ r.teacher = t
                   /\ \E k \in 0..(n - 1) : r.slot = <<Day(s), Pos(s) + k>>
  BY DEF Block, Window
<1>6. \E r \in B : r.slot = s
  <2> DEFINE r0 == [lesson |-> l, slot |-> s, room |-> room, teacher |-> t]
  <2>1. s \in Window(s, n)
    <3>1. 0 \in 0..(n - 1) /\ s = <<Day(s), Pos(s) + 0>>
      BY <1>3
    <3> QED
      BY <3>1 DEF Window
  <2>2. r0 \in B /\ r0.slot = s
    BY <2>1 DEF Block
  <2> QED
    BY <2>2
<1> HIDE DEF B, n
<1>7. ASSUME NEW r \in B
      PROVE  Pos(r.slot) \in Nat /\ Pos(s) <= Pos(r.slot) /\ (Pos(r.slot) <= Pos(s) => r.slot = s)
  <2>1. PICK k \in 0..(n - 1) : r.slot = <<Day(s), Pos(s) + k>>
    BY <1>5
  <2>2. Pos(r.slot) = Pos(s) + k
    BY <2>1 DEF Pos
  <2>3. k \in Nat
    BY <1>3
  <2>4. Pos(r.slot) <= Pos(s) => k = 0
    BY <1>3, <2>2, <2>3
  <2>5. k = 0 => r.slot = <<Day(s), Pos(s)>>
    BY <1>3, <2>1
  <2> QED
    BY ONLY <1>3, <2>2, <2>3, <2>4, <2>5
<1>8. first \in B /\ first.slot = s
  <2>1. first = CHOOSE r \in B : \A q \in B : Pos(r.slot) <= Pos(q.slot)
    BY <1>4
  <2>2. PICK r0 \in B : r0.slot = s
    BY <1>6
  <2>3. \A q \in B : Pos(r0.slot) <= Pos(q.slot)
    BY <1>7, <2>2
  <2>4. \E r \in B : \A q \in B : Pos(r.slot) <= Pos(q.slot)
    BY <2>2, <2>3
  <2>5. first \in B /\ \A q \in B : Pos(first.slot) <= Pos(q.slot)
    <3> HIDE DEF first
    <3> QED
      BY ONLY <2>1, <2>4
  <2> HIDE DEF first
  <2>6. Pos(first.slot) <= Pos(s)
    BY <2>2, <2>5
  <2> QED
    BY <1>7, <2>5, <2>6
<1>9. slice' = SliceAfter(l, first.slot, first.teacher)
  BY DEF BookBlock
<1>10. slice' = SliceAfter(l, s, t)
  <2> HIDE DEF first
  <2> QED
    BY ONLY <1>5, <1>8, <1>9
<1>11. classPos = ClassPositions(rows) /\ teacherPos = TeacherPositions(rows)
  BY DEF PosInv
<1>12. rows \in SUBSET Row /\ NoDoubleBooking(rows \cup B)
  BY <1>2 DEF Inv, TypeOK, Orderly
<1>13. SliceAfter(l, s, t) = SliceCost(rows \cup B)
  BY <1>2, <1>11, <1>12, SliceAfterExact DEF B, n
<1> QED
  BY <1>2, <1>10, <1>13

\* A Change of one row adds what score_after_change_move finds.
LEMMA ChangedSlice ==
  ASSUME Inv, TypeOK', PosInv, slice = SliceCost(rows), phase = "search",
         NEW l \in Lessons, ScoredChangeN1(l)
  PROVE  slice' = SliceCost(rows')
<1> DEFINE p == CHOOSE r \in rows \ rows' : TRUE
           q == CHOOSE r \in rows' \ rows : TRUE
<1>1. Change(l) /\ BlockSize[l] = 1 /\ slice' = Floor0(slice + SliceDelta(p, q))
  BY DEF ScoredChangeN1
<1>2. PICK p0, q0 : /\ rows \ rows' = {p0} /\ rows' \ rows = {q0}
                    /\ rows' = (rows \ {p0}) \cup {q0} /\ Shifts(rows, p0, q0)
  BY <1>1, ChangedRow
<1>3. p = p0 /\ q = q0
  BY <1>2
<1>4. classPos = ClassPositions(rows) /\ teacherPos = TeacherPositions(rows)
  BY DEF PosInv
<1>5. SliceDelta(p0, q0) = SliceCost(rows') - SliceCost(rows)
  BY <1>2, <1>4, SliceDeltaExact
<1>6. rows \in SUBSET Row /\ rows' \in SUBSET Row
  BY DEF Inv, TypeOK
<1>7. SliceCost(rows) \in Nat /\ SliceCost(rows') \in Nat
  BY <1>6, PriceNat
<1>8. \A m \in Nat : Floor0(m) = m
  BY DEF Floor0, Higher
<1> HIDE DEF p, q
<1> QED
  BY ONLY <1>1, <1>3, <1>5, <1>7, <1>8, slice = SliceCost(rows)

\* Trading rooms changes neither hours nor wishes.
LEMMA RepairedSlice ==
  ASSUME Inv, Inv', NEW l \in Lessons, HomeRoomRepair(l)
  PROVE  SliceCost(rows') = SliceCost(rows)
<1>1. /\ rows \in SUBSET Row /\ rows' \in SUBSET Row /\ OtherRooms(rows, rows')
  BY RepairedRooms DEF Inv
<1>2. ASSUME NEW R \in SUBSET Row, NoDoubleBooking(R) PROVE OneEach(R)
  BY <1>2 DEF NoDoubleBooking, OneEach, Alike, Clash
<1>3. OneEach(rows) /\ OneEach(rows')
  BY <1>1, <1>2 DEF Inv, Orderly
<1>4. RowPreference(rows) = RowPreference(rows')
  BY <1>1, <1>3, SamePreference
<1>5. ClassPositions(rows) = ClassPositions(rows') /\ TeacherPositions(rows) = TeacherPositions(rows')
  BY <1>1, SamePositions DEF OtherRooms, Alike
<1> QED
  BY ONLY <1>4, <1>5 DEF SliceCost

\* Every step keeps the running slice exact.
LEMMA NextSlice ==
  ASSUME Inv, Inv', PosInv, SliceInv, ScoredNext, PinnedRows = {}
  PROVE  SliceInv'
<1>0. TypeOK'
  BY DEF Inv
<1>1. CASE \E l \in Lessons : ScoredFfdPlace(l)
  <2>1. PICK l \in Lessons : FfdPlace(l) /\ BookBlock(l)
    BY <1>1 DEF ScoredFfdPlace
  <2>2. phase = "ffd" /\ phase' = "ffd"
    BY <2>1 DEF FfdPlace, FfdTurn
  <2>3. slice = SliceCost(rows)
    BY <2>2 DEF SliceInv
  <2>4. slice' = SliceCost(rows')
    BY <1>0, <2>1, <2>2, <2>3, BlockSlice
  <2> QED
    BY <2>2, <2>4 DEF SliceInv
<1>2. CASE \E l \in Lessons : ScoredFfdMiss(l)
  BY <1>2 DEF ScoredFfdMiss, FfdMiss, FfdTurn, costVars, SliceInv
<1>3. CASE \E l \in Lessons : ScoredRebuildPlace(l)
  <2>1. PICK l \in Lessons : ScoredRebuildPlace(l)
    BY <1>3
  <2>2. RebuildPlace(l) /\ UNCHANGED savedSlice
    BY <2>1 DEF ScoredRebuildPlace
  <2>3. Base' = Base
    BY <1>0, <2>2, RebuildPlaceInv
  <2>4. phase \in {"rescue", "recreate"} /\ phase' = phase
    BY <2>2 DEF RebuildPlace, Rebuilding
  <2> QED
    BY <2>2, <2>3, <2>4 DEF SliceInv
<1>4. CASE \E l \in Lessons : ScoredRebuildMiss(l)
  <2>1. PICK l \in Lessons : RebuildMiss(l) /\ UNCHANGED savedSlice
    BY <1>4 DEF ScoredRebuildMiss, costVars
  <2>2. phase \in {"rescue", "recreate"} /\ phase' = phase /\ rows' = rows
    BY <2>1 DEF RebuildMiss, Rebuilding
  <2>3. attempt'.added = attempt.added /\ attempt'.ruined = attempt.ruined
    BY <2>1, <2>2 DEF RebuildMiss, Inv, TypeOK, AttemptType
  <2>4. Base' = Base
    BY <2>2, <2>3 DEF Base
  <2> QED
    BY <2>1, <2>2, <2>4 DEF SliceInv
<1>5. CASE \E l \in Lessons : ScoredChangeN1(l)
  <2>1. PICK l \in Lessons : ScoredChangeN1(l)
    BY <1>5
  <2>2. phase = "search" /\ phase' = "search"
    BY <2>1 DEF ScoredChangeN1, Change, Searching
  <2>3. slice = SliceCost(rows)
    BY <2>2 DEF SliceInv
  <2>4. slice' = SliceCost(rows')
    BY <1>0, <2>1, <2>2, <2>3, ChangedSlice
  <2> QED
    BY <2>2, <2>4 DEF SliceInv
<1>6. CASE \/ \E l \in Lessons : ScoredChangeBlock(l)
           \/ \E l, m \in Lessons : ScoredSwap(l, m)
  <2>1. slice' = SliceCost(rows') /\ phase' = "search"
    BY <1>6 DEF ScoredChangeBlock, ScoredSwap, Repriced, Change, Swap, Searching
  <2> QED
    BY <2>1 DEF SliceInv
<1>7. CASE \E l \in Lessons : ScoredHomeRoomRepair(l)
  <2>1. PICK l \in Lessons : HomeRoomRepair(l) /\ UNCHANGED slice
    BY <1>7 DEF ScoredHomeRoomRepair
  <2>2. phase = "search" /\ phase' = "search"
    BY <2>1 DEF HomeRoomRepair, Searching
  <2>3. SliceCost(rows') = SliceCost(rows)
    BY <2>1, RepairedSlice
  <2> QED
    BY <2>1, <2>2, <2>3 DEF SliceInv
<1>8. CASE (\E l \in Lessons : ScoredRescue(l)) \/ ScoredRuin
  <2>1. (Ruin \/ \E l \in Lessons : Rescue(l)) /\ savedSlice' = slice
    BY <1>8 DEF ScoredRescue, ScoredRuin, BookRuin
  <2>2. PICK R : Uproots(R)
    BY <2>1, StartUproots
  <2>3. /\ phase \in {"search", "ruin"} /\ phase' \in {"rescue", "recreate"}
    BY <2>1 DEF Ruin, Rescue
  <2>4. Base' = rows
    BY <2>2 DEF Uproots, TakeOut, Base
  <2> QED
    BY <2>1, <2>3, <2>4 DEF SliceInv
<1>9. CASE ScoredFfdEnd
  BY <1>9 DEF ScoredFfdEnd, FfdEnd, SliceInv
<1>10. CASE ScoredKeep
  BY <1>10 DEF ScoredKeep, Keep, SliceInv
<1>11. CASE ScoredUndo
  <2>1. Undo /\ slice' = savedSlice
    BY <1>11 DEF ScoredUndo
  <2>2. rows' = Base
    BY <1>0, <2>1, UndoInv
  <2>3. phase \in {"rescue", "recreate"} /\ phase' \in {"search", "ruin"}
    BY <2>1 DEF Undo, Rebuilt
  <2> QED
    BY <2>1, <2>2, <2>3 DEF SliceInv
<1>12. CASE Idle
  <2>1. /\ phase \in {"search", "ruin"} /\ phase' = "search"
        /\ UNCHANGED <<rows, slice>>
    BY <1>12 DEF Idle, NothingToRuin, vars
  <2> QED
    BY <2>1 DEF SliceInv
<1>13. CASE ScoredFinish
  BY <1>13 DEF ScoredFinish, Finish, SliceInv
<1> QED
  BY <1>1, <1>2, <1>3, <1>4, <1>5, <1>6, <1>7, <1>8, <1>9, <1>10, <1>11, <1>12, <1>13 DEF ScoredNext

\* The slice of an empty schedule.
LEMMA NoRowsNoSlice == SliceCost({}) = 0
<1>1. ASSUME NEW X, IsFiniteSet(X), NEW pos, pos = [x \in X \X AllDays |-> {}]
      PROVE  GapHours(pos) = 0
  <2> DEFINE D == X \X AllDays
             f == [x \in D |-> GapCount(pos[x])]
  <2>1. IsFiniteSet(D)
    BY DaysNumbered, FS_Product, <1>1
  <2>2. GapCount({}) = 0
    BY FS_EmptySet DEF GapCount
  <2>3. f = [x \in D |-> 0] /\ DOMAIN pos = D
    BY <1>1, <2>2
  <2>4. GapHours(pos) = SumFunction(f)
    BY <2>3 DEF GapHours
  <2> HIDE DEF D
  <2>5. f \in [D -> Int] /\ [x \in D |-> f[x] - f[x]] = f
    BY <2>3
  <2> HIDE DEF f
  <2>6. SumFunction([x \in D |-> f[x] - f[x]]) = SumFunction(f) - SumFunction(f)
    BY ONLY <2>1, <2>5, SumMinus
  <2>7. SumFunction(f) \in Int
    BY ONLY <2>1, <2>5, SumType
  <2> QED
    BY ONLY <2>4, <2>5, <2>6, <2>7
<1>2. /\ ClassPositions({}) = [x \in Classes \X AllDays |-> {}]
      /\ TeacherPositions({}) = [x \in Teachers \X AllDays |-> {}]
  <2>1. \A c, d : PositionsOf(ClassRows({}, c), d) = {} /\ PositionsOf(TeacherRows({}, c), d) = {}
    BY DEF PositionsOf, ClassRows, TeacherRows
  <2> QED
    BY <2>1 DEF ClassPositions, TeacherPositions
<1>3. GapHours(ClassPositions({})) = 0 /\ GapHours(TeacherPositions({})) = 0
  BY <1>1, <1>2, ProblemAssumption
<1>4. RowPreference({}) = 0
  BY NoRowsNoWishes
<1>5. Weight["classGap"] \in Nat /\ Weight["teacherGap"] \in Nat
  BY WeightAssumption DEF Axes
<1> QED
  BY <1>3, <1>4, <1>5 DEF SliceCost

\* When a schedule has no pins, the cost that try_place_block and the moves of
\* one row carry along is at every iteration what recomputing it gives: no sum
\* of deltas takes it below zero, and no ruin or undo leaves it behind.
THEOREM SliceAlwaysExact == ScoredSpec => []SliceExact
<1>1. ScoredInit => SliceInv
  BY NoRowsNoSlice DEF ScoredInit, Init, SliceInv
<1>2. (Inv /\ VInv) /\ (Inv /\ VInv)' /\ PositionsMirrorRows /\ SliceInv
        /\ [ScoredNext]_<<vars, costVars>> => SliceInv'
  <2> SUFFICES ASSUME Inv, Inv', PositionsMirrorRows, SliceInv, [ScoredNext]_<<vars, costVars>>,
                      PinnedRows = {}
               PROVE  SliceInv'
    BY DEF SliceInv
  <2>1. CASE ScoredNext
    BY <2>1, NextSlice DEF PosInv, PositionsMirrorRows
  <2>2. CASE UNCHANGED <<vars, costVars>>
    BY <2>2 DEF vars, costVars, SliceInv, Base
  <2> QED
    BY <2>1, <2>2
<1>3. SliceInv => SliceExact
  BY DEF SliceInv, SliceExact
<1> QED
  BY <1>1, <1>2, <1>3, ScoredInvariance, PositionsExact, PTL DEF ScoredSpec

-----------------------------------------------------------------------------
(* Late acceptance.                                                         *)

\* What a row pays for strange rooms.
LEMMA RoomOfOne ==
  ASSUME NEW r \in Row
  PROVE  HomeRoomTotal({r}) = HomeRoomPenalty(r.lesson, r.room)
<1> DEFINE f == [x \in Row |-> HomeRoomPenalty(x.lesson, x.room)]
<1>1. f \in [Row -> Int]
  <2>1. \A x \in Row : x.lesson \in Lessons
    BY DEF Row
  <2>2. \A x \in Row : HomeRoomPenalty(x.lesson, x.room) \in Int
    BY <2>1, PenaltyNat
  <2> QED
    BY <2>2
<1>2. [x \in {r} |-> f[x]] = [x \in {r} |-> HomeRoomPenalty(x.lesson, x.room)]
  OBVIOUS
<1>3. f[r] = HomeRoomPenalty(r.lesson, r.room)
  OBVIOUS
<1> HIDE DEF f
<1>4. HomeRoomTotal({r}) = SumFunction([x \in {r} |-> f[x]])
  BY <1>2 DEF HomeRoomTotal
<1>5. {r} \in SUBSET Row
  OBVIOUS
<1>6. SumFunction([x \in {r} |-> f[x]]) = SumFunctionOnSet(f, {r})
  BY ONLY <1>1, <1>5, RowsRepriced
<1>7. SumFunctionOnSet(f, {r}) = f[r]
  BY ONLY <1>1, r \in Row, SumOne
<1> QED
  BY ONLY <1>3, <1>4, <1>6, <1>7

\* Whether the class teacher teaches does not depend on when.
LEMMA ShiftedMisses ==
  ASSUME NEW R, NEW p, NEW q, Shifts(R, p, q), NEW Q, Q = (R \ {p}) \cup {q}
  PROVE  ClassTeacherMisses(Q) = ClassTeacherMisses(R)
<1>1. p \in R /\ q.lesson = p.lesson /\ q.teacher = p.teacher
  BY DEF Shifts
<1>2. ASSUME NEW c, NEW s
      PROVE  (\E r \in ClassRows(R, c) : SubjectOf[r.lesson] = s /\ PrefersOwn(c, s, r.teacher))
         <=> (\E r \in ClassRows(Q, c) : SubjectOf[r.lesson] = s /\ PrefersOwn(c, s, r.teacher))
  BY <1>1 DEF ClassRows
<1> QED
  BY <1>2 DEF ClassTeacherMisses

\* The prediction of a Change is the price of the new schedule, up to the rota
\* and the soft pins.
LEMMA PredictedEnough ==
  ASSUME NEW p, NEW q, Shifts(rows, p, q), NEW Q, Q = (rows \ {p}) \cup {q},
         classPos = ClassPositions(rows), teacherPos = TeacherPositions(rows),
         canonical = ScoreSolution(rows)
  PROVE  /\ Predicted(p, q) \in Nat
         /\ ScoreSolution(Q) - Weight["supervision"] * SupervisionSpread(Q)
                             - Weight["softPin"] * SoftPinMisses(Q) <= Predicted(p, q)
<1>1. /\ rows \in SUBSET Row /\ Q \in SUBSET Row /\ p \in Row /\ q \in Row
      /\ rows \ Q = {p} /\ Q \ rows = {q} /\ q.lesson = p.lesson
  <2>1. rows \in SUBSET Row /\ q.lesson = p.lesson
    BY DEF Shifts
  <2>2. Q \in SUBSET Row /\ p \in Row /\ q \in Row /\ rows \ Q = {p} /\ Q \ rows = {q}
    BY ShiftedRow
  <2> QED
    BY ONLY <2>1, <2>2
<1> DEFINE slices == SliceCost(Q) - SliceCost(rows)
           rooms == HomeRoomTotal(Q) - HomeRoomTotal(rows)
           days == ClassDayBalance(Q) - ClassDayBalance(rows)
           spreads == WorstClassSpread(Q) - WorstClassSpread(rows)
           gaps == WorstClassGaps(Q) - WorstClassGaps(rows)
           inner == canonical + slices + rooms + Weight["balance"] * days
                    + Weight["worstSpread"] * spreads + Weight["worstGaps"] * gaps
<1>2. SliceDelta(p, q) = slices /\ BalanceDelta(p, q) = days
  BY SliceDeltaExact, BalanceDeltaExact
<1>3. HomeRoomPenalty(q.lesson, q.room) - HomeRoomPenalty(p.lesson, p.room) = rooms
  <2>1. HomeRoomTotal(Q) = HomeRoomTotal(rows) + HomeRoomTotal({q}) - HomeRoomTotal({p})
    BY <1>1, RoomsRepriced
  <2>2. /\ HomeRoomTotal({q}) = HomeRoomPenalty(q.lesson, q.room)
        /\ HomeRoomTotal({p}) = HomeRoomPenalty(p.lesson, p.room)
    BY <1>1, RoomOfOne
  <2>3. HomeRoomTotal(rows) \in Nat /\ HomeRoomTotal({q}) \in Nat /\ HomeRoomTotal({p}) \in Nat
    BY <1>1, RowSumsNat
  <2> QED
    BY ONLY <2>1, <2>2, <2>3
<1>4. /\ HomeRoomPenalty(q.lesson, q.room) \in Int /\ HomeRoomPenalty(p.lesson, p.room) \in Int
      /\ \A R \in {rows, Q} : /\ SliceCost(R) \in Nat /\ HomeRoomTotal(R) \in Nat
                              /\ ClassDayBalance(R) \in Nat /\ WorstClassSpread(R) \in Nat
                              /\ WorstClassGaps(R) \in Nat /\ SoftPinMisses(R) \in Nat
                              /\ ClassTeacherMisses(R) \in Nat /\ SupervisionSpread(R) \in Nat
                              /\ ScoreSolution(R) \in Nat
  <2>1. p.lesson \in Lessons /\ q.lesson \in Lessons
    BY <1>1 DEF Row
  <2>2. HomeRoomPenalty(q.lesson, q.room) \in Int /\ HomeRoomPenalty(p.lesson, p.room) \in Int
    BY <2>1, PenaltyNat
  <2>3. ASSUME NEW R \in {rows, Q}
        PROVE  /\ SliceCost(R) \in Nat /\ HomeRoomTotal(R) \in Nat
               /\ ClassDayBalance(R) \in Nat /\ WorstClassSpread(R) \in Nat
               /\ WorstClassGaps(R) \in Nat /\ SoftPinMisses(R) \in Nat
               /\ ClassTeacherMisses(R) \in Nat /\ SupervisionSpread(R) \in Nat
               /\ ScoreSolution(R) \in Nat
    <3>1. R \in SUBSET Row
      BY <1>1
    <3>2. SliceCost(R) \in Nat /\ HomeRoomTotal(R) \in Nat /\ ScoreSolution(R) \in Nat
      BY ONLY <3>1, PriceNat
    <3>3. ClassDayBalance(R) \in Nat
      BY ONLY <3>1, BalanceNat
    <3>4. WorstClassSpread(R) \in Nat /\ WorstClassGaps(R) \in Nat
      BY ONLY <3>1, WorstSpreadNat, WorstGapsNat
    <3>5. SoftPinMisses(R) \in Nat /\ ClassTeacherMisses(R) \in Nat
      BY ONLY <3>1, MissesNat
    <3>6. SupervisionSpread(R) \in Nat
      BY ONLY SupervisionNat
    <3> QED
      BY ONLY <3>2, <3>3, <3>4, <3>5, <3>6
  <2> QED
    BY ONLY <2>2, <2>3
<1>5. Predicted(p, q)
        = Floor0(canonical + SliceDelta(p, q)
            + HomeRoomPenalty(q.lesson, q.room) - HomeRoomPenalty(p.lesson, p.room)
            + Weight["balance"] * BalanceDelta(p, q)
            + Weight["worstSpread"] * spreads + Weight["worstGaps"] * gaps)
  BY DEF Predicted
<1>6. /\ \A R : ScoreSolution(R)
           = SliceCost(R) + Weight["balance"] * ClassDayBalance(R)
             + Weight["worstSpread"] * WorstClassSpread(R) + Weight["worstGaps"] * WorstClassGaps(R)
             + HomeRoomTotal(R) + Weight["softPin"] * SoftPinMisses(R)
             + Weight["classTeacher"] * ClassTeacherMisses(R)
             + Weight["supervision"] * SupervisionSpread(R)
  BY DEF ScoreSolution
<1>7. \A a \in {"balance", "worstSpread", "worstGaps", "softPin", "classTeacher", "supervision"} :
        Weight[a] \in Nat
  BY WeightAssumption DEF Axes
<1>8. ClassTeacherMisses(Q) = ClassTeacherMisses(rows)
  BY ShiftedMisses
<1>9. /\ Weight["balance"] * days
            = Weight["balance"] * ClassDayBalance(Q) - Weight["balance"] * ClassDayBalance(rows)
      /\ Weight["balance"] * ClassDayBalance(Q) \in Int
      /\ Weight["balance"] * ClassDayBalance(rows) \in Int
  BY ONLY <1>4, <1>7, Distributed
<1>10. /\ Weight["worstSpread"] * spreads
            = Weight["worstSpread"] * WorstClassSpread(Q) - Weight["worstSpread"] * WorstClassSpread(rows)
       /\ Weight["worstSpread"] * WorstClassSpread(Q) \in Int
       /\ Weight["worstSpread"] * WorstClassSpread(rows) \in Int
  BY ONLY <1>4, <1>7, Distributed
<1>11. /\ Weight["worstGaps"] * gaps
            = Weight["worstGaps"] * WorstClassGaps(Q) - Weight["worstGaps"] * WorstClassGaps(rows)
       /\ Weight["worstGaps"] * WorstClassGaps(Q) \in Int
       /\ Weight["worstGaps"] * WorstClassGaps(rows) \in Int
  BY ONLY <1>4, <1>7, Distributed
<1>12. \A R \in {rows, Q} : /\ Weight["softPin"] * SoftPinMisses(R) \in Nat
                            /\ Weight["classTeacher"] * ClassTeacherMisses(R) \in Nat
                            /\ Weight["supervision"] * SupervisionSpread(R) \in Nat
  <2>1. \A m, n \in Nat : m * n \in Nat
    OBVIOUS
  <2> QED
    BY ONLY <1>4, <1>7, <2>1
<1>13. slices \in Int /\ rooms \in Int
  BY ONLY <1>4
<1>14. canonical = ScoreSolution(rows)
  OBVIOUS
<1> HIDE DEF days, spreads, gaps
<1>15. Predicted(p, q) = Floor0(inner) /\ inner \in Int
  <2> HIDE DEF slices, rooms
  <2>1. /\ Weight["balance"] * days \in Int /\ Weight["worstSpread"] * spreads \in Int
        /\ Weight["worstGaps"] * gaps \in Int /\ canonical \in Int
    BY ONLY <1>4, <1>9, <1>10, <1>11, <1>14
  <2>2. canonical + SliceDelta(p, q)
            + HomeRoomPenalty(q.lesson, q.room) - HomeRoomPenalty(p.lesson, p.room)
            + Weight["balance"] * BalanceDelta(p, q)
            + Weight["worstSpread"] * spreads + Weight["worstGaps"] * gaps = inner
    BY ONLY <1>2, <1>3, <1>4, <1>13, <2>1
  <2>3. inner \in Int
    BY ONLY <1>13, <2>1
  <2> QED
    BY ONLY <1>5, <2>2, <2>3
<1>16. ScoreSolution(Q) - Weight["supervision"] * SupervisionSpread(Q)
                        - Weight["softPin"] * SoftPinMisses(Q)
         = inner - Weight["supervision"] * SupervisionSpread(rows)
                 - Weight["softPin"] * SoftPinMisses(rows)
  BY ONLY <1>4, <1>6, <1>8, <1>9, <1>10, <1>11, <1>12, <1>14
<1>17. ScoreSolution(Q) - Weight["supervision"] * SupervisionSpread(Q)
                        - Weight["softPin"] * SoftPinMisses(Q) <= inner
  <2> HIDE DEF inner
  <2> QED
    BY ONLY <1>12, <1>15, <1>16
<1> HIDE DEF inner
<1>18. Floor0(inner) \in Nat /\ inner <= Floor0(inner)
  BY ONLY <1>15 DEF Floor0, Higher
<1>19. ScoreSolution(Q) - Weight["supervision"] * SupervisionSpread(Q)
                        - Weight["softPin"] * SoftPinMisses(Q) \in Int
  BY ONLY <1>4, <1>12
<1> QED
  BY ONLY <1>15, <1>17, <1>18, <1>19

\* The list of late acceptance holds costs, and is never empty.
HistoryInv == history \in Seq(Nat) /\ history # <<>>

\* An iteration takes the oldest entry and leaves its own.
LEMMA TickHistory ==
  ASSUME HistoryInv, Tick, canonical' \in Nat
  PROVE  HistoryInv'
<1>1. Tail(history) \in Seq(Nat)
  BY HeadTailProperties DEF HistoryInv
<1>2. history' = Append(Tail(history), canonical')
  BY DEF Tick
<1> QED
  BY ONLY <1>1, <1>2, canonical' \in Nat, AppendProperties DEF HistoryInv

\* A list that starts full of one cost.
LEMMA FullHistory ==
  ASSUME NEW n \in Nat
  PROVE  /\ [i \in 1..HistoryLength |-> n] \in Seq(Nat)
         /\ [i \in 1..HistoryLength |-> n] # <<>>
<1>1. HistoryLength \in Nat \ {0}
  BY HistoryAssumption
<1>2. [i \in 1..HistoryLength |-> n] \in Seq(Nat)
  BY <1>1, IsASeq
<1>3. DOMAIN [i \in 1..HistoryLength |-> n] = 1..HistoryLength /\ 1 \in 1..HistoryLength
  BY <1>1
<1>4. DOMAIN <<>> = {}
  OBVIOUS
<1> QED
  BY <1>2, <1>3, <1>4

\* Every step of the search.
LEMMA NextHistory ==
  ASSUME Inv, Inv', CanonInv', HistoryInv, ScoredNext
  PROVE  HistoryInv'
<1>1. ASSUME phase' = "search" PROVE canonical' \in Nat
  <2>1. canonical' = ScoreSolution(rows') /\ rows' \in SUBSET Row
    BY <1>1 DEF CanonInv, Inv, TypeOK
  <2> QED
    BY <2>1, PriceNat
<1>2. CASE UNCHANGED history
  BY <1>2 DEF HistoryInv
<1>3. CASE Tick /\ phase' = "search"
  BY <1>1, <1>3, TickHistory
<1>4. CASE ScoredFfdEnd
  <2>1. phase' = "search" /\ history' = [i \in 1..HistoryLength |-> canonical']
    BY <1>4 DEF ScoredFfdEnd, FfdEnd
  <2>2. canonical' \in Nat
    BY <1>1, <2>1
  <2> HIDE DEF HistoryInv
  <2>3. history' \in Seq(Nat) /\ history' # <<>>
    BY ONLY <2>1, <2>2, FullHistory
  <2> QED
    BY <2>3 DEF HistoryInv
<1>5. \/ UNCHANGED history
      \/ Tick /\ phase' = "search"
      \/ ScoredFfdEnd
  <2>1. CASE \E l \in Lessons : \/ ScoredFfdPlace(l) \/ ScoredFfdMiss(l) \/ ScoredRebuildPlace(l)
                                \/ ScoredRebuildMiss(l) \/ ScoredRescue(l)
    BY <2>1 DEF ScoredFfdPlace, ScoredFfdMiss, ScoredRebuildPlace, ScoredRebuildMiss,
                ScoredRescue, BookRuin, costVars
  <2>2. CASE \/ \E l \in Lessons : \/ ScoredChangeN1(l) \/ ScoredChangeBlock(l)
                                   \/ ScoredHomeRoomRepair(l)
             \/ \E l, m \in Lessons : ScoredSwap(l, m)
    BY <2>2 DEF ScoredChangeN1, ScoredChangeBlock, ScoredHomeRoomRepair, ScoredSwap, Repriced,
                Change, Swap, HomeRoomRepair, Searching
  <2>3. CASE ScoredRuin \/ ScoredFinish
    BY <2>3 DEF ScoredRuin, BookRuin, ScoredFinish, costVars
  <2>4. CASE ScoredKeep
    BY <2>4 DEF ScoredKeep, Keep
  <2>5. CASE ScoredUndo
    BY <2>5 DEF ScoredUndo, Undo
  <2>6. CASE Idle
    BY <2>6 DEF Idle, NothingToRuin, vars
  <2> QED
    BY <2>1, <2>2, <2>3, <2>4, <2>5, <2>6 DEF ScoredNext
<1> QED
  BY <1>2, <1>3, <1>4, <1>5

\* What late acceptance compares with.
LEMMA ConsentBounds ==
  ASSUME canonical \in Nat, HistoryInv, NEW cost \in Nat, Consent(cost), NEW m \in Int, m <= cost
  PROVE  m <= Higher(canonical, Head(history))
<1>1. Head(history) \in Nat
  BY HeadTailProperties DEF HistoryInv
<1>2. cost <= canonical \/ cost <= Head(history)
  BY DEF Consent
<1> QED
  BY ONLY <1>1, <1>2, canonical \in Nat, cost \in Nat, m \in Int, m <= cost DEF Higher

\* The price of a schedule without its rota and its soft pins.
LEMMA LessThanPrice ==
  ASSUME NEW R \in SUBSET Row, NEW m,
         m = ScoreSolution(R) - Weight["supervision"] * SupervisionSpread(R)
                              - Weight["softPin"] * SoftPinMisses(R)
  PROVE  m \in Int /\ m <= ScoreSolution(R)
<1>1. ScoreSolution(R) \in Nat /\ SupervisionSpread(R) \in Nat /\ SoftPinMisses(R) \in Nat
  BY PriceNat, SupervisionNat, MissesNat
<1>2. Weight["supervision"] \in Nat /\ Weight["softPin"] \in Nat
  BY WeightAssumption DEF Axes
<1>3. \A a, b \in Nat : a * b \in Nat
  OBVIOUS
<1>4. /\ Weight["supervision"] * SupervisionSpread(R) \in Nat
      /\ Weight["softPin"] * SoftPinMisses(R) \in Nat
  BY ONLY <1>1, <1>2, <1>3
<1> QED
  BY ONLY <1>1, <1>4, m = ScoreSolution(R) - Weight["supervision"] * SupervisionSpread(R)
                              - Weight["softPin"] * SoftPinMisses(R)

\* A step from one schedule of the search to another costs no more than the
\* schedule it leaves or than one of the last iterations.
LEMMA AcceptedStep ==
  ASSUME Inv, Inv', PosInv, CanonInv, HistoryInv, ScoredNext,
         phase = "search", phase' = "search", rows' # rows
  PROVE  ScoreSolution(rows') - Weight["supervision"] * SupervisionSpread(rows')
                              - Weight["softPin"] * SoftPinMisses(rows')
           <= Higher(canonical, Head(history))
<1> DEFINE m == ScoreSolution(rows') - Weight["supervision"] * SupervisionSpread(rows')
                              - Weight["softPin"] * SoftPinMisses(rows')
<1>1. rows \in SUBSET Row /\ rows' \in SUBSET Row /\ TypeOK'
  BY DEF Inv, TypeOK
<1>2. m \in Int /\ m <= ScoreSolution(rows')
  BY <1>1, LessThanPrice
<1>3. canonical = ScoreSolution(rows) /\ canonical \in Nat /\ ScoreSolution(rows') \in Nat
  BY <1>1, PriceNat DEF CanonInv
<1>4. \/ \E l \in Lessons : ScoredChangeN1(l)
      \/ \E l \in Lessons : ScoredChangeBlock(l)
      \/ \E l, n \in Lessons : ScoredSwap(l, n)
      \/ \E l \in Lessons : ScoredHomeRoomRepair(l)
  <2>1. ASSUME \E l \in Lessons : \/ ScoredFfdPlace(l) \/ ScoredFfdMiss(l) \/ ScoredRebuildPlace(l)
                                  \/ ScoredRebuildMiss(l) \/ ScoredRescue(l)
        PROVE  FALSE
    BY <2>1 DEF ScoredFfdPlace, ScoredFfdMiss, ScoredRebuildPlace, ScoredRebuildMiss,
                ScoredRescue, FfdPlace, FfdMiss, FfdTurn, RebuildPlace, RebuildMiss, Rebuilding,
                Rescue
  <2>2. ASSUME ScoredFfdEnd \/ ScoredRuin \/ ScoredKeep \/ ScoredUndo \/ Idle \/ ScoredFinish
        PROVE  FALSE
    BY <2>2 DEF ScoredFfdEnd, FfdEnd, ScoredRuin, Ruin, ScoredKeep, Keep, ScoredUndo, Undo, Rebuilt,
                Idle, NothingToRuin, ScoredFinish, Finish, vars
  <2> QED
    BY <2>1, <2>2 DEF ScoredNext
<1> HIDE DEF m
<1>5. CASE \/ \E l \in Lessons : ScoredChangeBlock(l)
           \/ \E l, n \in Lessons : ScoredSwap(l, n)
  <2>1. Repriced
    BY <1>5 DEF ScoredChangeBlock, ScoredSwap
  <2>2. Consent(ScoreSolution(rows'))
    BY <2>1 DEF Repriced
  <2> QED
    BY <1>2, <1>3, <2>2, ConsentBounds DEF m
<1>6. CASE \E l \in Lessons : ScoredHomeRoomRepair(l)
  <2>1. PICK l \in Lessons : ScoredHomeRoomRepair(l)
    BY <1>6
  <2>2. canonical' = ScoreSolution(rows')
    BY <2>1, RepairedCanonical
  <2>3. canonical' <= Head(history)
    BY <2>1 DEF ScoredHomeRoomRepair
  <2>4. Consent(ScoreSolution(rows'))
    BY <2>2, <2>3 DEF Consent
  <2> QED
    BY <1>2, <1>3, <2>4, ConsentBounds DEF m
<1>7. CASE \E l \in Lessons : ScoredChangeN1(l)
  <2>1. PICK l \in Lessons : ScoredChangeN1(l)
    BY <1>7
  <2> DEFINE p == CHOOSE r \in rows \ rows' : TRUE
             q == CHOOSE r \in rows' \ rows : TRUE
  <2>2. Change(l) /\ BlockSize[l] = 1 /\ Consent(Predicted(p, q))
    BY <2>1 DEF ScoredChangeN1
  <2>3. PICK p0, q0 : /\ rows \ rows' = {p0} /\ rows' \ rows = {q0}
                      /\ rows' = (rows \ {p0}) \cup {q0} /\ Shifts(rows, p0, q0)
    BY <1>1, <2>2, ChangedRow
  <2>4. p = p0 /\ q = q0
    BY <2>3
  <2>5. classPos = ClassPositions(rows) /\ teacherPos = TeacherPositions(rows)
    BY DEF PosInv
  <2>6. /\ Predicted(p0, q0) \in Nat
        /\ m <= Predicted(p0, q0)
    BY <1>3, <2>3, <2>5, PredictedEnough DEF m
  <2> HIDE DEF p, q
  <2>7. Consent(Predicted(p0, q0))
    BY ONLY <2>2, <2>4
  <2> QED
    BY <1>2, <1>3, <2>6, <2>7, ConsentBounds DEF m
<1> QED
  BY <1>4, <1>5, <1>6, <1>7

\* Late acceptance never lets the search climb above the dearer of its
\* schedule and the oldest entry of its list, although a Change is decided on
\* a prediction.
THEOREM AcceptanceBounded == ScoredSpec => AcceptedIsNoDearer
<1>1. ScoredInit => CanonInv /\ HistoryInv
  BY FullHistory DEF ScoredInit, Init, CanonInv, HistoryInv
<1>2. /\ (Inv /\ VInv) /\ (Inv /\ VInv)' /\ CanonInv /\ HistoryInv
      /\ [ScoredNext]_<<vars, costVars>>
      => (CanonInv /\ HistoryInv)'
  <2> SUFFICES ASSUME Inv, Inv', CanonInv, HistoryInv, [ScoredNext]_<<vars, costVars>>
               PROVE  CanonInv' /\ HistoryInv'
    OBVIOUS
  <2>1. CASE ScoredNext
    <3>1. CanonInv'
      BY <2>1, NextCanonical
    <3> QED
      BY <2>1, <3>1, NextHistory
  <2>2. CASE UNCHANGED <<vars, costVars>>
    BY <2>2 DEF vars, costVars, CanonInv, HistoryInv, Base
  <2> QED
    BY <2>1, <2>2
<1>3. /\ (Inv /\ VInv) /\ (Inv /\ VInv)' /\ PositionsMirrorRows /\ CanonInv /\ HistoryInv
      /\ [ScoredNext]_<<vars, costVars>>
      => [phase = "search" /\ phase' = "search" /\ rows' # rows =>
            ScoreSolution(rows') - Weight["supervision"] * SupervisionSpread(rows')
                                 - Weight["softPin"] * SoftPinMisses(rows')
              <= Higher(canonical, Head(history))]_<<vars, costVars>>
  <2> SUFFICES ASSUME Inv, Inv', PositionsMirrorRows, CanonInv, HistoryInv, ScoredNext,
                      phase = "search", phase' = "search", rows' # rows
               PROVE  ScoreSolution(rows') - Weight["supervision"] * SupervisionSpread(rows')
                                 - Weight["softPin"] * SoftPinMisses(rows')
                        <= Higher(canonical, Head(history))
    OBVIOUS
  <2> QED
    BY AcceptedStep DEF PosInv, PositionsMirrorRows
<1> QED
  BY <1>1, <1>2, <1>3, ScoredInvariance, PositionsExact, PTL DEF ScoredSpec, AcceptedIsNoDearer

-----------------------------------------------------------------------------
(* The report.                                                              *)

\* The report that comes with the returned schedule adds up to the cost the
\* search has minimised.
THEOREM ReportAlwaysAddsUp == ScoredSpec => []ReportAddsUp
<1>1. Inv => ReportAddsUp
  <2> SUFFICES ASSUME Inv, phase = "done" PROVE ReportAddsUp
    BY DEF ReportAddsUp
  <2>1. rows \in SUBSET Row
    BY DEF Inv, TypeOK
  <2> QED
    BY <2>1, ReportExact DEF ReportAddsUp
<1> QED
  BY <1>1, ScoredInvariance, PTL
=============================================================================
